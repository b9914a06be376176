------------------------ MODULE NormalizePathProofs ------------------------
(***************************************************************************)
(* For every path of any length: NormalizePath writes inside its buffer,   *)
(* what a caller reads from it is a normal path, and its depth is that of  *)
(* the path.                                                               *)
(***************************************************************************)
EXTENDS NormalizePath, TLAPS, WellFoundedInduction, NaturalsInduction, FiniteSetTheorems

(* A set of numbers up to n that is not empty has a greatest one.          *)
LEMMA Greatest ==
  ASSUME NEW n \in Nat, NEW T \in SUBSET (0 .. n), T # {}
  PROVE  \E i \in T : \A j \in T : j <= i
<1> DEFINE U == {n - i : i \in T}
<1>1. U \subseteq Nat /\ U # {}
  <2>1. \A i \in T : i \in 0 .. n /\ n - i \in Nat /\ n - i \in U
    OBVIOUS
  <2>2. PICK i \in T : TRUE
    OBVIOUS
  <2> QED BY <2>1, <2>2
<1>2. IsWellFoundedOn(OpToRel(<, Nat), Nat)
  BY NatLessThanWellFounded
<1>3. PICK x \in U : \A y \in U : ~(<<y, x>> \in OpToRel(<, Nat))
  <2> HIDE DEF U
  <2> QED BY <1>1, <1>2, WFMin
<1>4. \A y \in U : ~(y < x)
  BY <1>1, <1>3 DEF OpToRel
<1>5. PICK i \in T : x = n - i
  OBVIOUS
<1>6. ASSUME NEW j \in T PROVE j <= i
  <2>1. ~(n - j < n - i)
    BY <1>4, <1>5
  <2> QED BY <2>1
<1> QED BY <1>5, <1>6

LEMMA Least ==
  ASSUME NEW T \in SUBSET Nat, T # {}
  PROVE  \E i \in T : \A j \in T : i <= j
<1>1. IsWellFoundedOn(OpToRel(<, Nat), Nat)
  BY NatLessThanWellFounded
<1>2. PICK i \in T : \A j \in T : ~(<<j, i>> \in OpToRel(<, Nat))
  BY <1>1, WFMin
<1>3. \A j \in T : ~(j < i)
  BY <1>2 DEF OpToRel
<1> QED
  BY <1>3

(* The runs that the scan jumps over have a beginning.                     *)
LEMMA Runs ==
  ASSUME src \in Seq(Characters), srcIt \in 1 .. Len(src)
  PROVE  /\ AtSlash => BeforeSlashes \in 0 .. srcIt - 1
         /\ AtSlash => /\ BeforeSlashes >= 1 => ~IsSlash(src[BeforeSlashes])
                       /\ \A j \in BeforeSlashes + 1 .. srcIt : IsSlash(src[j])
         /\ AtChar => /\ BeforeChars \in 0 .. srcIt - 1
                      /\ NoChar(BeforeChars)
                      /\ \A j \in BeforeChars + 1 .. srcIt : ~IsSlash(src[j])
<1>1. ASSUME AtSlash
      PROVE  /\ BeforeSlashes \in 0 .. srcIt - 1
             /\ BeforeSlashes >= 1 => ~IsSlash(src[BeforeSlashes])
             /\ \A j \in BeforeSlashes + 1 .. srcIt : IsSlash(src[j])
  <2> DEFINE T == {i \in 0 .. srcIt - 1 : i = 0 \/ ~IsSlash(src[i])}
  <2>1. PICK i \in T : \A j \in T : j <= i
    <3>1. T \in SUBSET (0 .. srcIt - 1) /\ 0 \in T /\ srcIt - 1 \in Nat
      OBVIOUS
    <3> HIDE DEF T
    <3> QED BY <3>1, Greatest
  <2>2. \A j \in i + 1 .. srcIt : IsSlash(src[j])
    <3> SUFFICES ASSUME NEW j \in i + 1 .. srcIt PROVE IsSlash(src[j])
      OBVIOUS
    <3>1. CASE j = srcIt
      BY <1>1, <3>1 DEF AtSlash
    <3>2. CASE j # srcIt
      BY <2>1, <3>2
    <3> QED BY <3>1, <3>2
  <2> QED BY <2>1, <2>2 DEF BeforeSlashes
<1>2. ASSUME AtChar
      PROVE  /\ BeforeChars \in 0 .. srcIt - 1
             /\ NoChar(BeforeChars)
             /\ \A j \in BeforeChars + 1 .. srcIt : ~IsSlash(src[j])
  <2> DEFINE T == {i \in 0 .. srcIt - 1 : NoChar(i)}
  <2>1. PICK i \in T : \A j \in T : j <= i
    <3>1. T \in SUBSET (0 .. srcIt - 1) /\ 0 \in T /\ srcIt - 1 \in Nat
      BY DEF NoChar
    <3> HIDE DEF T
    <3> QED BY <3>1, Greatest
  <2>2. \A j \in i + 1 .. srcIt : ~IsSlash(src[j])
    <3> SUFFICES ASSUME NEW j \in i + 1 .. srcIt PROVE ~IsSlash(src[j])
      OBVIOUS
    <3>1. CASE j = srcIt
      BY <1>2, <3>1 DEF AtChar
    <3>2. CASE j # srcIt
      BY <2>1, <3>2 DEF NoChar
    <3> QED BY <3>1, <3>2
  <2> QED BY <2>1, <2>2 DEF BeforeChars
<1> QED BY <1>1, <1>2

(***************************************************************************)
(* Near the end of the buffer it matters what was read last: after a dot   *)
(* entry comes a slash, so two of them never move dstIt in a row.          *)
(***************************************************************************)
Place ==
  \/ dstIt < Len(src)
  \/ dstIt = Len(src) /\ (srcIt = Len(src) \/ EndsInDots(src) \/ NoChar(srcIt))
  \/ dstIt = Len(src) + 1 /\ EndsInDots(src) /\ NoChar(srcIt)

Inductive ==
  /\ src \in Seq(Characters)
  /\ Scanning => /\ srcIt \in 0 .. Len(src)
                 /\ dstIt \in Int
                 /\ dstIt >= srcIt
                 /\ Place

LEMMA InductiveInit == Init => Inductive
BY SourcesAssumption DEF Init, Inductive, Scanning, Place

LEMMA InductiveNext == Inductive /\ [Next]_vars => Inductive'
<1> SUFFICES ASSUME Inductive, [Next]_vars PROVE Inductive'
  OBVIOUS
<1> USE DEF Inductive
<1>1. CASE AcceptSlash
  <2>1. srcIt \in 1 .. Len(src) /\ dstIt >= srcIt
    BY <1>1 DEF AcceptSlash, AtSlash, Scanning
  <2>2. BeforeSlashes \in 0 .. srcIt - 1
    BY <1>1, <2>1, Runs DEF AcceptSlash
  <2>3. dstIt - 1 < Len(src) \/ (dstIt - 1 = Len(src) /\ EndsInDots(src))
    BY <1>1, <2>1 DEF AcceptSlash, Scanning, Place
  <2> QED BY <1>1, <2>1, <2>2, <2>3 DEF AcceptSlash, Scanning, Place
<1>2. CASE AcceptDotEntry
  <2>1. srcIt \in 1 .. Len(src) /\ dstIt >= srcIt /\ ~IsSlash(src[srcIt]) /\ NoChar(srcIt - 1)
    BY <1>2 DEF AcceptDotEntry, AtDot, AtSlash, Scanning
  <2>2. srcIt = Len(src) => EndsInDots(src)
    BY <1>2, <2>1 DEF AcceptDotEntry, AtDot, NoChar, EndsInDots
  <2>3. dstIt < Len(src) \/ (dstIt = Len(src) /\ EndsInDots(src))
    BY <1>2, <2>1, <2>2 DEF AcceptDotEntry, Scanning, Place, NoChar
  <2> QED BY <1>2, <2>1, <2>3 DEF AcceptDotEntry, Scanning, Place, NoChar
<1>3. CASE AcceptDotDotEntry
  <2>1. srcIt \in 2 .. Len(src) /\ dstIt >= srcIt /\ ~IsSlash(src[srcIt]) /\ NoChar(srcIt - 2)
    BY <1>3 DEF AcceptDotDotEntry, AtDotDot, AtSlash, Scanning
  <2>2. srcIt = Len(src) => EndsInDots(src)
    BY <1>3, <2>1 DEF AcceptDotDotEntry, AtDotDot, NoChar, EndsInDots
  <2>3. dstIt < Len(src) \/ (dstIt = Len(src) /\ EndsInDots(src))
    BY <1>3, <2>1, <2>2 DEF AcceptDotDotEntry, Scanning, Place, NoChar
  <2> QED BY <1>3, <2>1, <2>3 DEF AcceptDotDotEntry, Scanning, Place, NoChar
<1>4. CASE AcceptChars
  <2>1. srcIt \in 1 .. Len(src) /\ dstIt >= srcIt /\ ~IsSlash(src[srcIt])
    BY <1>4 DEF AcceptChars, AtChar, Scanning
  <2>2. BeforeChars \in 0 .. srcIt - 1
    BY <1>4, <2>1, Runs DEF AcceptChars
  <2>3. dstIt <= Len(src)
    BY <1>4, <2>1 DEF AcceptChars, Scanning, Place, NoChar
  <2> QED BY <1>4, <2>1, <2>2, <2>3 DEF AcceptChars, Scanning, Place
<1>5. CASE EndOfScan
  BY <1>5 DEF EndOfScan, Scanning
<1>6. CASE PackOne \/ EndOfPack
  BY <1>6 DEF PackOne, EndOfPack, Scanning
<1>7. CASE FindFileName
  BY <1>7 DEF FindFileName, Scanning
<1>8. CASE UNCHANGED vars
  BY <1>8 DEF vars, scanVars, Scanning, Place, NoChar
<1> QED BY <1>1, <1>2, <1>3, <1>4, <1>5, <1>6, <1>7, <1>8 DEF Next

(* The scan writes nowhere but in the buffer of a std::string, terminator  *)
(* included, and at the terminator only when the path ends in dots         *)
(* (FastPathNormalization.cpp:76-125, 167, 187, 200).                      *)
THEOREM Buffer == Spec => []InBuffer
<1>1. Inductive => InBuffer
  BY DEF Inductive, InBuffer, Place
<1> QED BY <1>1, InductiveInit, InductiveNext, PTL DEF Spec

(***************************************************************************)
(* The result, by its elements.  A name is a run of elements that are no   *)
(* slash and not Nul.                                                      *)
(***************************************************************************)
InName(c) == c # Nul /\ ~IsSlash(c)

(* What may follow what: what is removed leaves a gap between a slash and  *)
(* a name, or before or behind everything.                                 *)
Follows(c, d) ==
  /\ c = Slash => d # Slash
  /\ InName(c) => d # Nul
  /\ c = Nul => d # Slash

(* A dot entry begins at i.                                                *)
DotsAt(f, lo, hi, i) ==
  /\ i = lo \/ ~InName(f[i - 1])
  /\ f[i] = Dot
  /\ \/ i = hi \/ ~InName(f[i + 1])
     \/ f[i + 1] = Dot /\ (i + 1 = hi \/ ~InName(f[i + 2]))

Neat(f, lo, hi) ==
  \A i \in lo .. hi :
    /\ f[i] \in {Slash, Dot, Nul} \cup Letters
    /\ i < hi => Follows(f[i], f[i + 1])
    /\ ~DotsAt(f, lo, hi, i)

(* What was written last bounds what comes next.                           *)
Frontier ==
  dstIt < Len(src) =>
    /\ dst[dstIt + 1] = Slash => skipping = 0 /\ ~AtSlash
    /\ InName(dst[dstIt + 1]) => NoChar(srcIt)
    /\ dst[dstIt + 1] = Nul /\ skipping = 0 => NoChar(srcIt)

(* As long as nothing was dropped there is nothing to pack.                *)
Whole(f, lo, hi) == f[hi + 1] = Nul /\ \A i \in lo .. hi : f[i] # Nul

(* What was packed, and behind it what is still to be read.                *)
Merged ==
  [k \in 1 .. base + Len(src) - dstIt |->
     IF k < base THEN dst[k] ELSE dst[k - base + dstIt]]

Result(n) ==
  /\ Neat(dst, 1, n)
  /\ \A i \in 1 .. n : dst[i] # Nul
  /\ dst[n + 1] = Nul

Scanned ==
  Scanning =>
    /\ base = 1
    /\ Neat(dst, dstIt + 1, Len(src))
    /\ Frontier
    /\ dstIt = srcIt => skipping = 0 /\ Whole(dst, dstIt + 1, Len(src))

Packing ==
  phase = "pack" =>
    /\ base < dstIt
    /\ dstIt <= Len(src) + 1 \/ base = 1
    /\ Neat(Merged, 1, base + Len(src) - dstIt)
    /\ \A i \in 1 .. base - 1 : dst[i] # Nul

Packed ==
  phase \in {"name", "done"} => \E n \in 0 .. Len(src) : Result(n)

(***************************************************************************)
(* The elements of a buffer.                                               *)
(***************************************************************************)
LEMMA Kinds ==
  /\ Slash # Nul /\ Slash # Dot /\ Dot # Nul /\ Slash \notin Letters /\ Nul \notin Letters
  /\ IsSlash(Slash) /\ ~IsSlash(Nul) /\ ~IsSlash(Dot)
  /\ ~InName(Slash) /\ ~InName(Nul) /\ InName(Dot)
  /\ \A c \in Letters : InName(c) /\ ~IsSlash(c)
  /\ \A c \in Characters : ~IsSlash(c) => c \in Letters \cup {Dot}
BY CharactersAssumption DEF IsSlash, InName, Characters

(* The same elements at other places.                                      *)
LEMMA NeatMoved ==
  ASSUME NEW f, NEW g, NEW lo \in Int, NEW hi \in Int, NEW d \in Int,
         NEW first, NEW last, first = lo + d, last = hi + d,
         Neat(f, first, last),
         \A i \in lo .. hi : g[i] = f[i + d]
  PROVE  Neat(g, lo, hi)
<1>0. Neat(f, lo + d, hi + d)
  OBVIOUS
<1> SUFFICES ASSUME NEW i \in lo .. hi
             PROVE  /\ g[i] \in {Slash, Dot, Nul} \cup Letters
                    /\ i < hi => Follows(g[i], g[i + 1])
                    /\ ~DotsAt(g, lo, hi, i)
  BY DEF Neat
<1>1. /\ i + d \in lo + d .. hi + d
      /\ g[i] = f[i + d]
      /\ i < hi => g[i + 1] = f[i + d + 1]
      /\ i + 1 < hi => g[i + 2] = f[i + d + 2]
      /\ i > lo => g[i - 1] = f[i + d - 1]
  <2>1. i < hi => i + 1 \in lo .. hi /\ i + 1 + d = i + d + 1
    OBVIOUS
  <2>2. i + 1 < hi => i + 2 \in lo .. hi /\ i + 2 + d = i + d + 2
    OBVIOUS
  <2>3. i > lo => i - 1 \in lo .. hi /\ i - 1 + d = i + d - 1
    OBVIOUS
  <2> QED
    BY <2>1, <2>2, <2>3
<1>2. /\ f[i + d] \in {Slash, Dot, Nul} \cup Letters
      /\ i + d < hi + d => Follows(f[i + d], f[i + d + 1])
      /\ ~DotsAt(f, lo + d, hi + d, i + d)
  BY <1>0, <1>1 DEF Neat
<1>3. (i = hi <=> i + d = hi + d) /\ (i = lo <=> i + d = lo + d) /\ (i + 1 = hi <=> i + d + 1 = hi + d)
  OBVIOUS
<1>4. ASSUME DotsAt(g, lo, hi, i) PROVE FALSE
  <2>1. i + d = lo + d \/ ~InName(f[i + d - 1])
    BY <1>1, <1>3, <1>4 DEF DotsAt
  <2>2. f[i + d] = Dot
    BY <1>1, <1>4 DEF DotsAt
  <2>3. \/ i + d = hi + d \/ ~InName(f[i + d + 1])
        \/ f[i + d + 1] = Dot /\ (i + d + 1 = hi + d \/ ~InName(f[i + d + 2]))
    BY <1>1, <1>3, <1>4 DEF DotsAt
  <2> QED
    BY <1>2, <2>1, <2>2, <2>3 DEF DotsAt
<1> QED
  BY <1>1, <1>2, <1>3, <1>4

LEMMA NeatSame ==
  ASSUME NEW f, NEW g, NEW lo \in Int, NEW hi \in Int,
         Neat(f, lo, hi),
         \A i \in lo .. hi : g[i] = f[i]
  PROVE  Neat(g, lo, hi)
<1>1. /\ 0 \in Int /\ lo = lo + 0 /\ hi = hi + 0
      /\ \A i \in lo .. hi : g[i] = f[i + 0]
  OBVIOUS
<1> QED
  BY <1>1, NeatMoved

(* The first element is dropped: no part of a name.                        *)
LEMMA NeatDropped ==
  ASSUME NEW f, NEW lo \in Int, NEW hi \in Int,
         Neat(f, lo, hi), lo <= hi => ~InName(f[lo])
  PROVE  Neat(f, lo + 1, hi)
<1> SUFFICES ASSUME NEW i \in lo + 1 .. hi, DotsAt(f, lo + 1, hi, i) PROVE FALSE
  BY DEF Neat
<1>1. i \in lo .. hi /\ lo <= hi /\ (i = lo + 1 => i - 1 = lo)
  OBVIOUS
<1>2. i = lo \/ ~InName(f[i - 1])
  BY <1>1 DEF DotsAt
<1> QED
  BY <1>1, <1>2 DEF Neat, DotsAt

(* The elements lo .. m are written before the others.                     *)
LEMMA NeatWritten ==
  ASSUME NEW f, NEW g, NEW lo \in Int, NEW m \in Int, NEW hi \in Int,
         lo <= m, m <= hi,
         Neat(f, m + 1, hi),
         \A i \in m + 1 .. hi : g[i] = f[i],
         \A i \in lo .. m : g[i] \in {Slash, Dot, Nul} \cup Letters,
         \A i \in lo .. m : i < hi => Follows(g[i], g[i + 1]),
         \A i \in lo .. m : ~DotsAt(g, lo, hi, i)
  PROVE  Neat(g, lo, hi)
<1> SUFFICES ASSUME NEW i \in lo .. hi
             PROVE  /\ g[i] \in {Slash, Dot, Nul} \cup Letters
                    /\ i < hi => Follows(g[i], g[i + 1])
                    /\ ~DotsAt(g, lo, hi, i)
  BY DEF Neat
<1>1. CASE i <= m
  BY <1>1
<1>2. CASE i > m
  <2>1. /\ i \in m + 1 .. hi /\ g[i] = f[i]
        /\ i < hi => g[i + 1] = f[i + 1]
        /\ i + 1 < hi => g[i + 2] = f[i + 2]
        /\ i > m + 1 => g[i - 1] = f[i - 1]
        /\ i # lo /\ i + 1 <= hi <=> i < hi
    BY <1>2
  <2>2. /\ f[i] \in {Slash, Dot, Nul} \cup Letters
        /\ i < hi => Follows(f[i], f[i + 1])
        /\ ~DotsAt(f, m + 1, hi, i)
    BY <2>1 DEF Neat
  <2>3. ASSUME DotsAt(g, lo, hi, i) PROVE FALSE
    <3>1. i = m + 1 \/ ~InName(f[i - 1])
      BY <1>2, <2>1, <2>3 DEF DotsAt
    <3>2. f[i] = Dot
      BY <2>1, <2>3 DEF DotsAt
    <3>3. \/ i = hi \/ ~InName(f[i + 1])
          \/ f[i + 1] = Dot /\ (i + 1 = hi \/ ~InName(f[i + 2]))
      BY <2>1, <2>3 DEF DotsAt
    <3> QED
      BY <2>2, <3>1, <3>2, <3>3 DEF DotsAt
  <2> QED
    BY <2>1, <2>2, <2>3
<1> QED
  BY <1>1, <1>2

(* A slash, or a Nul in its place.                                         *)
LEMMA NeatSlash ==
  ASSUME NEW f, NEW g, NEW lo \in Int, NEW hi \in Int,
         lo <= hi,
         Neat(f, lo + 1, hi),
         \A i \in lo + 1 .. hi : g[i] = f[i],
         g[lo] \in {Slash, Nul},
         lo < hi => f[lo + 1] # Slash
  PROVE  Neat(g, lo, hi)
<1>1. \A i \in lo .. lo : i = lo /\ g[i] \in {Slash, Dot, Nul} \cup Letters
  OBVIOUS
<1>2. lo < hi => Follows(g[lo], g[lo + 1])
  BY Kinds DEF Follows
<1>3. ~DotsAt(g, lo, hi, lo)
  BY Kinds DEF DotsAt
<1> QED
  BY <1>1, <1>2, <1>3, NeatWritten

(* A name that is not taken for dots, before a slash or at the end.        *)
LEMMA NeatName ==
  ASSUME NEW f, NEW g, NEW lo \in Int, NEW m \in Int, NEW hi \in Int,
         lo <= m, m <= hi,
         Neat(f, m + 1, hi),
         \A i \in m + 1 .. hi : g[i] = f[i],
         \A i \in lo .. m : g[i] \in Letters \cup {Dot},
         ~(lo = m /\ g[lo] = Dot),
         ~(lo + 1 = m /\ g[lo] = Dot /\ g[m] = Dot),
         m < hi => f[m + 1] = Slash
  PROVE  Neat(g, lo, hi)
<1>1. \A i \in lo .. m : InName(g[i])
  BY Kinds
<1>2. m < hi => g[m + 1] = Slash
  OBVIOUS
<1>3. ASSUME NEW i \in lo .. m, i < hi PROVE Follows(g[i], g[i + 1])
  <2>1. i < m => i + 1 \in lo .. m
    OBVIOUS
  <2>2. InName(g[i]) /\ g[i + 1] # Nul
    <3>1. CASE i < m
      BY <1>1, <2>1, <3>1, Kinds
    <3>2. CASE i = m
      BY <1>1, <1>2, <1>3, <3>2, Kinds
    <3> QED
      BY <3>1, <3>2
  <2> QED
    BY <2>2, Kinds DEF Follows
<1>4. ASSUME NEW i \in lo .. m, DotsAt(g, lo, hi, i) PROVE FALSE
  <2>1. i = lo
    <3>1. i # lo => i - 1 \in lo .. m
      OBVIOUS
    <3> QED
      BY <1>1, <1>4, <3>1 DEF DotsAt
  <2>2. g[lo] = Dot /\ lo < m
    BY <1>4, <2>1 DEF DotsAt
  <2>3. lo + 1 \in lo .. m /\ InName(g[lo + 1]) /\ lo < hi
    BY <1>1, <2>2
  <2>4. g[lo + 1] = Dot /\ (lo + 1 = hi \/ ~InName(g[lo + 2]))
    BY <1>4, <2>1, <2>3 DEF DotsAt
  <2>5. lo + 1 < m
    BY <2>2, <2>4
  <2>6. lo + 2 \in lo .. m /\ lo + 1 < hi
    BY <2>5
  <2> QED
    BY <1>1, <2>4, <2>6
<1> QED
  BY <1>3, <1>4, NeatWritten

(* A name that a ".." takes away.                                          *)
LEMMA NeatGap ==
  ASSUME NEW f, NEW g, NEW lo \in Int, NEW m \in Int, NEW hi \in Int,
         lo <= m, m <= hi,
         Neat(f, m + 1, hi),
         \A i \in m + 1 .. hi : g[i] = f[i],
         \A i \in lo .. m : g[i] = Nul,
         m < hi => f[m + 1] # Slash
  PROVE  Neat(g, lo, hi)
<1>1. ASSUME NEW i \in lo .. m, i < hi PROVE Follows(g[i], g[i + 1])
  <2>1. g[i] = Nul /\ g[i + 1] # Slash
    <3>1. CASE i < m
      <4>1. i + 1 \in lo .. m
        BY <3>1
      <4> QED
        BY <4>1, Kinds
    <3>2. CASE i = m
      <4>1. m + 1 \in m + 1 .. hi
        BY <1>1, <3>2
      <4> QED
        BY <1>1, <3>2, <4>1
    <3> QED
      BY <3>1, <3>2
  <2> QED
    BY <2>1, Kinds DEF Follows
<1>2. ASSUME NEW i \in lo .. m PROVE ~DotsAt(g, lo, hi, i)
  BY <1>2, Kinds DEF DotsAt
<1> QED
  BY <1>1, <1>2, NeatWritten

(* A Nul is left out when all before it stayed.                            *)
LEMMA NeatRemoved ==
  ASSUME NEW f, NEW g, NEW n \in Int, NEW b \in 1 .. n,
         Neat(f, 1, n),
         f[b] = Nul, \A i \in 1 .. b - 1 : f[i] # Nul,
         \A i \in 1 .. n - 1 : g[i] = IF i < b THEN f[i] ELSE f[i + 1]
  PROVE  Neat(g, 1, n - 1)
<1>1. b > 1 => f[b - 1] = Slash
  <2> SUFFICES ASSUME b > 1 PROVE f[b - 1] = Slash
    OBVIOUS
  <2>1. b - 1 \in 1 .. n /\ b - 1 < n /\ b - 1 + 1 = b /\ b - 1 \in 1 .. b - 1
    OBVIOUS
  <2>2. f[b - 1] \in {Slash, Dot, Nul} \cup Letters /\ Follows(f[b - 1], f[b]) /\ f[b - 1] # Nul
    BY <2>1 DEF Neat
  <2> QED
    BY <2>2, Kinds DEF Follows
<1>2. b < n => f[b + 1] # Slash
  <2> SUFFICES ASSUME b < n PROVE f[b + 1] # Slash
    OBVIOUS
  <2>1. b \in 1 .. n
    OBVIOUS
  <2>2. Follows(f[b], f[b + 1])
    BY <2>1 DEF Neat
  <2> QED
    BY <2>2, Kinds DEF Follows
<1> SUFFICES ASSUME NEW i \in 1 .. n - 1
             PROVE  /\ g[i] \in {Slash, Dot, Nul} \cup Letters
                    /\ i < n - 1 => Follows(g[i], g[i + 1])
                    /\ ~DotsAt(g, 1, n - 1, i)
  BY DEF Neat
<1>3. CASE i < b - 1
  <2>1. /\ i \in 1 .. n /\ i < n /\ i < n - 1 /\ g[i] = f[i] /\ g[i + 1] = f[i + 1]
        /\ i > 1 => g[i - 1] = f[i - 1]
        /\ i + 2 < b => g[i + 2] = f[i + 2]
        /\ i + 2 >= b => i + 1 = b - 1
    BY <1>3
  <2>2. /\ f[i] \in {Slash, Dot, Nul} \cup Letters
        /\ Follows(f[i], f[i + 1])
        /\ ~DotsAt(f, 1, n, i)
    BY <2>1 DEF Neat
  <2>3. ASSUME DotsAt(g, 1, n - 1, i) PROVE FALSE
    <3>1. (i = 1 \/ ~InName(f[i - 1])) /\ f[i] = Dot
      BY <2>1, <2>3 DEF DotsAt
    <3>2. InName(f[i + 1])
      BY <2>1, <2>2, <3>1 DEF DotsAt
    <3>3. i + 1 # b - 1
      BY <1>1, <1>3, <3>2, Kinds
    <3>4. i + 2 < b /\ i + 1 # n - 1 /\ i # n - 1
      BY <1>3, <3>3
    <3>5. f[i + 1] = Dot /\ ~InName(f[i + 2])
      BY <2>1, <2>3, <3>2, <3>4 DEF DotsAt
    <3> QED
      BY <2>2, <3>1, <3>5 DEF DotsAt
  <2> QED
    BY <2>1, <2>2, <2>3
<1>4. CASE i = b - 1
  <2>1. g[i] = Slash
    BY <1>1, <1>4
  <2>2. i < n - 1 => g[i + 1] # Slash
    BY <1>2, <1>4
  <2> QED
    BY <2>1, <2>2, Kinds DEF Follows, DotsAt
<1>5. CASE i > b - 1
  <2>1. /\ i + 1 \in 1 .. n /\ g[i] = f[i + 1]
        /\ i < n - 1 => i + 1 < n /\ g[i + 1] = f[i + 1 + 1]
        /\ i + 1 < n - 1 => g[i + 2] = f[i + 1 + 2]
        /\ i > b => g[i - 1] = f[i]
        /\ i + 1 - 1 = i /\ (i = n - 1 <=> i + 1 = n) /\ (i + 1 = n - 1 <=> i + 1 + 1 = n)
    BY <1>5
  <2>2. /\ f[i + 1] \in {Slash, Dot, Nul} \cup Letters
        /\ i + 1 < n => Follows(f[i + 1], f[i + 1 + 1])
        /\ ~DotsAt(f, 1, n, i + 1)
    BY <2>1 DEF Neat
  <2>3. ASSUME DotsAt(g, 1, n - 1, i) PROVE FALSE
    <3>1. ~InName(f[i + 1 - 1])
      <4>1. CASE i = b
        BY <2>1, <4>1, Kinds
      <4>2. CASE i > b
        BY <2>1, <2>3, <4>2 DEF DotsAt
      <4> QED
        BY <1>5, <4>1, <4>2
    <3>2. f[i + 1] = Dot
      BY <2>1, <2>3 DEF DotsAt
    <3>3. \/ i + 1 = n \/ ~InName(f[i + 1 + 1])
          \/ f[i + 1 + 1] = Dot /\ (i + 1 + 1 = n \/ ~InName(f[i + 1 + 2]))
      BY <2>1, <2>3 DEF DotsAt
    <3> QED
      BY <2>2, <3>1, <3>2, <3>3 DEF DotsAt
  <2> QED
    BY <2>1, <2>2, <2>3
<1> QED
  BY <1>3, <1>4, <1>5

(***************************************************************************)
(* The steps of the scan.                                                  *)
(***************************************************************************)
IInv == TypeOK /\ Inductive /\ Scanned /\ Packing /\ Packed

LEMMA InvInit == Init => IInv
<1> SUFFICES ASSUME Init PROVE IInv
  OBVIOUS
<1>1. /\ src \in Seq(Characters) /\ Len(src) \in Nat
      /\ srcIt = Len(src) /\ dstIt = Len(src) /\ phase = "scan" /\ base = 1 /\ filename = 0
      /\ depth = 0 /\ skipping = 0 /\ hasLeadingSlash = FALSE /\ firstEntryWasAccepted = FALSE
      /\ dst = [i \in 1 .. Len(src) + 1 |-> IF i <= Len(src) THEN Junk ELSE Nul]
  BY SourcesAssumption DEF Init
<1>2. TypeOK
  <2>1. dst \in [1 .. Len(src) + 1 -> Characters \cup {Nul, Junk}]
    BY <1>1
  <2>2. /\ src \in Seq(Characters) /\ srcIt \in 0 .. Len(src) /\ dstIt \in Int
        /\ base \in 1 .. Len(src) + 1 /\ filename \in 0 .. Len(src)
        /\ depth \in Int /\ skipping \in Nat
        /\ phase \in {"scan", "pack", "name", "done"}
    BY <1>1
  <2>3. hasLeadingSlash \in BOOLEAN /\ firstEntryWasAccepted \in BOOLEAN
    BY <1>1, Zenon
  <2> QED
    BY <2>1, <2>2, <2>3 DEF TypeOK
<1>3. Neat(dst, dstIt + 1, Len(src)) /\ Whole(dst, dstIt + 1, Len(src))
  BY <1>1 DEF Neat, Whole
<1>4. Scanned /\ Packing /\ Packed
  BY <1>1, <1>3 DEF Scanned, Packing, Packed, Frontier
<1> QED
  BY <1>2, <1>4, InductiveInit DEF IInv

(* What the steps of the scan have in common.                              *)
LEMMA Scan ==
  ASSUME IInv, Scanning
  PROVE  /\ src \in Seq(Characters) /\ Len(src) \in Nat
         /\ srcIt \in 0 .. Len(src)
         /\ dstIt \in srcIt .. Len(src) + 1
         /\ dst \in [1 .. Len(src) + 1 -> Characters \cup {Nul, Junk}]
         /\ depth \in Int /\ skipping \in Nat
         /\ base = 1 /\ filename \in 0 .. Len(src)
         /\ hasLeadingSlash \in BOOLEAN /\ firstEntryWasAccepted \in BOOLEAN
         /\ Neat(dst, dstIt + 1, Len(src)) /\ Frontier
         /\ dstIt = srcIt => skipping = 0 /\ Whole(dst, dstIt + 1, Len(src))
         /\ dstIt = Len(src) + 1 => NoChar(srcIt)
<1>1. /\ src \in Seq(Characters) /\ Len(src) \in Nat /\ dstIt \in Int
      /\ srcIt \in 0 .. Len(src) /\ dstIt >= srcIt /\ Place
  BY DEF IInv, Inductive
<1>2. dstIt <= Len(src) + 1 /\ (dstIt = Len(src) + 1 => NoChar(srcIt))
  BY <1>1 DEF Place
<1>3. base = 1 /\ Neat(dst, dstIt + 1, Len(src)) /\ Frontier
      /\ (dstIt = srcIt => skipping = 0 /\ Whole(dst, dstIt + 1, Len(src)))
  BY DEF IInv, Scanned
<1> QED
  BY <1>1, <1>2, <1>3 DEF IInv, TypeOK

LEMMA AcceptSlashInv == ASSUME IInv, AcceptSlash PROVE IInv'
<1>1. /\ Scanning /\ AtSlash /\ srcIt' = BeforeSlashes /\ dstIt' = dstIt - 1
      /\ dst' = [dst EXCEPT ![dstIt] = Kept(Slash)] /\ depth' = depth + 1
      /\ hasLeadingSlash' = (hasLeadingSlash \/ ~firstEntryWasAccepted)
      /\ firstEntryWasAccepted' = TRUE
      /\ UNCHANGED <<src, skipping, phase, base, filename>>
  BY DEF AcceptSlash
<1>2. Inductive'
  BY InductiveNext DEF IInv, Next
<1>3. /\ src \in Seq(Characters) /\ Len(src) \in Nat
      /\ srcIt \in 1 .. Len(src) /\ dstIt \in srcIt .. Len(src) + 1
      /\ dst \in [1 .. Len(src) + 1 -> Characters \cup {Nul, Junk}]
      /\ depth \in Int /\ skipping \in Nat /\ base = 1 /\ filename \in 0 .. Len(src)
      /\ hasLeadingSlash \in BOOLEAN /\ firstEntryWasAccepted \in BOOLEAN
      /\ Neat(dst, dstIt + 1, Len(src)) /\ Frontier
      /\ dstIt = srcIt => skipping = 0 /\ Whole(dst, dstIt + 1, Len(src))
  BY <1>1, Scan DEF AtSlash
<1>4. BeforeSlashes \in 0 .. srcIt - 1 /\ (BeforeSlashes >= 1 => ~IsSlash(src[BeforeSlashes]))
  BY <1>1, <1>3, Runs
<1>5. Kept(Slash) \in {Slash, Nul} /\ (skipping = 0 <=> Kept(Slash) = Slash)
  BY Kinds DEF Kept
<1>6. TypeOK'
  <2>1. Kept(Slash) \in Characters \cup {Nul, Junk}
    BY <1>5, CharactersAssumption DEF Characters
  <2>2. dst' \in [1 .. Len(src) + 1 -> Characters \cup {Nul, Junk}]
    BY <1>1, <1>3, <2>1
  <2>3. srcIt' \in 0 .. Len(src) /\ dstIt' \in Int /\ depth' \in Int /\ base \in 1 .. Len(src) + 1
    BY <1>1, <1>3, <1>4
  <2> QED
    BY <1>1, <1>3, <2>2, <2>3 DEF TypeOK, Scanning
<1>7. dst'[dstIt] = Kept(Slash) /\ \A i \in dstIt + 1 .. Len(src) + 1 : dst'[i] = dst[i]
  BY <1>1, <1>3
<1>8. Neat(dst', dstIt, Len(src))
  <2>1. CASE dstIt > Len(src)
    BY <1>3, <2>1 DEF Neat
  <2>2. CASE dstIt <= Len(src)
    <3>1. dstIt < Len(src) => dst[dstIt + 1] # Slash
      BY <1>1, <1>3 DEF Frontier
    <3>2. dstIt \in Int /\ Len(src) \in Int /\ \A i \in dstIt + 1 .. Len(src) : dst'[i] = dst[i]
      BY <1>3, <1>7
    <3> QED
      BY <1>3, <1>5, <1>7, <2>2, <3>1, <3>2, NeatSlash
  <2> QED
    BY <1>3, <2>1, <2>2
<1>9. Frontier'
  <2> SUFFICES ASSUME dstIt - 1 < Len(src)
               PROVE  /\ dst'[dstIt] = Slash => skipping = 0 /\ ~AtSlash'
                      /\ InName(dst'[dstIt]) => NoChar(srcIt)'
                      /\ dst'[dstIt] = Nul /\ skipping = 0 => NoChar(srcIt)'
    <3>1. dstIt - 1 + 1 = dstIt
      BY <1>3
    <3> QED
      BY <1>1, <3>1 DEF Frontier
  <2>1. ~AtSlash'
    BY <1>1, <1>4 DEF AtSlash
  <2> QED
    BY <1>5, <1>7, <2>1, Kinds
<1>10. ASSUME dstIt' = srcIt' PROVE skipping = 0 /\ Whole(dst', dstIt, Len(src))
  <2>1. dstIt = srcIt /\ dstIt \in 1 .. Len(src)
    BY <1>1, <1>3, <1>4, <1>10
  <2>2. skipping = 0 /\ Whole(dst, dstIt + 1, Len(src)) /\ Kept(Slash) = Slash
    BY <1>3, <1>5, <2>1
  <2>3. dst'[Len(src) + 1] = Nul
    BY <1>3, <1>7, <2>1, <2>2 DEF Whole
  <2>4. ASSUME NEW i \in dstIt .. Len(src) PROVE dst'[i] # Nul
    <3>1. CASE i = dstIt
      BY <1>7, <2>2, <3>1, Kinds
    <3>2. CASE i # dstIt
      <4>1. i \in dstIt + 1 .. Len(src)
        BY <2>1, <3>2
      <4> QED
        BY <1>3, <1>7, <2>2, <4>1 DEF Whole
    <3> QED
      BY <3>1, <3>2
  <2> QED
    BY <1>1, <2>2, <2>3, <2>4 DEF Whole
<1>11. Scanned'
  <2>1. dstIt - 1 + 1 = dstIt
    BY <1>3
  <2>2. Neat(dst', dstIt' + 1, Len(src)) /\ base' = 1
    BY <1>1, <1>3, <1>8, <2>1
  <2>3. dstIt' = srcIt' => skipping' = 0 /\ Whole(dst', dstIt' + 1, Len(src))
    BY <1>1, <1>10, <2>1
  <2> QED
    BY <1>1, <1>9, <2>2, <2>3 DEF Scanned, Neat, Follows, DotsAt
<1>12. Packing' /\ Packed'
  BY <1>1 DEF Packing, Packed, Scanning
<1> QED
  BY <1>2, <1>6, <1>11, <1>12 DEF IInv

(* Dots drop what was written last.                                        *)
LEMMA Dropped ==
  ASSUME IInv, Scanning, srcIt \in 1 .. Len(src), ~IsSlash(src[srcIt]),
         UNCHANGED <<src, dst, base, phase>>,
         dstIt' = dstIt + 1, srcIt' < dstIt', NoChar(srcIt)'
  PROVE  Scanned'
<1>1. /\ Len(src) \in Nat /\ srcIt \in 1 .. Len(src) /\ dstIt \in srcIt .. Len(src) + 1
      /\ base = 1 /\ Neat(dst, dstIt + 1, Len(src)) /\ Frontier
  BY Scan
<1>2. dstIt < Len(src) => ~InName(dst[dstIt + 1])
  BY <1>1 DEF Frontier, NoChar
<1>3. Neat(dst, dstIt + 1 + 1, Len(src))
  <2>1. dstIt + 1 \in Int /\ Len(src) \in Int /\ (dstIt + 1 <= Len(src) => dstIt < Len(src))
    BY <1>1
  <2> QED
    BY <1>1, <1>2, <2>1, NeatDropped
<1>4. dstIt + 1 < Len(src) => dst[dstIt + 1 + 1] # Slash
  <2> SUFFICES ASSUME dstIt + 1 < Len(src) PROVE dst[dstIt + 1 + 1] # Slash
    OBVIOUS
  <2>1. dstIt + 1 \in dstIt + 1 .. Len(src) /\ dstIt < Len(src)
    BY <1>1
  <2>2. /\ dst[dstIt + 1] \in {Slash, Dot, Nul} \cup Letters
        /\ Follows(dst[dstIt + 1], dst[dstIt + 1 + 1])
    BY <1>1, <2>1 DEF Neat
  <2> QED
    BY <1>2, <2>1, <2>2, Kinds DEF Follows
<1>5. Frontier'
  BY <1>4 DEF Frontier
<1> QED
  BY <1>1, <1>3, <1>5 DEF Scanned

LEMMA AcceptDotEntryInv == ASSUME IInv, AcceptDotEntry PROVE IInv'
<1>1. /\ Scanning /\ ~AtSlash /\ AtDot
      /\ srcIt' = srcIt - 1 /\ dstIt' = dstIt + 1 /\ depth' = depth - 1
      /\ firstEntryWasAccepted' = TRUE
      /\ UNCHANGED <<src, dst, skipping, hasLeadingSlash, phase, base, filename>>
  BY DEF AcceptDotEntry
<1>2. Inductive'
  BY InductiveNext DEF IInv, Next
<1>3. srcIt \in 1 .. Len(src) /\ ~IsSlash(src[srcIt]) /\ NoChar(srcIt - 1)
  BY <1>1, Scan DEF AtDot, AtSlash
<1>4. dstIt \in srcIt .. Len(src) + 1 /\ Len(src) \in Nat
  BY <1>1, Scan
<1>5. TypeOK'
  <2>1. srcIt' \in 0 .. Len(src) /\ dstIt' \in Int
    BY <1>1, <1>3, <1>4
  <2>2. depth' \in Int
    BY <1>1 DEF IInv, TypeOK
  <2> QED
    BY <1>1, <2>1, <2>2 DEF IInv, TypeOK
<1>6. Scanned'
  <2>1. srcIt' < dstIt'
    BY <1>1, <1>3, <1>4
  <2>2. NoChar(srcIt)'
    BY <1>1, <1>3 DEF NoChar
  <2> QED
    BY <1>1, <1>3, <2>1, <2>2, Dropped
<1>7. Packing' /\ Packed'
  BY <1>1 DEF Packing, Packed, Scanning
<1> QED
  BY <1>2, <1>5, <1>6, <1>7 DEF IInv

LEMMA AcceptDotDotEntryInv == ASSUME IInv, AcceptDotDotEntry PROVE IInv'
<1>1. /\ Scanning /\ ~AtSlash /\ AtDotDot
      /\ srcIt' = srcIt - 2 /\ dstIt' = dstIt + 1 /\ depth' = depth - 2
      /\ skipping' = skipping + 1
      /\ firstEntryWasAccepted' = TRUE
      /\ UNCHANGED <<src, dst, hasLeadingSlash, phase, base, filename>>
  BY DEF AcceptDotDotEntry
<1>2. Inductive'
  BY InductiveNext DEF IInv, Next
<1>3. srcIt \in 2 .. Len(src) /\ ~IsSlash(src[srcIt]) /\ NoChar(srcIt - 2)
  <2>1. srcIt > 1 /\ src[srcIt] = Dot /\ NoChar(srcIt - 2)
    BY <1>1 DEF AtDotDot
  <2>2. srcIt \in 0 .. Len(src) /\ Len(src) \in Nat
    BY <1>1, Scan
  <2> QED
    BY <2>1, <2>2, Kinds
<1>4. dstIt \in srcIt .. Len(src) + 1 /\ Len(src) \in Nat
  BY <1>1, Scan
<1>5. TypeOK'
  <2>1. srcIt' \in 0 .. Len(src) /\ dstIt' \in Int
    BY <1>1, <1>3, <1>4
  <2>2. depth' \in Int /\ skipping' \in Nat
    BY <1>1 DEF IInv, TypeOK
  <2> QED
    BY <1>1, <2>1, <2>2 DEF IInv, TypeOK
<1>6. Scanned'
  <2>1. srcIt' < dstIt' /\ srcIt \in 1 .. Len(src)
    BY <1>1, <1>3, <1>4
  <2>2. NoChar(srcIt)'
    BY <1>1, <1>3 DEF NoChar
  <2> QED
    BY <1>1, <1>3, <2>1, <2>2, Dropped
<1>7. Packing' /\ Packed'
  BY <1>1 DEF Packing, Packed, Scanning
<1> QED
  BY <1>2, <1>5, <1>6, <1>7 DEF IInv

LEMMA AcceptCharsInv == ASSUME IInv, AcceptChars PROVE IInv'
<1> DEFINE n == srcIt - BeforeChars
           lo == dstIt - n + 1
<1>1. /\ Scanning /\ AtChar /\ ~AtDot /\ ~AtDotDot
      /\ srcIt' = BeforeChars /\ dstIt' = dstIt - n
      /\ dst' = [i \in DOMAIN dst |->
                   IF i \in lo .. dstIt THEN Kept(src[i - dstIt + srcIt]) ELSE dst[i]]
      /\ skipping' = OneLess(skipping) /\ firstEntryWasAccepted' = TRUE
      /\ UNCHANGED <<src, depth, hasLeadingSlash, phase, base, filename>>
  BY DEF AcceptChars
<1>2. Inductive'
  BY InductiveNext DEF IInv, Next
<1>3. /\ src \in Seq(Characters) /\ Len(src) \in Nat
      /\ srcIt \in 1 .. Len(src) /\ ~IsSlash(src[srcIt]) /\ dstIt \in srcIt .. Len(src)
      /\ dst \in [1 .. Len(src) + 1 -> Characters \cup {Nul, Junk}]
      /\ skipping \in Nat /\ base = 1 /\ filename \in 0 .. Len(src)
      /\ hasLeadingSlash \in BOOLEAN
      /\ Neat(dst, dstIt + 1, Len(src)) /\ Frontier
      /\ dstIt = srcIt => skipping = 0 /\ Whole(dst, dstIt + 1, Len(src))
  <2>1. dstIt \in srcIt .. Len(src) + 1 /\ dstIt # Len(src) + 1
    BY <1>1, Scan DEF AtChar, NoChar
  <2> QED
    BY <1>1, <2>1, Scan DEF AtChar
<1>4. /\ BeforeChars \in 0 .. srcIt - 1 /\ NoChar(BeforeChars)
      /\ \A j \in BeforeChars + 1 .. srcIt : ~IsSlash(src[j])
  BY <1>1, <1>3, Runs
<1>5. /\ n \in 1 .. srcIt /\ lo \in 1 .. dstIt /\ dstIt - n = lo - 1
      /\ BeforeChars = srcIt - n
  BY <1>3, <1>4
<1>6. \A i \in lo .. dstIt : i - dstIt + srcIt \in BeforeChars + 1 .. srcIt
                             /\ i - dstIt + srcIt \in 1 .. Len(src)
  <2> SUFFICES ASSUME NEW i \in lo .. dstIt
               PROVE  /\ i - dstIt + srcIt \in BeforeChars + 1 .. srcIt
                      /\ i - dstIt + srcIt \in 1 .. Len(src)
    OBVIOUS
  <2>1. i \in Int /\ lo <= i /\ i <= dstIt /\ lo = dstIt - n + 1
    BY <1>3, <1>5
  <2> HIDE DEF n, lo
  <2> QED
    BY <1>3, <1>5, <2>1
<1>7. \A i \in lo .. dstIt : src[i - dstIt + srcIt] \in Letters \cup {Dot}
  BY <1>3, <1>4, <1>6, Kinds
<1> HIDE DEF n, lo
<1>8. /\ \A i \in lo .. dstIt : dst'[i] = Kept(src[i - dstIt + srcIt])
      /\ \A i \in dstIt + 1 .. Len(src) + 1 : dst'[i] = dst[i]
  BY <1>1, <1>3, <1>5
<1>9. TypeOK'
  <2>1. \A i \in lo .. dstIt : Kept(src[i - dstIt + srcIt]) \in Characters \cup {Nul, Junk}
    BY <1>7 DEF Kept, Characters
  <2>2. dst' \in [1 .. Len(src) + 1 -> Characters \cup {Nul, Junk}]
    BY <1>1, <1>3, <2>1
  <2>3. srcIt' \in 0 .. Len(src) /\ dstIt' \in Int /\ skipping' \in Nat
    BY <1>1, <1>3, <1>4, <1>5 DEF OneLess
  <2> QED
    BY <1>1, <2>2, <2>3 DEF IInv, TypeOK
<1>10. dstIt < Len(src) => dst[dstIt + 1] # Slash \/ skipping = 0
  BY <1>3 DEF Frontier
<1>11. Neat(dst', lo, Len(src))
  <2>1. /\ lo \in Int /\ dstIt \in Int /\ Len(src) \in Int /\ lo <= dstIt /\ dstIt <= Len(src)
        /\ \A i \in dstIt + 1 .. Len(src) : dst'[i] = dst[i]
    BY <1>3, <1>5, <1>8
  <2>2. CASE skipping = 0
    <3>1. \A i \in lo .. dstIt : dst'[i] = src[i - dstIt + srcIt]
      BY <1>8, <2>2 DEF Kept
    <3>2. \A i \in lo .. dstIt : dst'[i] \in Letters \cup {Dot}
      BY <1>7, <3>1
    <3>3. dstIt < Len(src) => dst[dstIt + 1] = Slash
      <4> SUFFICES ASSUME dstIt < Len(src) PROVE dst[dstIt + 1] = Slash
        OBVIOUS
      <4>1. ~NoChar(srcIt)
        BY <1>3 DEF NoChar
      <4>2. ~InName(dst[dstIt + 1]) /\ dst[dstIt + 1] # Nul
        BY <1>3, <2>2, <4>1 DEF Frontier
      <4>3. dst[dstIt + 1] \in {Slash, Dot, Nul} \cup Letters
        BY <1>3, <2>1 DEF Neat
      <4> QED
        BY <4>2, <4>3, Kinds
    <3>4. ~(lo = dstIt /\ dst'[lo] = Dot)
      <4> SUFFICES ASSUME lo = dstIt, dst'[lo] = Dot PROVE FALSE
        OBVIOUS
      <4>1. lo \in lo .. dstIt /\ lo - dstIt + srcIt = srcIt /\ BeforeChars = srcIt - 1
        BY <1>3, <1>5
      <4>2. src[srcIt] = Dot
        BY <3>1, <4>1
      <4> QED
        BY <1>1, <1>3, <1>4, <4>1, <4>2 DEF AtDot
    <3>5. ~(lo + 1 = dstIt /\ dst'[lo] = Dot /\ dst'[dstIt] = Dot)
      <4> SUFFICES ASSUME lo + 1 = dstIt, dst'[lo] = Dot, dst'[dstIt] = Dot PROVE FALSE
        OBVIOUS
      <4>1. /\ lo \in lo .. dstIt /\ dstIt \in lo .. dstIt
            /\ lo - dstIt + srcIt = srcIt - 1 /\ dstIt - dstIt + srcIt = srcIt
            /\ BeforeChars = srcIt - 2
        BY <1>3, <1>5
      <4>2. src[srcIt] = Dot /\ src[srcIt - 1] = Dot
        BY <3>1, <4>1
      <4>3. srcIt > 1
        BY <1>3, <1>4, <4>1
      <4> QED
        BY <1>1, <1>4, <4>1, <4>2, <4>3 DEF AtDotDot
    <3> HIDE DEF n, lo
    <3> QED
      BY <1>3, <2>1, <3>2, <3>3, <3>4, <3>5, NeatName
  <2>3. CASE skipping # 0
    <3>1. \A i \in lo .. dstIt : dst'[i] = Nul
      BY <1>8, <2>3 DEF Kept
    <3> QED
      BY <1>3, <1>10, <2>1, <2>3, <3>1, NeatGap
  <2> QED
    BY <2>2, <2>3
<1>12. lo \in lo .. dstIt /\ lo - 1 + 1 = lo
  BY <1>3, <1>5
<1>13. Frontier'
  <2>1. NoChar(srcIt)'
    BY <1>1, <1>4 DEF NoChar
  <2>2. dst'[lo] # Slash
    BY <1>7, <1>8, <1>12, Kinds DEF Kept
  <2>3. dstIt' + 1 = lo
    BY <1>1, <1>5, <1>12
  <2> QED
    BY <2>1, <2>2, <2>3 DEF Frontier
<1>14. ASSUME dstIt' = srcIt' PROVE skipping' = 0 /\ Whole(dst', lo, Len(src))
  <2>1. dstIt = srcIt
    BY <1>1, <1>3, <1>5, <1>14
  <2>2. skipping = 0 /\ Whole(dst, dstIt + 1, Len(src))
    BY <1>3, <2>1
  <2>3. dst'[Len(src) + 1] = Nul
    <3>1. Len(src) + 1 \in dstIt + 1 .. Len(src) + 1
      BY <1>3
    <3> QED
      BY <1>8, <2>2, <3>1 DEF Whole
  <2>4. ASSUME NEW i \in lo .. Len(src) PROVE dst'[i] # Nul
    <3>1. CASE i <= dstIt
      <4>1. i \in lo .. dstIt
        BY <1>3, <1>5, <3>1
      <4>2. dst'[i] \in Letters \cup {Dot}
        BY <1>7, <1>8, <2>2, <4>1 DEF Kept
      <4> QED
        BY <4>2, Kinds
    <3>2. CASE i > dstIt
      <4>1. i \in dstIt + 1 .. Len(src) /\ i \in dstIt + 1 .. Len(src) + 1
        BY <1>3, <1>5, <3>2
      <4> QED
        BY <1>8, <2>2, <4>1 DEF Whole
    <3> QED
      BY <1>3, <1>5, <3>1, <3>2
  <2>5. skipping' = 0
    BY <1>1, <2>2 DEF OneLess
  <2> QED
    BY <2>3, <2>4, <2>5 DEF Whole
<1>15. Scanned'
  <2>1. dstIt' + 1 = lo /\ base' = 1 /\ src' = src
    BY <1>1, <1>3, <1>5, <1>12
  <2>2. Neat(dst', dstIt' + 1, Len(src'))
    BY <1>11, <2>1
  <2>3. dstIt' = srcIt' => skipping' = 0 /\ Whole(dst', dstIt' + 1, Len(src'))
    BY <1>14, <2>1
  <2> QED
    BY <1>13, <2>1, <2>2, <2>3 DEF Scanned, Neat, Follows, DotsAt, Whole
<1>16. Packing' /\ Packed'
  BY <1>1 DEF Packing, Packed, Scanning
<1> QED
  BY <1>2, <1>9, <1>15, <1>16 DEF IInv

(* The scan has read all: what it wrote is what is to be packed, or, if    *)
(* nothing was dropped, the result.                                        *)
LEMMA EndOfScanInv == ASSUME IInv, EndOfScan PROVE IInv'
<1>1. /\ Scanning /\ srcIt = 0 /\ dstIt' = dstIt + 1
      /\ depth' = IF hasLeadingSlash THEN depth - 1 ELSE depth
      /\ phase' = IF dstIt = 0 THEN "name" ELSE "pack"
      /\ UNCHANGED <<src, srcIt, dst, skipping, hasLeadingSlash, firstEntryWasAccepted, base, filename>>
  BY DEF EndOfScan
<1>2. Inductive'
  BY InductiveNext DEF IInv, Next
<1>3. /\ Len(src) \in Nat /\ dstIt \in 0 .. Len(src) + 1 /\ base = 1
      /\ Neat(dst, dstIt + 1, Len(src))
      /\ dstIt = srcIt => Whole(dst, dstIt + 1, Len(src))
  BY <1>1, Scan
<1>4. TypeOK'
  <2>1. dstIt' \in Int /\ depth' \in Int /\ phase' \in {"scan", "pack", "name", "done"}
    BY <1>1, <1>3 DEF IInv, TypeOK
  <2> QED
    BY <1>1, <2>1 DEF IInv, TypeOK
<1>5. Scanned'
  BY <1>1 DEF Scanned, Scanning
<1>6. CASE dstIt = 0
  <2>1. dstIt + 1 = 1 /\ dstIt = srcIt
    BY <1>1, <1>6
  <2>2. Neat(dst, 1, Len(src)) /\ Whole(dst, 1, Len(src))
    BY <1>3, <2>1
  <2>3. Result(Len(src))
    BY <2>2 DEF Result, Whole
  <2>4. Result(Len(src))'
    BY <1>1, <2>3 DEF Result, Neat, Follows, DotsAt
  <2>5. Packed'
    BY <1>1, <1>3, <2>4 DEF Packed
  <2>6. Packing'
    BY <1>1, <1>6 DEF Packing
  <2> QED
    BY <1>2, <1>4, <1>5, <2>5, <2>6 DEF IInv
<1>7. CASE dstIt # 0
  <2> DEFINE g == [k \in 1 .. Len(src) - dstIt |-> dst[k + dstIt]]
  <2>1. Merged' = g
    <3>1. base' + Len(src') - dstIt' = Len(src) - dstIt
      BY <1>1, <1>3
    <3>2. \A k \in 1 .. Len(src) - dstIt : ~(k < 1) /\ k - 1 + (dstIt + 1) = k + dstIt
      BY <1>3
    <3> QED
      BY <1>1, <1>3, <3>1, <3>2 DEF Merged
  <2>2. Neat(g, 1, Len(src) - dstIt)
    <3>1. /\ dstIt + 1 = 1 + dstIt /\ Len(src) = (Len(src) - dstIt) + dstIt
          /\ 1 \in Int /\ dstIt \in Int /\ Len(src) - dstIt \in Int
      BY <1>3
    <3>2. \A i \in 1 .. Len(src) - dstIt : g[i] = dst[i + dstIt]
      OBVIOUS
    <3> HIDE DEF g
    <3> QED
      BY <1>3, <3>1, <3>2, NeatMoved
  <2> HIDE DEF g
  <2>3. Packing'
    <3>1. base' < dstIt' /\ base' = 1 /\ base' + Len(src') - dstIt' = Len(src) - dstIt
      BY <1>1, <1>3, <1>7
    <3>2. Neat(Merged', 1, base' + Len(src') - dstIt')
      BY <2>1, <2>2, <3>1
    <3>3. \A i \in 1 .. base' - 1 : dst'[i] # Nul
      BY <3>1
    <3> QED
      BY <3>1, <3>2, <3>3 DEF Packing, Neat, Follows, DotsAt
  <2>4. Packed'
    BY <1>1, <1>7 DEF Packed
  <2> QED
    BY <1>2, <1>4, <1>5, <2>3, <2>4 DEF IInv
<1> QED
  BY <1>6, <1>7

(***************************************************************************)
(* The steps that pack.                                                    *)
(***************************************************************************)
LEMMA PackOneInv == ASSUME IInv, PackOne PROVE IInv'
<1> DEFINE n == base + Len(src) - dstIt
<1>1. /\ phase = "pack" /\ dstIt <= Len(src) /\ dstIt' = dstIt + 1
      /\ UNCHANGED <<src, srcIt, depth, skipping, hasLeadingSlash, firstEntryWasAccepted, phase, filename>>
  BY DEF PackOne
<1>2. Inductive'
  BY InductiveNext DEF IInv, Next
<1>3. /\ Len(src) \in Nat /\ dstIt \in Int /\ base \in 1 .. Len(src) + 1 /\ base < dstIt
      /\ dst \in [1 .. Len(src) + 1 -> Characters \cup {Nul, Junk}]
      /\ Neat(Merged, 1, n) /\ \A i \in 1 .. base - 1 : dst[i] # Nul
  BY <1>1 DEF IInv, TypeOK, Packing
<1>4. /\ n \in Int /\ base \in 1 .. n
      /\ \A k \in 1 .. n : k - base + dstIt \in Int
      /\ \A k \in 1 .. n : Merged[k] = IF k < base THEN dst[k] ELSE dst[k - base + dstIt]
      /\ Merged[base] = dst[dstIt]
  <2>1. n \in Int /\ base \in 1 .. n /\ base - base + dstIt = dstIt
        /\ \A k \in 1 .. n : k - base + dstIt \in Int
    BY <1>1, <1>3
  <2> QED
    BY <1>3, <2>1 DEF Merged
<1>5. Scanned' /\ Packed'
  BY <1>1 DEF Scanned, Scanning, Packed
<1>6. CASE dst[dstIt] = Nul
  <2>1. dst' = dst /\ base' = base
    BY <1>6 DEF PackOne
  <2>2. TypeOK'
    <3>1. dstIt' \in Int
      BY <1>1, <1>3
    <3> QED
      BY <1>1, <2>1, <3>1 DEF IInv, TypeOK
  <2>3. base' + Len(src') - dstIt' = n - 1
    BY <1>1, <1>3, <2>1
  <2>4. \A k \in 1 .. n - 1 : Merged'[k] = IF k < base THEN Merged[k] ELSE Merged[k + 1]
    <3> SUFFICES ASSUME NEW k \in 1 .. n - 1
                 PROVE  Merged'[k] = IF k < base THEN Merged[k] ELSE Merged[k + 1]
      OBVIOUS
    <3>1. Merged'[k] = IF k < base THEN dst[k] ELSE dst[k - base + (dstIt + 1)]
      BY <1>1, <2>1, <2>3 DEF Merged
    <3>2. k \in 1 .. n /\ k + 1 \in 1 .. n /\ k + 1 - base + dstIt = k - base + (dstIt + 1)
          /\ (k >= base => ~(k + 1 < base))
      BY <1>3, <1>4
    <3> HIDE DEF n
    <3> QED
      BY <1>3, <1>4, <3>1, <3>2
  <2>5. Neat(Merged', 1, n - 1)
    <3>1. Merged[base] = Nul /\ \A i \in 1 .. base - 1 : Merged[i] # Nul
      <4>1. \A i \in 1 .. base - 1 : i \in 1 .. n /\ i < base
        BY <1>3, <1>4
      <4> QED
        BY <1>3, <1>4, <1>6, <4>1
    <3> HIDE DEF n
    <3> QED
      BY <1>3, <1>4, <2>4, <3>1, NeatRemoved
  <2>6. Packing'
    <3>1. base' < dstIt' /\ dstIt' <= Len(src') + 1
      BY <1>1, <1>3, <2>1
    <3>2. Neat(Merged', 1, base' + Len(src') - dstIt')
      BY <2>3, <2>5
    <3>3. \A i \in 1 .. base' - 1 : dst'[i] # Nul
      BY <1>3, <2>1
    <3> QED
      BY <3>1, <3>2, <3>3 DEF Packing, Neat, Follows, DotsAt
  <2> QED
    BY <1>2, <1>5, <2>2, <2>6 DEF IInv
<1>7. CASE dst[dstIt] # Nul
  <2>1. dst' = [dst EXCEPT ![base] = dst[dstIt]] /\ base' = base + 1
    BY <1>7 DEF PackOne
  <2>2. dstIt \in 1 .. Len(src) + 1 /\ dst[dstIt] \in Characters \cup {Nul, Junk}
    BY <1>1, <1>3
  <2>3. TypeOK'
    <3>1. dstIt' \in Int /\ base' \in 1 .. Len(src) + 1
      BY <1>1, <1>3, <2>1
    <3>2. dst' \in [1 .. Len(src) + 1 -> Characters \cup {Nul, Junk}]
      BY <1>3, <2>1, <2>2
    <3> QED
      BY <1>1, <3>1, <3>2 DEF IInv, TypeOK
  <2>4. base' + Len(src') - dstIt' = n
    BY <1>1, <1>3, <2>1
  <2>5. dst'[base] = dst[dstIt] /\ \A i \in 1 .. Len(src) + 1 : i # base => dst'[i] = dst[i]
    BY <1>3, <2>1
  <2>6. \A k \in 1 .. n : Merged'[k] = Merged[k]
    <3> SUFFICES ASSUME NEW k \in 1 .. n PROVE Merged'[k] = Merged[k]
      OBVIOUS
    <3>1. Merged'[k] = IF k < base + 1 THEN dst'[k] ELSE dst'[k - (base + 1) + (dstIt + 1)]
      BY <1>1, <2>1, <2>4 DEF Merged
    <3>2. CASE k < base
      <4>1. k \in 1 .. Len(src) + 1 /\ k # base /\ k < base + 1
        BY <1>3, <3>2
      <4> QED
        BY <1>4, <2>5, <3>1, <3>2, <4>1
    <3>3. CASE k = base
      <4>1. k < base + 1
        BY <1>3, <3>3
      <4> QED
        BY <1>4, <2>5, <3>1, <3>3, <4>1
    <3>4. CASE k > base
      <4>1. /\ ~(k < base + 1) /\ ~(k < base) /\ k - (base + 1) + (dstIt + 1) = k - base + dstIt
            /\ k - base + dstIt \in 1 .. Len(src) + 1 /\ k - base + dstIt # base
        BY <1>1, <1>3, <3>4
      <4> HIDE DEF n
      <4> QED
        BY <1>4, <2>5, <3>1, <4>1
    <3> QED
      BY <1>3, <1>4, <3>2, <3>3, <3>4
  <2>7. Neat(Merged', 1, n)
    <3> HIDE DEF n
    <3> QED
      BY <1>3, <1>4, <2>6, NeatSame
  <2>8. Packing'
    <3>1. base' < dstIt' /\ dstIt' <= Len(src') + 1
      BY <1>1, <1>3, <2>1
    <3>2. Neat(Merged', 1, base' + Len(src') - dstIt')
      BY <2>4, <2>7
    <3>3. ASSUME NEW i \in 1 .. base' - 1 PROVE dst'[i] # Nul
      <4>1. i \in 1 .. Len(src) + 1 /\ (i # base => i \in 1 .. base - 1)
        BY <1>3, <2>1
      <4> QED
        BY <1>3, <1>7, <2>5, <4>1
    <3> QED
      BY <3>1, <3>2, <3>3 DEF Packing, Neat, Follows, DotsAt
  <2> QED
    BY <1>2, <1>5, <2>3, <2>8 DEF IInv
<1> QED
  BY <1>6, <1>7

LEMMA EndOfPackInv == ASSUME IInv, EndOfPack PROVE IInv'
<1>1. /\ phase = "pack" /\ dstIt > Len(src) /\ phase' = "name"
      /\ dst' = [dst EXCEPT ![base] = Nul]
      /\ UNCHANGED <<src, srcIt, dstIt, depth, skipping, hasLeadingSlash, firstEntryWasAccepted, base, filename>>
  BY DEF EndOfPack
<1>2. Inductive'
  BY InductiveNext DEF IInv, Next
<1>3. /\ Len(src) \in Nat /\ dstIt \in Int /\ base \in 1 .. Len(src) + 1 /\ base < dstIt
      /\ dst \in [1 .. Len(src) + 1 -> Characters \cup {Nul, Junk}]
      /\ dstIt <= Len(src) + 1 \/ base = 1
      /\ Neat(Merged, 1, base + Len(src) - dstIt)
      /\ \A i \in 1 .. base - 1 : dst[i] # Nul
  BY <1>1 DEF IInv, TypeOK, Packing
<1>4. TypeOK'
  <2>1. dst' \in [1 .. Len(src) + 1 -> Characters \cup {Nul, Junk}]
    BY <1>1, <1>3
  <2> QED
    BY <1>1, <2>1 DEF IInv, TypeOK
<1>5. Scanned' /\ Packing'
  BY <1>1 DEF Scanned, Scanning, Packing
<1>6. dst'[base] = Nul /\ \A i \in 1 .. base - 1 : dst'[i] = dst[i]
  BY <1>1, <1>3
<1>7. Neat(dst', 1, base - 1)
  <2>1. CASE base = 1
    BY <2>1 DEF Neat
  <2>2. CASE base # 1
    <3>1. base + Len(src) - dstIt = base - 1 /\ base - 1 \in Int
      BY <1>1, <1>3, <2>2
    <3>2. \A i \in 1 .. base - 1 : Merged[i] = dst[i]
      BY <1>3, <3>1 DEF Merged
    <3>3. \A i \in 1 .. base - 1 : dst'[i] = Merged[i]
      BY <1>3, <1>6, <3>2
    <3>4. Neat(Merged, 1, base - 1)
      BY <1>3, <3>1
    <3> QED
      BY <3>1, <3>3, <3>4, NeatSame
  <2> QED
    BY <2>1, <2>2
<1>8. Packed'
  <2>1. base - 1 \in 0 .. Len(src) /\ base - 1 + 1 = base
    BY <1>3
  <2>2. Result(base - 1)'
    BY <1>1, <1>3, <1>6, <1>7, <2>1 DEF Result, Neat, Follows, DotsAt
  <2> QED
    BY <1>1, <2>1, <2>2 DEF Packed
<1> QED
  BY <1>2, <1>4, <1>5, <1>8 DEF IInv

(* The search for the name ends before dst at the latest.                  *)
LEMMA RunFound ==
  ASSUME base \in Nat \ {0}, NEW from \in Nat, base - 1 <= from, NEW ofSlashes \in BOOLEAN
  PROVE  LET found == BeforeRun(from, ofSlashes)
         IN  /\ found \in base - 1 .. from
             /\ found = base - 1 \/ IsSlash(dst[found]) # ofSlashes
             /\ \A j \in found + 1 .. from : IsSlash(dst[j]) = ofSlashes
<1> DEFINE T == {i \in base - 1 .. from : i = base - 1 \/ IsSlash(dst[i]) # ofSlashes}
<1>1. PICK i \in T : \A j \in T : j <= i
  <2>1. T \in SUBSET (0 .. from) /\ base - 1 \in T
    OBVIOUS
  <2> HIDE DEF T
  <2> QED
    BY <2>1, Greatest
<1>2. i \in base - 1 .. from /\ (i = base - 1 \/ IsSlash(dst[i]) # ofSlashes)
  OBVIOUS
<1>3. ASSUME NEW j \in i + 1 .. from PROVE IsSlash(dst[j]) = ofSlashes
  <2>1. j \in base - 1 .. from /\ ~(j <= i)
    BY <1>2
  <2>2. j \notin T
    BY <1>1, <2>1
  <2>3. ~(IsSlash(dst[j]) # ofSlashes)
    BY <2>1, <2>2
  <2> HIDE DEF T
  <2> QED
    BY <2>3
<1> HIDE DEF T
<1> QED
  BY <1>2, <1>3 DEF BeforeRun

LEMMA FindFileNameInv == ASSUME IInv, FindFileName PROVE IInv'
<1>1. /\ phase = "name" /\ phase' = "done"
      /\ filename' = BeforeRun(BeforeRun(Len(src), TRUE), FALSE)
      /\ UNCHANGED <<src, srcIt, dst, dstIt, depth, skipping, hasLeadingSlash, firstEntryWasAccepted, base>>
  BY DEF FindFileName, scanVars
<1>2. Inductive'
  BY InductiveNext DEF IInv, Next
<1>3. Len(src) \in Nat /\ base \in 1 .. Len(src) + 1
  BY DEF IInv, TypeOK
<1>4. TypeOK'
  <2>1. BeforeRun(Len(src), TRUE) \in base - 1 .. Len(src)
    <3>1. base \in Nat \ {0} /\ base - 1 <= Len(src)
      BY <1>3
    <3> QED
      BY <1>3, <3>1, RunFound, Zenon
  <2> DEFINE from == BeforeRun(Len(src), TRUE)
  <2>2. from \in Nat /\ base - 1 <= from /\ from <= Len(src) /\ base \in Nat \ {0}
    <3>1. from \in base - 1 .. Len(src)
      BY <2>1
    <3> HIDE DEF from
    <3> QED
      BY <1>3, <3>1
  <2> HIDE DEF from
  <2>3. BeforeRun(from, FALSE) \in base - 1 .. from
    BY <2>2, RunFound, Zenon
  <2>4. BeforeRun(from, FALSE) \in 0 .. Len(src)
    <3> DEFINE found == BeforeRun(from, FALSE)
    <3>1. found \in base - 1 .. from
      BY <2>3
    <3> HIDE DEF found
    <3>2. found \in 0 .. Len(src)
      BY <1>3, <2>2, <3>1
    <3> QED
      BY <3>2 DEF found
  <2>5. filename' \in 0 .. Len(src)
    BY <1>1, <2>4 DEF from
  <2> QED
    BY <1>1, <2>5 DEF IInv, TypeOK
<1>5. Scanned' /\ Packing'
  BY <1>1 DEF Scanned, Scanning, Packing
<1>6. Packed'
  <2>1. PICK n \in 0 .. Len(src) : Result(n)
    BY <1>1 DEF IInv, Packed
  <2>2. Result(n)'
    BY <1>1, <2>1 DEF Result, Neat, Follows, DotsAt
  <2> QED
    BY <1>1, <2>2 DEF Packed
<1> QED
  BY <1>2, <1>4, <1>5, <1>6 DEF IInv

LEMMA StutterInv == ASSUME IInv, UNCHANGED vars PROVE IInv'
<1> USE DEF vars, scanVars
<1>1. TypeOK' /\ Inductive'
  BY InductiveNext DEF IInv, TypeOK
<1>2. Scanned'
  BY DEF IInv, Scanned, Scanning, Frontier, Neat, Follows, DotsAt, Whole, AtSlash, NoChar
<1>3. Packing'
  BY DEF IInv, Packing, Merged, Neat, Follows, DotsAt
<1>4. Packed'
  BY DEF IInv, Packed, Result, Neat, Follows, DotsAt
<1> QED
  BY <1>1, <1>2, <1>3, <1>4 DEF IInv

LEMMA InvNext == IInv /\ [Next]_vars => IInv'
<1> SUFFICES ASSUME IInv, [Next]_vars PROVE IInv'
  OBVIOUS
<1>1. CASE AcceptSlash
  BY <1>1, AcceptSlashInv
<1>2. CASE AcceptDotEntry
  BY <1>2, AcceptDotEntryInv
<1>3. CASE AcceptDotDotEntry
  BY <1>3, AcceptDotDotEntryInv
<1>4. CASE AcceptChars
  BY <1>4, AcceptCharsInv
<1>5. CASE EndOfScan
  BY <1>5, EndOfScanInv
<1>6. CASE PackOne
  BY <1>6, PackOneInv
<1>7. CASE EndOfPack
  BY <1>7, EndOfPackInv
<1>8. CASE FindFileName
  BY <1>8, FindFileNameInv
<1>9. CASE UNCHANGED vars
  BY <1>9, StutterInv
<1> QED
  BY <1>1, <1>2, <1>3, <1>4, <1>5, <1>6, <1>7, <1>8, <1>9 DEF Next

(* The iterators stay in the path and in the buffer they point to, and the *)
(* variables keep their types.                                             *)
THEOREM Typing == Spec => []TypeOK
<1>1. IInv => TypeOK
  BY DEF IInv
<1> QED
  BY <1>1, InvInit, InvNext, PTL DEF Spec

(***************************************************************************)
(* The text that a caller reads.                                           *)
(***************************************************************************)
LEMMA TextIs ==
  ASSUME TypeOK, NEW n \in 0 .. Len(src), Result(n)
  PROVE  /\ Text \in Seq(Characters) /\ Len(Text) = n
         /\ \A i \in 1 .. n : Text[i] = dst[i]
<1>1. /\ Len(src) \in Nat /\ dst \in [1 .. Len(src) + 1 -> Characters \cup {Nul, Junk}]
      /\ DOMAIN dst = 1 .. Len(src) + 1
      /\ dst \in Seq(Characters \cup {Nul, Junk}) /\ Len(dst) = Len(src) + 1
  BY DEF TypeOK
<1>2. /\ \A i \in 1 .. n : dst[i] \in Characters /\ dst[i] # Nul
      /\ dst[n + 1] = Nul /\ n + 1 \in DOMAIN dst
  BY <1>1, CharactersAssumption DEF Result, Neat, Characters
<1> DEFINE zeros == {i \in DOMAIN dst : dst[i] = Nul}
<1>3. n + 1 \in zeros /\ \A i \in zeros : n + 1 <= i
  BY <1>1, <1>2
<1>4. (CHOOSE i \in zeros : \A j \in zeros : i <= j) = n + 1
  <2> DEFINE first == CHOOSE i \in zeros : \A j \in zeros : i <= j
  <2>1. first \in zeros /\ \A j \in zeros : first <= j
    BY <1>3
  <2>2. first <= n + 1 /\ n + 1 <= first /\ first \in Int
    BY <1>1, <1>3, <2>1
  <2> HIDE DEF first, zeros
  <2>3. first = n + 1
    BY <2>2
  <2> QED
    BY <2>3 DEF first
<1>5. Text = SubSeq(dst, 1, n + 1 - 1)
  <2> DEFINE end == IF zeros = {} THEN Len(dst) + 1
                    ELSE CHOOSE i \in zeros : \A j \in zeros : i <= j
  <2>1. Text = SubSeq(dst, 1, end - 1)
    BY DEF Text
  <2>2. zeros # {}
    BY <1>3
  <2>3. end = n + 1
    BY <1>4, <2>2, Zenon
  <2> HIDE DEF end, zeros
  <2> QED
    BY <2>1, <2>3
<1>6. Text = SubSeq(dst, 1, n) /\ n \in Nat
  BY <1>5
<1>7. Text = [i \in 1 .. n |-> dst[i]]
  BY <1>1, <1>6
<1> QED
  BY <1>2, <1>6, <1>7

(* A neat result has no dot entry, and no slash after a slash.             *)
LEMMA TextNormal ==
  ASSUME TypeOK, NEW n \in 0 .. Len(src), Result(n)
  PROVE  IsNormal(Text)
<1> DEFINE s == Text
<1>1. s \in Seq(Characters) /\ Len(s) = n /\ n \in Nat /\ \A i \in 1 .. n : s[i] = dst[i]
  BY TextIs
<1>2. Neat(s, 1, n)
  BY <1>1, NeatSame DEF Result
<1> HIDE DEF s
<1>3. ASSUME NEW i \in DOMAIN s, IsSlash(s[i])
      PROVE  s[i] = Slash /\ (i = 1 \/ ~IsSlash(s[i - 1]))
  <2>1. i \in 1 .. n
    BY <1>1
  <2>2. s[i] = Slash
    <3>1. s[i] \in {Slash, Dot, Nul} \cup Letters
      BY <1>2, <2>1 DEF Neat
    <3> QED
      BY <1>3, <3>1, Kinds
  <2>3. ASSUME i # 1, IsSlash(s[i - 1]) PROVE FALSE
    <3>1. i - 1 \in 1 .. n /\ i - 1 < n /\ i - 1 + 1 = i
      BY <2>1, <2>3
    <3>2. s[i - 1] \in {Slash, Dot, Nul} \cup Letters /\ Follows(s[i - 1], s[i])
      BY <1>2, <3>1 DEF Neat
    <3> QED
      BY <2>2, <2>3, <3>2, Kinds DEF Follows
  <2> QED
    BY <2>2, <2>3
<1>4. ASSUME NEW i \in Starts(s) PROVE Entry(s, i) \notin {DotEntry, DotDotEntry}
  <2>1. i \in 1 .. n /\ ~IsSlash(s[i]) /\ (i = 1 \/ IsSlash(s[i - 1]))
    BY <1>1 DEF Starts
  <2> DEFINE ends == {j \in i .. Len(s) : j = Len(s) \/ IsSlash(s[j + 1])}
             last == CHOOSE j \in ends : \A k \in ends : j <= k
  <2>2. last \in ends
    <3>1. n \in ends
      BY <1>1, <2>1
    <3>2. PICK j \in ends : \A k \in ends : j <= k
      <4>1. ends \subseteq Nat
        BY <1>1, <2>1
      <4> HIDE DEF ends
      <4> QED
        BY <3>1, <4>1, Least
    <3> HIDE DEF ends
    <3> QED
      BY <3>2
  <2>3. last \in i .. n /\ (last = n \/ IsSlash(s[last + 1]))
    BY <1>1, <2>2
  <2>4. Entry(s, i) = SubSeq(s, i, last)
    BY DEF Entry
  <2> HIDE DEF last, ends
  <2>5. /\ Len(Entry(s, i)) = last - i + 1
        /\ \A k \in 1 .. last - i + 1 : Entry(s, i)[k] = s[i + k - 1]
    <3>1. s \in Seq(Characters) /\ i \in 1 .. Len(s) /\ last \in i .. Len(s)
      BY <1>1, <2>1, <2>3
    <3>2. /\ Len(SubSeq(s, i, last)) = last - i + 1
          /\ \A k \in 1 .. last - i + 1 : SubSeq(s, i, last)[k] = s[i + k - 1]
      BY <3>1
    <3> QED
      BY <2>4, <3>2
  <2>6. i = 1 \/ ~InName(s[i - 1])
    BY <2>1 DEF InName
  <2>7. last = n \/ ~InName(s[last + 1])
    BY <2>3 DEF InName
  <2>8. ASSUME Entry(s, i) = DotEntry PROVE FALSE
    <3>1. last = i
      BY <2>1, <2>3, <2>5, <2>8 DEF DotEntry
    <3>2. s[i] = Dot
      BY <2>1, <2>5, <2>8, <3>1 DEF DotEntry
    <3> QED
      BY <1>2, <2>1, <2>6, <2>7, <3>1, <3>2 DEF Neat, DotsAt
  <2>9. ASSUME Entry(s, i) = DotDotEntry PROVE FALSE
    <3>1. last = i + 1 /\ i + 1 \in Int
      BY <2>1, <2>3, <2>5, <2>9 DEF DotDotEntry
    <3>2. s[i] = Dot /\ s[i + 1] = Dot
      BY <2>1, <2>5, <2>9, <3>1 DEF DotDotEntry
    <3>3. i + 1 = n \/ ~InName(s[i + 2])
      BY <2>1, <2>7, <3>1
    <3> QED
      BY <1>2, <2>1, <2>6, <3>2, <3>3 DEF Neat, DotsAt
  <2> QED
    BY <2>8, <2>9
<1> QED
  BY <1>3, <1>4 DEF IsNormal, s

(* Whatever the path, what a caller reads was all written by the scan and  *)
(* is normal: no dots, no repeated slashes                                 *)
(* (FastPathNormalization.cpp:76-148).                                     *)
THEOREM ResultIsNormal == Spec => []AlwaysNormal
<1>1. ASSUME IInv, Done PROVE Text \in Seq(Characters) /\ IsNormal(Text)
  <2>1. PICK n \in 0 .. Len(src) : Result(n)
    BY <1>1 DEF IInv, Packed, Done
  <2> QED
    BY <1>1, <2>1, TextIs, TextNormal DEF IInv
<1>2. IInv => AlwaysNormal
  BY <1>1 DEF AlwaysNormal
<1> QED
  BY <1>2, InvInit, InvNext, PTL DEF Spec
(***************************************************************************)
(* The depth.                                                              *)
(***************************************************************************)
SlashesIn(f, lo, hi) == {k \in lo .. hi : f[k] = Slash}

HowMany(f, lo, hi) == Cardinality(SlashesIn(f, lo, hi))

(* Between two steps the scan stands at the end of an entry or of a run of *)
(* slashes, and knows whether the path ends in a slash.                    *)
AfterSlash == srcIt < Len(src) /\ IsSlash(src[srcIt + 1])

Begun ==
  /\ firstEntryWasAccepted <=> srcIt < Len(src)
  /\ hasLeadingSlash <=> srcIt < Len(src) /\ IsSlash(src[Len(src)])
  /\ Scanning /\ srcIt < Len(src) => IF AfterSlash THEN ~AtSlash ELSE NoChar(srcIt)
  /\ Scanning /\ srcIt = Len(src) => dstIt = Len(src) /\ skipping = 0
  /\ phase = "pack" => srcIt < Len(src)

(* Dots at the end of a path count for one more than what they remove, and *)
(* so does a slash there.                                                  *)
Dots == IF srcIt < Len(src) /\ EndsInDots(src) THEN 1 ELSE 0
Lead == IF hasLeadingSlash THEN 1 ELSE 0

(* The names that are still to be removed: the slash before the next one   *)
(* has been counted although it was not kept.                              *)
ToSkip == IF AfterSlash /\ skipping > 0 THEN skipping - 1 ELSE skipping

(* What is kept from lo on ends in a slash.                                *)
EndSlash(lo) ==
  \A k \in lo .. Len(src) + 1 :
    dst[k] # Nul /\ (\A j \in k + 1 .. Len(src) + 1 : dst[j] = Nul) => dst[k] = Slash

(* The element past the end holds the slash before dots at the end of the  *)
(* path, until the name before it is there.                                *)
PastEnd ==
  phase \in {"scan", "pack"} =>
    /\ dst[Len(src) + 1] \in {Nul, Slash}
    /\ dst[Len(src) + 1] = Slash => srcIt < Len(src) /\ EndsInDots(src)

ScanDepth ==
  Scanning =>
    /\ depth = HowMany(dst, dstIt + 1, Len(src) + 1) - Dots - ToSkip
    /\ srcIt < Len(src) =>
         IF hasLeadingSlash \/ EndsInDots(src) THEN EndSlash(dstIt + 1)
         ELSE dstIt < Len(src) /\ InName(dst[Len(src)]) /\ dst[Len(src) + 1] = Nul
    /\ dst[Len(src) + 1] = Slash /\ dstIt < Len(src) => InName(dst[Len(src)])
    /\ dstIt = Len(src) /\ srcIt < Len(src) =>
         /\ dst[Len(src) + 1] = Slash => skipping = 0 /\ ~AtSlash
         /\ skipping = 0 /\ ~NoChar(srcIt) => dst[Len(src) + 1] = Slash

PackDepth ==
  phase = "pack" =>
    /\ skipping = 0 =>
         depth = HowMany(dst, 1, base - 1) + HowMany(dst, dstIt, Len(src) + 1) - Dots - Lead
    /\ IF hasLeadingSlash \/ EndsInDots(src)
       THEN /\ EndSlash(dstIt)
            /\ (\A k \in dstIt .. Len(src) + 1 : dst[k] = Nul) /\ base > 1 => dst[base - 1] = Slash
       ELSE /\ dst[Len(src) + 1] = Nul /\ dstIt <= Len(src) + 1
            /\ IF dstIt <= Len(src) THEN InName(dst[Len(src)])
               ELSE base > 1 /\ InName(dst[base - 1])
    /\ dst[Len(src) + 1] = Slash /\ dstIt <= Len(src) => InName(dst[Len(src)])
    /\ dst[Len(src) + 1] = Slash /\ dstIt = Len(src) + 1 /\ base > 1 => InName(dst[base - 1])

TextDepth ==
  phase \in {"name", "done"} =>
    \A n \in 1 .. Len(src) : Result(n) /\ skipping = 0 => depth = HowMany(dst, 1, n - 1)

DInv == IInv /\ Begun /\ PastEnd /\ ScanDepth /\ PackDepth /\ TextDepth

LEMMA HowManyType ==
  ASSUME NEW f, NEW lo \in Int, NEW hi \in Int
  PROVE  IsFiniteSet(SlashesIn(f, lo, hi)) /\ HowMany(f, lo, hi) \in Nat
<1>1. IsFiniteSet(lo .. hi)
  BY FS_Interval
<1>2. IsFiniteSet(SlashesIn(f, lo, hi))
  BY <1>1, FS_Subset DEF SlashesIn
<1> QED
  BY <1>2, FS_CardinalityType DEF HowMany

LEMMA HowManyFirst ==
  ASSUME NEW f, NEW lo \in Int, NEW hi \in Int, lo <= hi
  PROVE  HowMany(f, lo, hi) = HowMany(f, lo + 1, hi) + (IF f[lo] = Slash THEN 1 ELSE 0)
<1> DEFINE S == SlashesIn(f, lo + 1, hi)
<1>1. IsFiniteSet(S) /\ Cardinality(S) = HowMany(f, lo + 1, hi) /\ Cardinality(S) \in Nat
  BY HowManyType DEF HowMany
<1>2. lo \notin S
  BY DEF SlashesIn
<1>3. \A k \in Int : k \in lo .. hi <=> k = lo \/ k \in lo + 1 .. hi
  OBVIOUS
<1>4. SlashesIn(f, lo, hi) = IF f[lo] = Slash THEN S \cup {lo} ELSE S
  BY <1>3 DEF SlashesIn
<1> HIDE DEF S
<1> QED
  BY <1>1, <1>2, <1>4, FS_AddElement DEF HowMany

LEMMA HowManyLast ==
  ASSUME NEW f, NEW lo \in Int, NEW hi \in Int, lo <= hi
  PROVE  HowMany(f, lo, hi) = HowMany(f, lo, hi - 1) + (IF f[hi] = Slash THEN 1 ELSE 0)
<1> DEFINE S == SlashesIn(f, lo, hi - 1)
<1>1. IsFiniteSet(S) /\ Cardinality(S) = HowMany(f, lo, hi - 1) /\ Cardinality(S) \in Nat
  BY HowManyType DEF HowMany
<1>2. hi \notin S
  BY DEF SlashesIn
<1>3. \A k \in Int : k \in lo .. hi <=> k = hi \/ k \in lo .. hi - 1
  OBVIOUS
<1>4. SlashesIn(f, lo, hi) = IF f[hi] = Slash THEN S \cup {hi} ELSE S
  BY <1>3 DEF SlashesIn
<1> HIDE DEF S
<1> QED
  BY <1>1, <1>2, <1>4, FS_AddElement DEF HowMany

LEMMA HowManySame ==
  ASSUME NEW f, NEW g, NEW lo \in Int, NEW hi \in Int,
         \A k \in lo .. hi : f[k] = Slash <=> g[k] = Slash
  PROVE  HowMany(f, lo, hi) = HowMany(g, lo, hi)
BY DEF HowMany, SlashesIn

LEMMA HowManyWithout ==
  ASSUME NEW f, NEW lo \in Int, NEW mid \in Int, NEW hi \in Int, lo <= mid + 1,
         \A k \in lo .. mid : f[k] # Slash
  PROVE  HowMany(f, lo, hi) = HowMany(f, mid + 1, hi)
<1>1. \A k \in Int : k \in lo .. hi => k \in lo .. mid \/ k \in mid + 1 .. hi
  OBVIOUS
<1>2. \A k \in Int : k \in mid + 1 .. hi => k \in lo .. hi
  OBVIOUS
<1>3. SlashesIn(f, lo, hi) = SlashesIn(f, mid + 1, hi)
  BY <1>1, <1>2 DEF SlashesIn
<1> QED
  BY <1>3 DEF HowMany

LEMMA NoDotsAfterSlash ==
  ASSUME src \in Seq(Characters), Len(src) >= 1, IsSlash(src[Len(src)])
  PROVE  ~EndsInDots(src)
BY Kinds DEF EndsInDots

(* What a scan that has begun knows, in the forms its steps use.           *)
LEMMA ScanKnows ==
  ASSUME DInv, Scanning
  PROVE  /\ src \in Seq(Characters) /\ Len(src) \in Nat
         /\ srcIt \in 0 .. Len(src) /\ dstIt \in srcIt .. Len(src) + 1
         /\ dst \in [1 .. Len(src) + 1 -> Characters \cup {Nul, Junk}]
         /\ depth \in Int /\ skipping \in Nat /\ base = 1
         /\ hasLeadingSlash \in BOOLEAN
         /\ Dots \in {0, 1} /\ ToSkip \in Nat
         /\ HowMany(dst, dstIt + 1, Len(src) + 1) \in Nat
         /\ depth = HowMany(dst, dstIt + 1, Len(src) + 1) - Dots - ToSkip
         /\ srcIt = Len(src) => dstIt = Len(src) /\ skipping = 0 /\ dst[Len(src) + 1] = Nul
         /\ dst[Len(src) + 1] \in {Nul, Slash}
<1>1. /\ src \in Seq(Characters) /\ Len(src) \in Nat
      /\ srcIt \in 0 .. Len(src) /\ dstIt \in srcIt .. Len(src) + 1
      /\ dst \in [1 .. Len(src) + 1 -> Characters \cup {Nul, Junk}]
      /\ depth \in Int /\ skipping \in Nat /\ base = 1
      /\ hasLeadingSlash \in BOOLEAN
  BY Scan DEF DInv
<1>2. Dots \in {0, 1} /\ ToSkip \in Nat
  BY <1>1 DEF Dots, ToSkip
<1>3. HowMany(dst, dstIt + 1, Len(src) + 1) \in Nat
  BY <1>1, HowManyType
<1>4. depth = HowMany(dst, dstIt + 1, Len(src) + 1) - Dots - ToSkip
  BY DEF DInv, ScanDepth
<1>5. phase \in {"scan", "pack"} /\ dst[Len(src) + 1] \in {Nul, Slash}
  BY DEF DInv, PastEnd, Scanning
<1>6. srcIt = Len(src) => dstIt = Len(src) /\ skipping = 0 /\ dst[Len(src) + 1] = Nul
  BY <1>1, <1>5 DEF DInv, Begun, PastEnd
<1> QED
  BY <1>1, <1>2, <1>3, <1>4, <1>5, <1>6

LEMMA DepthInit == Init => DInv
<1> SUFFICES ASSUME Init PROVE DInv
  OBVIOUS
<1>1. /\ src \in Seq(Characters) /\ Len(src) \in Nat
      /\ srcIt = Len(src) /\ dstIt = Len(src) /\ phase = "scan" /\ base = 1
      /\ depth = 0 /\ skipping = 0 /\ hasLeadingSlash = FALSE /\ firstEntryWasAccepted = FALSE
      /\ dst = [i \in 1 .. Len(src) + 1 |-> IF i <= Len(src) THEN Junk ELSE Nul]
  BY SourcesAssumption DEF Init
<1>2. dst[Len(src) + 1] = Nul
  BY <1>1
<1>3. Begun
  BY <1>1 DEF Begun, Scanning
<1>4. PastEnd
  BY <1>2, Kinds DEF PastEnd
<1>5. ScanDepth
  <2>1. HowMany(dst, dstIt + 1, Len(src) + 1) = HowMany(dst, Len(src) + 2, Len(src) + 1)
    <3>1. \A k \in Len(src) + 1 .. Len(src) + 1 : dst[k] # Slash
      BY <1>1, <1>2, Kinds
    <3>2. Len(src) + 1 \in Int /\ Len(src) + 1 <= Len(src) + 1 + 1 /\ Len(src) + 1 + 1 = Len(src) + 2
      BY <1>1
    <3> QED
      BY <1>1, <3>1, <3>2, HowManyWithout
  <2>2. HowMany(dst, Len(src) + 2, Len(src) + 1) = 0
    <3>1. Len(src) + 2 .. Len(src) + 1 = {}
      BY <1>1
    <3>2. SlashesIn(dst, Len(src) + 2, Len(src) + 1) = {}
      BY <3>1 DEF SlashesIn
    <3> QED
      BY <3>2, FS_EmptySet DEF HowMany
  <2>3. Dots = 0 /\ ToSkip = 0
    BY <1>1 DEF Dots, ToSkip
  <2>4. depth = HowMany(dst, dstIt + 1, Len(src) + 1) - Dots - ToSkip
    BY <1>1, <2>1, <2>2, <2>3
  <2> QED
    BY <1>1, <1>2, <2>4, Kinds DEF ScanDepth
<1>6. PackDepth /\ TextDepth
  BY <1>1 DEF PackDepth, TextDepth
<1> QED
  BY <1>3, <1>4, <1>5, <1>6, InvInit DEF DInv

LEMMA AcceptSlashDepth == ASSUME DInv, AcceptSlash PROVE DInv'
<1> DEFINE end == Len(src) + 1
<1>1. /\ Scanning /\ AtSlash /\ srcIt' = BeforeSlashes /\ dstIt' = dstIt - 1
      /\ dst' = [dst EXCEPT ![dstIt] = Kept(Slash)] /\ depth' = depth + 1
      /\ hasLeadingSlash' = (hasLeadingSlash \/ ~firstEntryWasAccepted)
      /\ firstEntryWasAccepted' = TRUE
      /\ UNCHANGED <<src, skipping, phase, base>>
  BY DEF AcceptSlash
<1>2. IInv' /\ PackDepth' /\ TextDepth'
  BY <1>1, AcceptSlashInv DEF DInv, PackDepth, TextDepth, Scanning
<1>3. /\ src \in Seq(Characters) /\ Len(src) \in Nat
      /\ srcIt \in 1 .. Len(src) /\ dstIt \in srcIt .. Len(src) + 1
      /\ dst \in [1 .. Len(src) + 1 -> Characters \cup {Nul, Junk}]
      /\ depth \in Int /\ skipping \in Nat /\ hasLeadingSlash \in BOOLEAN
      /\ HowMany(dst, dstIt + 1, end) \in Nat /\ Dots \in {0, 1}
      /\ depth = HowMany(dst, dstIt + 1, end) - Dots - ToSkip
      /\ srcIt = Len(src) => dstIt = Len(src) /\ skipping = 0 /\ dst[end] = Nul
      /\ dst[end] \in {Nul, Slash}
  BY <1>1, ScanKnows DEF AtSlash
<1>4. /\ BeforeSlashes \in 0 .. srcIt - 1
      /\ BeforeSlashes >= 1 => ~IsSlash(src[BeforeSlashes])
      /\ \A j \in BeforeSlashes + 1 .. srcIt : IsSlash(src[j])
  BY <1>1, <1>3, Runs
<1>5. srcIt' < Len(src) /\ AfterSlash' /\ ~AtSlash'
  <2>1. BeforeSlashes + 1 \in BeforeSlashes + 1 .. srcIt
    BY <1>3, <1>4
  <2> QED
    BY <1>1, <1>3, <1>4, <2>1 DEF AfterSlash, AtSlash
<1>6. ~AfterSlash
  BY <1>1, <1>3 DEF AfterSlash, DInv, Begun
<1>7. Kept(Slash) \in {Slash, Nul} /\ (skipping = 0 <=> Kept(Slash) = Slash)
  BY Kinds DEF Kept
<1>8. dst'[dstIt] = Kept(Slash) /\ \A i \in 1 .. end : i # dstIt => dst'[i] = dst[i]
  BY <1>1, <1>3
<1>9. srcIt = Len(src) => IsSlash(src[Len(src)]) /\ ~EndsInDots(src)
  BY <1>1, <1>3, NoDotsAfterSlash DEF AtSlash
<1>10. hasLeadingSlash' <=> IsSlash(src[Len(src)])
  <2>1. CASE srcIt = Len(src)
    <3>1. ~firstEntryWasAccepted
      BY <1>3, <2>1 DEF DInv, Begun
    <3> QED
      BY <1>1, <1>9, <2>1, <3>1, Zenon
  <2>2. CASE srcIt # Len(src)
    <3>1. firstEntryWasAccepted /\ (hasLeadingSlash <=> IsSlash(src[Len(src)]))
      BY <1>3, <2>2 DEF DInv, Begun
    <3> QED
      BY <1>1, <3>1, Zenon
  <2> QED
    BY <2>1, <2>2
<1>11. Begun'
  BY <1>1, <1>3, <1>5, <1>10 DEF Begun, Scanning
<1>12. HowMany(dst', dstIt, end) = HowMany(dst, dstIt + 1, end) + (IF skipping = 0 THEN 1 ELSE 0)
  <2>1. dstIt \in Int /\ dstIt + 1 \in Int /\ end \in Int /\ dstIt <= end
    BY <1>3
  <2>2. HowMany(dst', dstIt, end) = HowMany(dst', dstIt + 1, end) + (IF dst'[dstIt] = Slash THEN 1 ELSE 0)
    BY <2>1, HowManyFirst
  <2>3. \A k \in dstIt + 1 .. end : dst'[k] = Slash <=> dst[k] = Slash
    BY <1>3, <1>8
  <2>4. HowMany(dst', dstIt + 1, end) = HowMany(dst, dstIt + 1, end)
    BY <2>1, <2>3, HowManySame
  <2> QED
    BY <1>7, <1>8, <2>2, <2>4
<1>13. depth' = HowMany(dst', dstIt, end) - Dots' - ToSkip'
  <2>1. Dots' = Dots
    BY <1>1, <1>3, <1>5, <1>9 DEF Dots
  <2>2. ToSkip = skipping /\ ToSkip' = IF skipping > 0 THEN skipping - 1 ELSE skipping
    BY <1>1, <1>5, <1>6 DEF ToSkip
  <2> QED
    BY <1>1, <1>3, <1>12, <2>1, <2>2
<1>14. /\ dst'[end] \in {Nul, Slash}
       /\ dst'[end] = Slash => EndsInDots(src)
  <2>1. CASE dstIt = end
    <3>1. Inductive /\ Place
      BY <1>1 DEF DInv, IInv, Inductive
    <3> QED
      BY <1>3, <1>7, <1>8, <2>1, <3>1 DEF Place
  <2>2. CASE dstIt # end
    <3>1. dst'[end] = dst[end]
      BY <1>3, <1>8, <2>2
    <3> QED
      BY <1>1, <1>3, <3>1 DEF DInv, PastEnd, Scanning
  <2> QED
    BY <2>1, <2>2
<1>15. PastEnd'
  BY <1>1, <1>5, <1>14 DEF PastEnd
<1>16. ASSUME hasLeadingSlash' \/ EndsInDots(src) PROVE EndSlash(dstIt + 1)'
  <2> SUFFICES ASSUME NEW k \in dstIt' + 1 .. end, dst'[k] # Nul,
                      \A j \in k + 1 .. end : dst'[j] = Nul
               PROVE  dst'[k] = Slash
    BY <1>1 DEF EndSlash
  <2>1. CASE k = dstIt
    BY <1>7, <1>8, <2>1
  <2>2. CASE k # dstIt
    <3>1. k \in dstIt + 1 .. end
      BY <1>1, <1>3, <2>2
    <3>2. dst'[k] = dst[k] /\ \A j \in k + 1 .. end : dst'[j] = dst[j]
      BY <1>3, <1>8, <3>1
    <3>3. CASE srcIt = Len(src)
      BY <1>3, <3>1, <3>2, <3>3
    <3>4. CASE srcIt # Len(src)
      <4>1. EndSlash(dstIt + 1)
        BY <1>1, <1>3, <1>16, <3>4 DEF DInv, ScanDepth, Begun
      <4> QED
        BY <3>1, <3>2, <4>1 DEF EndSlash
    <3> QED
      BY <3>3, <3>4
  <2> QED
    BY <2>1, <2>2
<1>17. ASSUME ~(hasLeadingSlash' \/ EndsInDots(src))
       PROVE  dstIt' < Len(src) /\ InName(dst'[Len(src)]) /\ dst'[end] = Nul
  <2>1. srcIt < Len(src) /\ ~hasLeadingSlash
    BY <1>1, <1>3, <1>9, <1>10, <1>17
  <2>2. dstIt < Len(src) /\ InName(dst[Len(src)]) /\ dst[end] = Nul
    BY <1>1, <1>17, <2>1 DEF DInv, ScanDepth
  <2> QED
    BY <1>1, <1>3, <1>8, <2>2
<1>18. ASSUME dst'[end] = Slash, dstIt' < Len(src) PROVE InName(dst'[Len(src)])
  <2>1. dstIt \in 1 .. Len(src) /\ dst[end] = Slash
    BY <1>1, <1>3, <1>8, <1>18
  <2>2. dstIt # Len(src)
    BY <1>1, <1>3, <2>1, Kinds DEF DInv, ScanDepth
  <2>3. InName(dst[Len(src)])
    BY <1>1, <1>3, <2>1, <2>2 DEF DInv, ScanDepth
  <2> QED
    BY <1>3, <1>8, <2>1, <2>2, <2>3
<1>19. ASSUME dstIt' = Len(src)
       PROVE  /\ dst'[end] = Slash => skipping = 0 /\ ~AtSlash'
              /\ skipping = 0 => dst'[end] = Slash
  <2>1. dstIt = end
    <3>1. dstIt' = dstIt - 1
      BY <1>1
    <3> QED
      BY <1>3, <1>19, <3>1
  <2> QED
    BY <1>5, <1>7, <1>8, <2>1, Kinds
<1>20. ScanDepth'
  <2>1. dstIt' + 1 = dstIt /\ src' = src
    BY <1>1, <1>3
  <2>2. depth' = HowMany(dst', dstIt' + 1, Len(src') + 1) - Dots' - ToSkip'
    BY <1>13, <2>1
  <2>3. srcIt' < Len(src') =>
          IF hasLeadingSlash' \/ EndsInDots(src') THEN EndSlash(dstIt + 1)'
          ELSE dstIt' < Len(src') /\ InName(dst'[Len(src')]) /\ dst'[Len(src') + 1] = Nul
    BY <1>16, <1>17, <2>1
  <2>4. dst'[Len(src') + 1] = Slash /\ dstIt' < Len(src') => InName(dst'[Len(src')])
    BY <1>18, <2>1
  <2>5. dstIt' = Len(src') =>
          /\ dst'[Len(src') + 1] = Slash => skipping' = 0 /\ ~AtSlash'
          /\ skipping' = 0 => dst'[Len(src') + 1] = Slash
    BY <1>1, <1>19, <2>1
  <2> QED
    BY <2>2, <2>3, <2>4, <2>5 DEF ScanDepth
<1> QED
  BY <1>2, <1>11, <1>15, <1>20 DEF DInv

(* A name or dots before a slash: it was kept unless names are skipped.    *)
LEMMA BehindName ==
  ASSUME DInv, Scanning, srcIt \in 1 .. Len(src) - 1, ~IsSlash(src[srcIt])
  PROVE  /\ AfterSlash /\ dstIt <= Len(src)
         /\ dst[dstIt + 1] = Slash <=> skipping = 0
         /\ dstIt < Len(src) => ~InName(dst[dstIt + 1])
<1>1. Len(src) \in Nat /\ dstIt \in srcIt .. Len(src) + 1 /\ skipping \in Nat
  BY ScanKnows
<1>2. ~NoChar(srcIt)
  BY DEF NoChar
<1>3. IInv
  BY DEF DInv
<1>4. AfterSlash
  BY <1>2 DEF DInv, Begun
<1>5. dstIt <= Len(src)
  BY <1>1, <1>2, <1>3, Scan
<1>6. CASE dstIt < Len(src)
  <2>1. Frontier /\ Neat(dst, dstIt + 1, Len(src))
    BY <1>3, Scan
  <2>2. dstIt + 1 \in dstIt + 1 .. Len(src)
    BY <1>1, <1>6
  <2>3. dst[dstIt + 1] \in {Slash, Dot, Nul} \cup Letters
    BY <2>1, <2>2 DEF Neat
  <2>4. /\ dst[dstIt + 1] = Slash => skipping = 0
        /\ ~InName(dst[dstIt + 1])
        /\ ~(dst[dstIt + 1] = Nul /\ skipping = 0)
    BY <1>2, <1>6, <2>1 DEF Frontier
  <2> QED
    BY <1>4, <1>5, <2>3, <2>4, Kinds
<1>7. CASE dstIt = Len(src)
  BY <1>2, <1>4, <1>5, <1>7 DEF DInv, ScanDepth
<1> QED
  BY <1>1, <1>5, <1>6, <1>7

(* What "." and ".." have in common: a ".." adds one to skip.              *)
LEMMA DotsDepth ==
  ASSUME DInv, Scanning, srcIt \in 1 .. Len(src), ~IsSlash(src[srcIt]),
         srcIt = Len(src) => EndsInDots(src),
         UNCHANGED <<src, dst, base, phase, hasLeadingSlash>>,
         firstEntryWasAccepted' = TRUE,
         srcIt' \in 0 .. srcIt - 1, ~IsSlash(src[srcIt' + 1]), NoChar(srcIt)',
         dstIt' = dstIt + 1,
         skipping' \in Nat, depth' = depth - 1 - (skipping' - skipping),
         IInv'
  PROVE  DInv'
<1> DEFINE end == Len(src) + 1
<1>1. /\ src \in Seq(Characters) /\ Len(src) \in Nat
      /\ srcIt \in 1 .. Len(src) /\ dstIt \in srcIt .. Len(src) + 1
      /\ depth \in Int /\ skipping \in Nat /\ hasLeadingSlash \in BOOLEAN
      /\ HowMany(dst, dstIt + 1, end) \in Nat /\ Dots \in {0, 1}
      /\ depth = HowMany(dst, dstIt + 1, end) - Dots - ToSkip
      /\ srcIt = Len(src) => dstIt = Len(src) /\ skipping = 0 /\ dst[end] = Nul
  BY ScanKnows
<1>2. srcIt' < Len(src) /\ srcIt' < Len(src') /\ ~AfterSlash'
  BY <1>1 DEF AfterSlash
<1>3. PackDepth' /\ TextDepth'
  BY DEF PackDepth, TextDepth, Scanning
<1>4. Begun'
  <2>1. hasLeadingSlash <=> IsSlash(src[Len(src)])
    <3>1. CASE srcIt = Len(src)
      <4>1. ~IsSlash(src[Len(src)]) /\ ~hasLeadingSlash
        BY <3>1 DEF DInv, Begun
      <4> QED
        BY <4>1
    <3>2. CASE srcIt # Len(src)
      <4>1. srcIt < Len(src)
        BY <1>1, <3>2
      <4>2. Begun
        BY DEF DInv
      <4> QED
        BY <4>1, <4>2, Zenon DEF Begun
    <3> QED
      BY <3>1, <3>2
  <2> QED
    BY <1>2, <2>1 DEF Begun, Scanning
<1>5. PastEnd'
  BY <1>1, <1>2 DEF DInv, PastEnd, Scanning
<1>6. ToSkip' = skipping'
  BY <1>2 DEF ToSkip
<1>7. CASE srcIt = Len(src)
  <2>1. dstIt = Len(src) /\ skipping = 0 /\ dst[end] = Nul /\ EndsInDots(src)
    BY <1>1, <1>7
  <2>2. Dots = 0 /\ ToSkip = 0 /\ Dots' = 1
    BY <1>1, <1>2, <1>7, <2>1 DEF Dots, ToSkip
  <2>3. HowMany(dst, end, end) = HowMany(dst, end + 1, end)
    <3>1. end \in Int /\ end <= end /\ dst[end] # Slash
      BY <1>1, <2>1, Kinds
    <3>2. HowMany(dst, end + 1, end) \in Nat
      BY <3>1, HowManyType
    <3> QED
      BY <3>1, <3>2, HowManyFirst
  <2>4. depth' = HowMany(dst, dstIt' + 1, end) - Dots' - ToSkip'
    BY <1>1, <1>6, <2>1, <2>2, <2>3
  <2>5. dstIt' = Len(src) + 1 /\ EndSlash(dstIt + 1)'
    <3>1. dstIt' = Len(src) + 1 /\ dstIt' + 1 .. Len(src) + 1 = {}
      BY <1>1, <2>1
    <3> QED
      BY <3>1 DEF EndSlash
  <2>6. depth' = HowMany(dst', dstIt' + 1, Len(src') + 1) - Dots' - ToSkip'
    BY <2>4
  <2>7. EndsInDots(src') /\ ~(dstIt' < Len(src')) /\ dstIt' # Len(src')
    <3>1. EndsInDots(src')
      BY <2>1, Zenon
    <3>2. Len(src') = Len(src)
      OBVIOUS
    <3>3. Len(src) \in Nat /\ dstIt' = Len(src) + 1
      BY <1>1, <2>5
    <3>4. ~(dstIt' < Len(src')) /\ dstIt' # Len(src')
      BY <3>2, <3>3
    <3> QED
      BY <3>1, <3>4, Zenon
  <2>8. ScanDepth'
    BY <2>5, <2>6, <2>7 DEF ScanDepth
  <2> QED
    BY <1>3, <1>4, <1>5, <2>8 DEF DInv
<1>8. CASE srcIt # Len(src)
  <2>1. /\ srcIt \in 1 .. Len(src) - 1 /\ AfterSlash /\ dstIt \in 1 .. Len(src)
        /\ dst[dstIt + 1] = Slash <=> skipping = 0
        /\ dstIt < Len(src) => ~InName(dst[dstIt + 1])
    <3>1. srcIt \in 1 .. Len(src) - 1
      BY <1>1, <1>8
    <3> QED
      BY <1>1, <3>1, BehindName
  <2>2. Dots' = Dots
    BY <1>2, <2>1 DEF Dots
  <2>3. ToSkip = IF skipping > 0 THEN skipping - 1 ELSE 0
    BY <1>1, <2>1 DEF ToSkip
  <2> DEFINE lo == dstIt + 1
  <2>4. lo \in Int /\ lo + 1 \in Int /\ end \in Int /\ lo <= end
    BY <1>1, <2>1
  <2>5. HowMany(dst, lo, end) = HowMany(dst, lo + 1, end) + (IF skipping = 0 THEN 1 ELSE 0)
    <3> HIDE DEF end
    <3>1. HowMany(dst, lo, end) = HowMany(dst, lo + 1, end) + (IF dst[lo] = Slash THEN 1 ELSE 0)
      BY <2>4, HowManyFirst
    <3> QED
      BY <2>1, <3>1
  <2>6. HowMany(dst, lo + 1, end) \in Nat
    BY <2>4, HowManyType
  <2>7. depth' = HowMany(dst', dstIt' + 1, Len(src') + 1) - Dots' - ToSkip'
    <3>1. dstIt' + 1 = lo + 1 /\ dst' = dst /\ Len(src') + 1 = end
      BY <1>1
    <3>2. depth' = HowMany(dst, lo + 1, end) - Dots - skipping'
      <4>1. depth = HowMany(dst, lo, end) - Dots - ToSkip
        BY <1>1
      <4>2. depth' = depth - 1 - (skipping' - skipping)
        OBVIOUS
      <4>3. Dots \in Int /\ skipping \in Nat /\ skipping' \in Nat
        BY <1>1
      <4> DEFINE a == HowMany(dst, lo, end)
                 b == HowMany(dst, lo + 1, end)
      <4>4. /\ a = b + (IF skipping = 0 THEN 1 ELSE 0) /\ b \in Nat
            /\ depth = a - Dots - ToSkip
        BY <2>5, <2>6, <4>1
      <4> HIDE DEF a, b
      <4>5. depth' = b - Dots - skipping'
        BY <2>3, <4>2, <4>3, <4>4
      <4> QED
        BY <4>5 DEF b
    <3> HIDE DEF lo, end
    <3> QED
      BY <1>6, <2>2, <3>1, <3>2
  <2>8. ASSUME hasLeadingSlash \/ EndsInDots(src) PROVE EndSlash(dstIt + 1)'
    <3>1. EndSlash(dstIt + 1)
      BY <1>1, <1>8, <2>8 DEF DInv, ScanDepth
    <3>2. dstIt' + 1 = lo + 1 /\ \A k \in lo + 1 .. end : k \in lo .. end
      BY <1>1
    <3> QED
      BY <3>1, <3>2 DEF EndSlash
  <2>9. ASSUME ~(hasLeadingSlash \/ EndsInDots(src))
        PROVE  dstIt' < Len(src) /\ InName(dst[Len(src)]) /\ dst[end] = Nul
    <3>1. dstIt < Len(src) /\ InName(dst[Len(src)]) /\ dst[end] = Nul
      BY <1>1, <1>8, <2>9 DEF DInv, ScanDepth
    <3>2. dstIt + 1 # Len(src)
      BY <2>1, <3>1
    <3> QED
      BY <1>1, <3>1, <3>2
  <2>10. ASSUME dst[end] = Slash, dstIt < Len(src)
         PROVE  InName(dst[Len(src)]) /\ dstIt + 1 # Len(src)
    <3>1. InName(dst[Len(src)])
      BY <1>1, <2>10 DEF DInv, ScanDepth
    <3> QED
      BY <2>1, <2>10, <3>1
  <2>11. ScanDepth'
    <3>2. dst'[Len(src') + 1] = Slash /\ dstIt' < Len(src') => InName(dst'[Len(src')])
      BY <1>1, <2>10
    <3>3. dstIt' = Len(src') => dst'[Len(src') + 1] # Slash
      <4>1. dstIt + 1 = Len(src) => dstIt < Len(src)
        BY <1>1
      <4> QED
        BY <2>10, <4>1
    <3>4. srcIt' < Len(src') =>
            IF hasLeadingSlash' \/ EndsInDots(src') THEN EndSlash(dstIt + 1)'
            ELSE dstIt' < Len(src') /\ InName(dst'[Len(src')]) /\ dst'[Len(src') + 1] = Nul
      BY <2>8, <2>9
    <3> QED
      BY <2>7, <3>2, <3>3, <3>4 DEF ScanDepth
  <2> QED
    BY <1>3, <1>4, <1>5, <2>11 DEF DInv
<1> QED
  BY <1>7, <1>8

LEMMA AcceptDotEntryDepth == ASSUME DInv, AcceptDotEntry PROVE DInv'
<1>1. /\ Scanning /\ ~AtSlash /\ AtDot
      /\ srcIt' = srcIt - 1 /\ dstIt' = dstIt + 1 /\ depth' = depth - 1
      /\ firstEntryWasAccepted' = TRUE
      /\ UNCHANGED <<src, dst, base, skipping, hasLeadingSlash, phase>>
  BY DEF AcceptDotEntry
<1>2. /\ src \in Seq(Characters) /\ Len(src) \in Nat /\ srcIt \in 0 .. Len(src)
      /\ depth \in Int /\ skipping \in Nat /\ IInv
  BY <1>1, ScanKnows DEF DInv
<1>3. srcIt \in 1 .. Len(src) /\ src[srcIt] = Dot /\ ~IsSlash(src[srcIt]) /\ NoChar(srcIt - 1)
  BY <1>1, <1>2, Kinds DEF AtDot
<1>4. srcIt = Len(src) => EndsInDots(src)
  BY <1>2, <1>3 DEF NoChar, EndsInDots
<1>5. /\ srcIt' \in 0 .. srcIt - 1 /\ srcIt' + 1 = srcIt
      /\ skipping' \in Nat /\ depth' = depth - 1 - (skipping' - skipping)
  BY <1>1, <1>2, <1>3
<1>6. NoChar(srcIt)' /\ ~IsSlash(src[srcIt' + 1])
  BY <1>1, <1>3, <1>5 DEF NoChar
<1>7. IInv'
  BY <1>2, AcceptDotEntryInv
<1> QED
  BY <1>1, <1>3, <1>4, <1>5, <1>6, <1>7, DotsDepth

LEMMA AcceptDotDotEntryDepth == ASSUME DInv, AcceptDotDotEntry PROVE DInv'
<1>1. /\ Scanning /\ ~AtSlash /\ AtDotDot
      /\ srcIt' = srcIt - 2 /\ dstIt' = dstIt + 1 /\ depth' = depth - 2
      /\ skipping' = skipping + 1 /\ firstEntryWasAccepted' = TRUE
      /\ UNCHANGED <<src, dst, base, hasLeadingSlash, phase>>
  BY DEF AcceptDotDotEntry
<1>2. /\ src \in Seq(Characters) /\ Len(src) \in Nat /\ srcIt \in 0 .. Len(src)
      /\ depth \in Int /\ skipping \in Nat /\ IInv
  BY <1>1, ScanKnows DEF DInv
<1>3. /\ srcIt \in 2 .. Len(src) /\ src[srcIt] = Dot /\ src[srcIt - 1] = Dot
      /\ ~IsSlash(src[srcIt]) /\ ~IsSlash(src[srcIt - 1]) /\ NoChar(srcIt - 2)
  BY <1>1, <1>2, Kinds DEF AtDotDot
<1>4. srcIt = Len(src) => EndsInDots(src)
  BY <1>2, <1>3 DEF NoChar, EndsInDots
<1>5. /\ srcIt \in 1 .. Len(src) /\ srcIt' \in 0 .. srcIt - 1 /\ srcIt' + 1 = srcIt - 1
      /\ skipping' \in Nat /\ depth' = depth - 1 - (skipping' - skipping)
  BY <1>1, <1>2, <1>3
<1>6. NoChar(srcIt)' /\ ~IsSlash(src[srcIt' + 1])
  BY <1>1, <1>3, <1>5 DEF NoChar
<1>7. IInv'
  BY <1>2, AcceptDotDotEntryInv
<1> QED
  BY <1>1, <1>3, <1>4, <1>5, <1>6, <1>7, DotsDepth

LEMMA AcceptCharsDepth == ASSUME DInv, AcceptChars PROVE DInv'
<1> DEFINE end == Len(src) + 1
           n == srcIt - BeforeChars
           lo == dstIt - n + 1
<1>1. /\ Scanning /\ AtChar /\ ~AtDot /\ ~AtDotDot
      /\ srcIt' = BeforeChars /\ dstIt' = dstIt - n
      /\ dst' = [i \in DOMAIN dst |->
                   IF i \in lo .. dstIt THEN Kept(src[i - dstIt + srcIt]) ELSE dst[i]]
      /\ skipping' = OneLess(skipping) /\ firstEntryWasAccepted' = TRUE
      /\ UNCHANGED <<src, depth, hasLeadingSlash, phase, base>>
  BY DEF AcceptChars
<1>2. IInv' /\ PackDepth' /\ TextDepth'
  BY <1>1, AcceptCharsInv DEF DInv, PackDepth, TextDepth, Scanning
<1>3. /\ src \in Seq(Characters) /\ Len(src) \in Nat
      /\ srcIt \in 1 .. Len(src) /\ ~IsSlash(src[srcIt]) /\ dstIt \in srcIt .. Len(src)
      /\ dst \in [1 .. Len(src) + 1 -> Characters \cup {Nul, Junk}]
      /\ depth \in Int /\ skipping \in Nat /\ hasLeadingSlash \in BOOLEAN
      /\ HowMany(dst, dstIt + 1, end) \in Nat /\ Dots \in {0, 1}
      /\ depth = HowMany(dst, dstIt + 1, end) - Dots - ToSkip
      /\ srcIt = Len(src) => dstIt = Len(src) /\ skipping = 0 /\ dst[end] = Nul
  <2>1. dstIt \in srcIt .. Len(src) + 1 /\ dstIt # Len(src) + 1
    BY <1>1, Scan DEF DInv, AtChar, NoChar
  <2> QED
    BY <1>1, <2>1, ScanKnows DEF AtChar
<1>4. /\ BeforeChars \in 0 .. srcIt - 1 /\ NoChar(BeforeChars)
      /\ \A j \in BeforeChars + 1 .. srcIt : ~IsSlash(src[j])
  BY <1>1, <1>3, Runs
<1>5. /\ n \in 1 .. srcIt /\ lo \in 1 .. dstIt /\ dstIt - n = lo - 1
      /\ BeforeChars = srcIt - n
  BY <1>3, <1>4
<1>6. \A i \in lo .. dstIt : i - dstIt + srcIt \in BeforeChars + 1 .. srcIt
                             /\ i - dstIt + srcIt \in 1 .. Len(src)
  <2> SUFFICES ASSUME NEW i \in lo .. dstIt
               PROVE  /\ i - dstIt + srcIt \in BeforeChars + 1 .. srcIt
                      /\ i - dstIt + srcIt \in 1 .. Len(src)
    OBVIOUS
  <2>1. i \in Int /\ lo <= i /\ i <= dstIt /\ lo = dstIt - n + 1
    BY <1>3, <1>5
  <2> HIDE DEF n, lo
  <2> QED
    BY <1>3, <1>5, <2>1
<1>7. \A i \in lo .. dstIt : InName(src[i - dstIt + srcIt])
  <2>1. \A i \in lo .. dstIt : src[i - dstIt + srcIt] \in Letters \cup {Dot}
    BY <1>3, <1>4, <1>6, Kinds
  <2> QED
    BY <2>1, Kinds
<1> HIDE DEF n, lo
<1>8. /\ \A i \in lo .. dstIt : dst'[i] = Kept(src[i - dstIt + srcIt])
      /\ \A i \in dstIt + 1 .. end : dst'[i] = dst[i]
  BY <1>1, <1>3, <1>5
<1>9. /\ \A i \in lo .. dstIt : dst'[i] # Slash
      /\ \A i \in lo .. dstIt : dst'[i] # Nul => skipping = 0 /\ InName(dst'[i])
  BY <1>7, <1>8, Kinds DEF Kept, InName
<1>10. srcIt' < Len(src) /\ srcIt' < Len(src') /\ ~AfterSlash' /\ NoChar(srcIt)'
  <2>1. BeforeChars + 1 \in BeforeChars + 1 .. srcIt
    BY <1>3, <1>4
  <2> QED
    BY <1>1, <1>3, <1>4, <2>1 DEF AfterSlash, NoChar
<1>11. srcIt = Len(src) => ~EndsInDots(src)
  BY <1>1, <1>3 DEF AtDot, AtDotDot, NoChar, EndsInDots
<1>12. Begun'
  <2>1. hasLeadingSlash <=> IsSlash(src[Len(src)])
    BY <1>3 DEF DInv, Begun
  <2> QED
    BY <1>1, <1>10, <2>1 DEF Begun, Scanning
<1>13. dst'[end] = dst[end] /\ (dst[end] = Slash => srcIt < Len(src) /\ EndsInDots(src))
  <2>1. end \in dstIt + 1 .. end
    BY <1>3
  <2> QED
    BY <1>1, <1>8, <2>1 DEF DInv, PastEnd, Scanning
<1>14. PastEnd'
  BY <1>1, <1>10, <1>13 DEF DInv, PastEnd, Scanning
<1>15. srcIt < Len(src) =>
         /\ AfterSlash
         /\ dst[dstIt + 1] = Slash <=> skipping = 0
  BY <1>1, <1>3, BehindName
<1>16. depth' = HowMany(dst', dstIt' + 1, end) - Dots' - ToSkip'
  <2>1. lo = dstIt' + 1 /\ lo \in Int /\ dstIt \in Int /\ end \in Int /\ dstIt + 1 \in Int /\ lo <= dstIt + 1
    BY <1>1, <1>3, <1>5
  <2>2. HowMany(dst', lo, end) = HowMany(dst', dstIt + 1, end)
    BY <1>9, <2>1, HowManyWithout
  <2>3. HowMany(dst', dstIt + 1, end) = HowMany(dst, dstIt + 1, end)
    <3>1. \A k \in dstIt + 1 .. end : dst'[k] = Slash <=> dst[k] = Slash
      BY <1>8
    <3> QED
      BY <2>1, <3>1, HowManySame
  <2>4. Dots' = Dots
    BY <1>1, <1>3, <1>10, <1>11 DEF Dots
  <2>5. ToSkip' = OneLess(skipping)
    BY <1>1, <1>10 DEF ToSkip
  <2>6. ToSkip = OneLess(skipping)
    BY <1>3, <1>15 DEF ToSkip, OneLess
  <2> QED
    BY <1>1, <1>3, <2>1, <2>2, <2>3, <2>4, <2>5, <2>6
<1>17. dstIt' < Len(src) /\ dstIt' + 1 = lo
  BY <1>1, <1>3, <1>5
<1>18. ASSUME hasLeadingSlash \/ EndsInDots(src) PROVE EndSlash(dstIt + 1)'
  <2>1. srcIt < Len(src)
    <3>1. srcIt = Len(src) => ~hasLeadingSlash
      BY <1>3 DEF DInv, Begun
    <3> QED
      BY <1>3, <1>11, <1>18, <3>1
  <2>2. EndSlash(dstIt + 1)
    BY <1>1, <1>18, <2>1 DEF DInv, ScanDepth
  <2> SUFFICES ASSUME NEW k \in lo .. end, dst'[k] # Nul, \A j \in k + 1 .. end : dst'[j] = Nul
               PROVE  dst'[k] = Slash
    BY <1>1, <1>17 DEF EndSlash
  <2>3. CASE k > dstIt
    <3>1. k \in dstIt + 1 .. end /\ \A j \in k + 1 .. end : j \in dstIt + 1 .. end
      BY <1>3, <1>5, <2>3
    <3>2. dst'[k] = dst[k] /\ \A j \in k + 1 .. end : dst[j] = Nul
      BY <1>8, <3>1
    <3> QED
      BY <2>2, <3>1, <3>2 DEF EndSlash
  <2>4. CASE k <= dstIt
    <3>1. k \in lo .. dstIt /\ dstIt + 1 \in k + 1 .. end /\ dstIt + 1 \in dstIt + 1 .. end
      BY <1>3, <1>5, <2>4
    <3>2. dst[dstIt + 1] = Slash
      BY <1>9, <1>15, <2>1, <3>1
    <3> QED
      BY <1>8, <3>1, <3>2, Kinds
  <2> QED
    BY <1>3, <1>5, <2>3, <2>4
<1>19. dstIt = Len(src) /\ skipping = 0 => InName(dst'[Len(src)])
  <2> SUFFICES ASSUME dstIt = Len(src), skipping = 0 PROVE InName(dst'[Len(src)])
    OBVIOUS
  <2>1. Len(src) \in lo .. dstIt
    BY <1>3, <1>5
  <2> QED
    BY <1>7, <1>8, <2>1 DEF Kept
<1>20. dstIt < Len(src) => dst'[Len(src)] = dst[Len(src)]
  BY <1>3, <1>8
<1>21. ASSUME ~(hasLeadingSlash \/ EndsInDots(src))
       PROVE  InName(dst'[Len(src)]) /\ dst'[end] = Nul
  <2>1. CASE srcIt = Len(src)
    BY <1>3, <1>13, <1>19, <2>1
  <2>2. CASE srcIt # Len(src)
    <3>1. dstIt < Len(src) /\ InName(dst[Len(src)]) /\ dst[end] = Nul
      BY <1>1, <1>3, <1>21, <2>2 DEF DInv, ScanDepth
    <3> QED
      BY <1>13, <1>20, <3>1
  <2> QED
    BY <2>1, <2>2
<1>22. ASSUME dst'[end] = Slash PROVE InName(dst'[Len(src)])
  <2>1. dst[end] = Slash /\ srcIt < Len(src)
    BY <1>13, <1>22
  <2>2. CASE dstIt < Len(src)
    <3>1. InName(dst[Len(src)])
      BY <1>1, <2>1, <2>2 DEF DInv, ScanDepth
    <3> QED
      BY <1>20, <2>2, <3>1
  <2>3. CASE dstIt = Len(src)
    BY <1>15, <1>19, <2>1, <2>3
  <2> QED
    BY <1>3, <2>2, <2>3
<1>23. ScanDepth'
  <2>1. dstIt' # Len(src') /\ src' = src
    BY <1>1, <1>3, <1>17
  <2> QED
    BY <1>1, <1>16, <1>17, <1>18, <1>21, <1>22, <2>1 DEF ScanDepth
<1> QED
  BY <1>2, <1>12, <1>14, <1>23 DEF DInv

LEMMA EndOfScanDepth == ASSUME DInv, EndOfScan PROVE DInv'
<1> DEFINE end == Len(src) + 1
<1>1. /\ Scanning /\ srcIt = 0 /\ dstIt' = dstIt + 1
      /\ depth' = IF hasLeadingSlash THEN depth - 1 ELSE depth
      /\ phase' = IF dstIt = 0 THEN "name" ELSE "pack"
      /\ UNCHANGED <<src, srcIt, dst, skipping, hasLeadingSlash, firstEntryWasAccepted, base>>
  BY DEF EndOfScan
<1>2. IInv'
  BY EndOfScanInv DEF DInv
<1>3. /\ src \in Seq(Characters) /\ Len(src) \in Nat /\ dstIt \in 0 .. Len(src) + 1 /\ base = 1
      /\ depth \in Int /\ skipping \in Nat /\ hasLeadingSlash \in BOOLEAN
      /\ HowMany(dst, dstIt + 1, end) \in Nat /\ Dots \in {0, 1}
      /\ depth = HowMany(dst, dstIt + 1, end) - Dots - ToSkip
      /\ srcIt = Len(src) => dstIt = Len(src)
      /\ dst[end] \in {Nul, Slash}
  BY <1>1, ScanKnows
<1>4. Len(src) > 0 =>
        /\ ~(hasLeadingSlash /\ EndsInDots(src))
        /\ Dots' = Dots /\ (Dots = 1 <=> EndsInDots(src))
        /\ Lead' = Lead /\ (Lead = 1 <=> hasLeadingSlash) /\ Lead \in {0, 1}
  <2> SUFFICES ASSUME Len(src) > 0
               PROVE  /\ ~(hasLeadingSlash /\ EndsInDots(src))
                      /\ Dots' = Dots /\ (Dots = 1 <=> EndsInDots(src))
                      /\ Lead' = Lead /\ (Lead = 1 <=> hasLeadingSlash) /\ Lead \in {0, 1}
    OBVIOUS
  <2>1. hasLeadingSlash => IsSlash(src[Len(src)])
    BY DEF DInv, Begun
  <2>2. ~(hasLeadingSlash /\ EndsInDots(src))
    BY <1>3, <2>1, NoDotsAfterSlash
  <2>3. Dots' = Dots /\ (Dots = 1 <=> EndsInDots(src))
    BY <1>1, <1>3 DEF Dots
  <2>4. Lead' = Lead /\ (Lead = 1 <=> hasLeadingSlash) /\ Lead \in {0, 1}
    BY <1>1 DEF Lead
  <2> QED
    BY <2>2, <2>3, <2>4
<1>5. depth' = depth - Lead /\ (skipping = 0 => ToSkip = 0)
  BY <1>1, <1>3 DEF Lead, ToSkip
<1>6. ScanDepth'
  BY <1>1 DEF ScanDepth, Scanning
<1>7. Begun'
  <2>1. dstIt # 0 => srcIt < Len(src)
    BY <1>1, <1>3
  <2> QED
    BY <1>1, <2>1 DEF DInv, Begun, Scanning
<1>8. PastEnd'
  BY <1>1 DEF DInv, PastEnd, Scanning
<1>9. CASE dstIt = 0
  <2>1. PackDepth'
    BY <1>1, <1>9 DEF PackDepth
  <2>2. skipping = 0 /\ Whole(dst, 1, Len(src))
    <3>1. dstIt = srcIt /\ dstIt + 1 = 1
      BY <1>1, <1>9
    <3> QED
      BY <1>1, <3>1, Scan DEF DInv
  <2>3. ASSUME NEW n \in 1 .. Len(src), Result(n)' PROVE depth' = HowMany(dst, 1, n - 1)
    <3>1. dst[n + 1] = Nul
      BY <1>1, <2>3 DEF Result
    <3>2. n = Len(src)
      <4>1. n # Len(src) => n + 1 \in 1 .. Len(src)
        BY <1>3
      <4> QED
        BY <2>2, <3>1, <4>1 DEF Whole
    <3>3. /\ HowMany(dst, 1, end) = HowMany(dst, 1, n) /\ HowMany(dst, 1, n) \in Nat
          /\ HowMany(dst, 1, n) = HowMany(dst, 1, n - 1) + (IF dst[n] = Slash THEN 1 ELSE 0)
          /\ HowMany(dst, 1, n - 1) \in Nat
      <4>1. end \in Int /\ n \in Int /\ n - 1 \in Int /\ 1 <= end /\ 1 <= n /\ end - 1 = n
            /\ dst[end] # Slash
        BY <1>3, <3>1, <3>2, Kinds
      <4>2. HowMany(dst, 1, end) = HowMany(dst, 1, end - 1) + (IF dst[end] = Slash THEN 1 ELSE 0)
        BY <4>1, HowManyLast
      <4>3. HowMany(dst, 1, n) = HowMany(dst, 1, n - 1) + (IF dst[n] = Slash THEN 1 ELSE 0)
        BY <4>1, HowManyLast
      <4>4. HowMany(dst, 1, n) \in Nat /\ HowMany(dst, 1, n - 1) \in Nat
        BY <4>1, HowManyType
      <4> HIDE DEF end
      <4> QED
        BY <4>1, <4>2, <4>3, <4>4
    <3>4. depth = HowMany(dst, 1, end) - Dots
      <4>1. dstIt + 1 = 1 /\ ToSkip = 0
        BY <1>5, <1>9, <2>2
      <4> QED
        BY <1>3, <4>1
    <3>5. dst[n] # Nul /\ dst[end] = Nul
      BY <2>2, <3>2 DEF Whole
    <3>6. srcIt < Len(src) /\ Len(src) > 0
      BY <1>1, <3>2
    <3>7. IF hasLeadingSlash \/ EndsInDots(src) THEN dst[n] = Slash ELSE dst[n] # Slash
      <4>1. CASE hasLeadingSlash \/ EndsInDots(src)
        <5>1. EndSlash(1)
          BY <1>1, <1>9, <3>6, <4>1 DEF DInv, ScanDepth
        <5>2. n \in 1 .. end /\ \A j \in n + 1 .. end : j = end
          BY <1>3, <3>2
        <5> QED
          BY <3>5, <4>1, <5>1, <5>2 DEF EndSlash
      <4>2. CASE ~(hasLeadingSlash \/ EndsInDots(src))
        BY <1>1, <3>2, <3>6, <4>2, Kinds DEF DInv, ScanDepth
      <4> QED
        BY <4>1, <4>2
    <3>8. Dots + Lead = IF dst[n] = Slash THEN 1 ELSE 0
      BY <1>3, <1>4, <3>6, <3>7
    <3> DEFINE a == HowMany(dst, 1, n - 1)
               last == IF dst[n] = Slash THEN 1 ELSE 0
    <3>9. depth' = (a + last) - Dots - Lead /\ Dots + Lead = last
      BY <1>5, <3>3, <3>4, <3>8
    <3>10. a \in Nat /\ last \in Nat /\ Dots \in Int /\ Lead \in Int
      BY <1>3, <1>4, <3>3, <3>6
    <3> HIDE DEF a, last
    <3>11. depth' = a
      BY <3>9, <3>10
    <3> QED
      BY <3>11 DEF a
  <2>4. TextDepth'
    BY <1>1, <2>3 DEF TextDepth, HowMany, SlashesIn
  <2> QED
    BY <1>2, <1>6, <1>7, <1>8, <2>1, <2>4 DEF DInv
<1>10. CASE dstIt # 0
  <2>1. TextDepth'
    BY <1>1, <1>10 DEF TextDepth
  <2>2. srcIt < Len(src) /\ Len(src) > 0
    BY <1>1, <1>3, <1>10
  <2>3. ASSUME skipping = 0
        PROVE  depth' = HowMany(dst, 1, 0) + HowMany(dst, dstIt + 1, end) - Dots - Lead
    <3>1. HowMany(dst, 1, 0) = 0
      <4>1. SlashesIn(dst, 1, 0) = {}
        BY DEF SlashesIn
      <4> QED
        BY <4>1, FS_EmptySet DEF HowMany
    <3> QED
      BY <1>3, <1>4, <1>5, <2>2, <2>3, <3>1
  <2>4. IF hasLeadingSlash \/ EndsInDots(src) THEN EndSlash(dstIt + 1)
        ELSE dstIt + 1 <= Len(src) /\ InName(dst[Len(src)]) /\ dst[end] = Nul
    BY <1>1, <1>3, <2>2 DEF DInv, ScanDepth
  <2>5. dst[end] = Slash /\ dstIt + 1 <= Len(src) => InName(dst[Len(src)])
    BY <1>1, <1>3 DEF DInv, ScanDepth
  <2>6. PackDepth'
    <3>1. /\ phase' = "pack" /\ base' = 1 /\ base' - 1 = 0 /\ ~(base' > 1)
          /\ Dots' = Dots /\ Lead' = Lead
      BY <1>1, <1>3, <1>4, <1>10, <2>2
    <3>2. skipping' = 0 =>
            depth' = HowMany(dst', 1, base' - 1) + HowMany(dst', dstIt', Len(src') + 1) - Dots' - Lead'
      BY <1>1, <2>3, <3>1
    <3>3. hasLeadingSlash \/ EndsInDots(src) => EndSlash(dstIt)'
      BY <1>1, <2>4 DEF EndSlash
    <3>4. ~(hasLeadingSlash \/ EndsInDots(src)) =>
            dst'[end] = Nul /\ dstIt' <= Len(src) + 1 /\ dstIt' <= Len(src) /\ InName(dst'[Len(src)])
      BY <1>1, <1>3, <2>4
    <3> QED
      BY <1>1, <2>5, <3>1, <3>2, <3>3, <3>4 DEF PackDepth
  <2> QED
    BY <1>2, <1>6, <1>7, <1>8, <2>1, <2>6 DEF DInv
<1> QED
  BY <1>9, <1>10

LEMMA PackOneDepth == ASSUME DInv, PackOne PROVE DInv'
<1> DEFINE end == Len(src) + 1
<1>1. /\ phase = "pack" /\ dstIt <= Len(src) /\ dstIt' = dstIt + 1
      /\ UNCHANGED <<src, srcIt, depth, skipping, hasLeadingSlash, firstEntryWasAccepted, phase>>
  BY DEF PackOne
<1>2. IInv'
  BY PackOneInv DEF DInv
<1>3. /\ Len(src) \in Nat /\ dstIt \in Int /\ base \in 1 .. Len(src) /\ base < dstIt
      /\ dst \in [1 .. Len(src) + 1 -> Characters \cup {Nul, Junk}]
      /\ depth \in Int /\ hasLeadingSlash \in BOOLEAN
  BY <1>1 DEF DInv, IInv, TypeOK, Packing
<1>4. /\ dstIt \in 1 .. Len(src) /\ dstIt + 1 \in Int /\ base - 1 \in Int
      /\ end \in Int /\ dstIt <= end /\ base + 1 - 1 = base
  BY <1>1, <1>3
<1>5. Dots' = Dots /\ Lead' = Lead
  BY <1>1 DEF Dots, Lead
<1>6. Begun' /\ ScanDepth' /\ TextDepth'
  BY <1>1 DEF DInv, Begun, ScanDepth, TextDepth, Scanning
<1>7. HowMany(dst, dstIt, end) = HowMany(dst, dstIt + 1, end) + (IF dst[dstIt] = Slash THEN 1 ELSE 0)
  BY <1>4, HowManyFirst
<1>8. HowMany(dst, dstIt + 1, end) \in Nat /\ HowMany(dst, 1, base - 1) \in Nat
  BY <1>4, HowManyType
<1>9. dst[end] = Slash => InName(dst[Len(src)])
  BY <1>1 DEF DInv, PackDepth
<1>10. ~(hasLeadingSlash \/ EndsInDots(src)) => dst[end] = Nul /\ InName(dst[Len(src)])
  BY <1>1 DEF DInv, PackDepth
<1>11. hasLeadingSlash \/ EndsInDots(src) =>
         /\ EndSlash(dstIt)
         /\ (\A k \in dstIt .. end : dst[k] = Nul) /\ base > 1 => dst[base - 1] = Slash
  BY <1>1 DEF DInv, PackDepth
<1>12. skipping = 0 => depth = HowMany(dst, 1, base - 1) + HowMany(dst, dstIt, end) - Dots - Lead
  BY <1>1 DEF DInv, PackDepth
<1>13. dst' \in [1 .. end -> Characters \cup {Nul, Junk}] /\ \A k \in dstIt .. end : dst'[k] = dst[k]
  BY <1>3, <1>4 DEF PackOne
<1>14. PastEnd'
  <2>1. end \in dstIt .. end
    BY <1>4
  <2> QED
    BY <1>1, <1>13, <2>1 DEF DInv, PastEnd
<1>15. hasLeadingSlash \/ EndsInDots(src) => EndSlash(dstIt)'
  <2> SUFFICES ASSUME hasLeadingSlash \/ EndsInDots(src),
                      NEW k \in dstIt + 1 .. end, dst'[k] # Nul,
                      \A j \in k + 1 .. end : dst'[j] = Nul
               PROVE  dst'[k] = Slash
    BY <1>1 DEF EndSlash
  <2>1. k \in dstIt .. end /\ \A j \in k + 1 .. end : j \in dstIt .. end
    BY <1>4
  <2> QED
    BY <1>11, <1>13, <2>1 DEF EndSlash
<1>16. CASE dst[dstIt] = Nul
  <2>1. dst' = dst /\ base' = base
    BY <1>16 DEF PackOne
  <2>2. skipping' = 0 =>
          depth' = HowMany(dst', 1, base' - 1) + HowMany(dst', dstIt', Len(src') + 1) - Dots' - Lead'
    BY <1>1, <1>5, <1>7, <1>8, <1>12, <1>16, <2>1, Kinds
  <2>3. ~InName(dst[dstIt])
    BY <1>16, Kinds
  <2>4. hasLeadingSlash \/ EndsInDots(src) =>
          ((\A k \in dstIt' .. end : dst'[k] = Nul) /\ base' > 1 => dst'[base' - 1] = Slash)
    <3> SUFFICES ASSUME hasLeadingSlash \/ EndsInDots(src),
                        \A k \in dstIt + 1 .. end : dst[k] = Nul, base > 1
                 PROVE  dst[base - 1] = Slash
      BY <1>1, <2>1
    <3>1. ASSUME NEW k \in dstIt .. end PROVE dst[k] = Nul
      <4>1. k = dstIt \/ k \in dstIt + 1 .. end
        BY <1>4
      <4> QED
        BY <1>16, <4>1
    <3> QED
      BY <1>11, <3>1
  <2>5. ~(hasLeadingSlash \/ EndsInDots(src)) =>
          dst'[end] = Nul /\ dstIt' <= Len(src) /\ InName(dst'[Len(src)])
    <3>1. InName(dst[Len(src)]) => dstIt # Len(src)
      BY <2>3
    <3> QED
      BY <1>1, <1>4, <1>10, <2>1, <3>1
  <2>6. dst'[end] = Slash => InName(dst'[Len(src)]) /\ dstIt' # Len(src) + 1
    <3>1. InName(dst[Len(src)]) => dstIt # Len(src)
      BY <2>3
    <3> QED
      BY <1>1, <1>4, <1>9, <2>1, <3>1
  <2>7. PackDepth'
    <3>1. dstIt' <= Len(src) + 1
      BY <1>1, <1>4
    <3> QED
      BY <1>1, <1>15, <2>2, <2>4, <2>5, <2>6, <3>1 DEF PackDepth
  <2> QED
    BY <1>2, <1>6, <1>14, <2>7 DEF DInv
<1>17. CASE dst[dstIt] # Nul
  <2>1. dst' = [dst EXCEPT ![base] = dst[dstIt]] /\ base' = base + 1 /\ base' - 1 = base /\ base' > 1
    <3>1. dst' = [dst EXCEPT ![base] = dst[dstIt]] /\ base' = base + 1
      BY <1>17 DEF PackOne
    <3> QED
      BY <1>3, <3>1
  <2>2. dst'[base] = dst[dstIt] /\ \A k \in 1 .. base - 1 : dst'[k] = dst[k]
    BY <1>3, <2>1
  <2>3. HowMany(dst', 1, base) = HowMany(dst, 1, base - 1) + (IF dst[dstIt] = Slash THEN 1 ELSE 0)
    <3>1. base \in Int /\ 1 <= base
      BY <1>3
    <3>2. HowMany(dst', 1, base) = HowMany(dst', 1, base - 1) + (IF dst'[base] = Slash THEN 1 ELSE 0)
      BY <3>1, HowManyLast
    <3>3. HowMany(dst', 1, base - 1) = HowMany(dst, 1, base - 1)
      BY <1>4, <2>2, HowManySame
    <3> QED
      BY <2>2, <3>2, <3>3
  <2>4. HowMany(dst', dstIt + 1, end) = HowMany(dst, dstIt + 1, end)
    <3>1. \A k \in dstIt + 1 .. end : dst'[k] = Slash <=> dst[k] = Slash
      <4>1. \A k \in dstIt + 1 .. end : k \in dstIt .. end
        BY <1>4
      <4> QED
        BY <1>13, <4>1
    <3> QED
      BY <1>4, <3>1, HowManySame
  <2>5. skipping' = 0 =>
          depth' = HowMany(dst', 1, base' - 1) + HowMany(dst', dstIt', Len(src') + 1) - Dots' - Lead'
    <3> DEFINE a == HowMany(dst, 1, base - 1)
               b == HowMany(dst, dstIt + 1, end)
               here == IF dst[dstIt] = Slash THEN 1 ELSE 0
    <3>1. /\ HowMany(dst', 1, base' - 1) = a + here
          /\ HowMany(dst', dstIt', Len(src') + 1) = b
      BY <1>1, <2>1, <2>3, <2>4
    <3>2. skipping = 0 => depth = a + (b + here) - Dots - Lead
      BY <1>7, <1>12
    <3>3. a \in Nat /\ b \in Nat /\ here \in Nat /\ Dots \in Int /\ Lead \in Int
      BY <1>8 DEF Dots, Lead
    <3> HIDE DEF a, b, here
    <3> QED
      BY <1>1, <1>5, <3>1, <3>2, <3>3
  <2>6. dst'[end] = dst[end] /\ dst'[Len(src)] = dst[Len(src)]
    BY <1>4, <1>13
  <2>7. ASSUME hasLeadingSlash \/ EndsInDots(src), \A k \in dstIt + 1 .. end : dst'[k] = Nul
        PROVE  dst'[base] = Slash
    <3>1. dstIt \in dstIt .. end /\ \A k \in dstIt + 1 .. end : dst[k] = Nul
      <4>1. \A k \in dstIt + 1 .. end : k \in dstIt .. end
        BY <1>4
      <4> QED
        BY <1>4, <1>13, <2>7, <4>1
    <3> QED
      BY <1>11, <1>17, <2>2, <2>7, <3>1 DEF EndSlash
  <2>8. dstIt' <= Len(src) + 1 /\ (dstIt' <= Len(src) \/ dstIt = Len(src))
    BY <1>1, <1>4
  <2>9. PackDepth'
    <3>1. hasLeadingSlash \/ EndsInDots(src) =>
            ((\A k \in dstIt' .. end : dst'[k] = Nul) /\ base' > 1 => dst'[base' - 1] = Slash)
      BY <1>1, <2>1, <2>7
    <3>2. InName(dst[Len(src)]) => InName(dst'[Len(src)]) /\ (dstIt' > Len(src) => InName(dst'[base' - 1]))
      BY <1>1, <1>4, <2>1, <2>2, <2>6, <2>8
    <3>3. dstIt' = Len(src) + 1 => dstIt' > Len(src)
      BY <1>4
    <3>4. dst'[end] = Slash =>
            InName(dst'[Len(src)]) /\ (dstIt' = Len(src) + 1 => InName(dst'[base' - 1]))
      BY <1>9, <2>6, <3>2, <3>3
    <3>5. ~(hasLeadingSlash \/ EndsInDots(src)) =>
            /\ dst'[end] = Nul /\ dstIt' <= Len(src) + 1
            /\ IF dstIt' <= Len(src) THEN InName(dst'[Len(src)])
               ELSE base' > 1 /\ InName(dst'[base' - 1])
      BY <1>1, <1>4, <1>10, <2>1, <2>6, <2>8, <3>2
    <3> QED
      BY <1>1, <1>15, <2>5, <3>1, <3>4, <3>5 DEF PackDepth
  <2> QED
    BY <1>2, <1>6, <1>14, <2>9 DEF DInv
<1> QED
  BY <1>16, <1>17

LEMMA EndOfPackDepth == ASSUME DInv, EndOfPack PROVE DInv'
<1> DEFINE end == Len(src) + 1
<1>1. /\ phase = "pack" /\ dstIt > Len(src) /\ phase' = "name"
      /\ dst' = [dst EXCEPT ![base] = Nul]
      /\ UNCHANGED <<src, srcIt, dstIt, depth, skipping, hasLeadingSlash, firstEntryWasAccepted, base>>
  BY DEF EndOfPack
<1>2. IInv'
  BY EndOfPackInv DEF DInv
<1>3. /\ src \in Seq(Characters) /\ Len(src) \in Nat /\ dstIt \in Int
      /\ base \in 1 .. Len(src) + 1 /\ base < dstIt
      /\ dst \in [1 .. Len(src) + 1 -> Characters \cup {Nul, Junk}]
      /\ dstIt <= Len(src) + 1 \/ base = 1
      /\ \A i \in 1 .. base - 1 : dst[i] # Nul
      /\ depth \in Int /\ hasLeadingSlash \in BOOLEAN
  BY <1>1 DEF DInv, IInv, TypeOK, Packing
<1>4. dst'[base] = Nul /\ \A i \in 1 .. base - 1 : dst'[i] = dst[i]
  BY <1>1, <1>3
<1>5. ASSUME NEW n \in 1 .. Len(src), Result(n)', skipping = 0
      PROVE  depth = HowMany(dst', 1, n - 1)
  <2>1. (\A i \in 1 .. n : dst'[i] # Nul) /\ dst'[n + 1] = Nul
    BY <1>5 DEF Result
  <2>2. n = base - 1
    <3>1. ~(base \in 1 .. n)
      BY <1>4, <2>1
    <3>2. ~(n + 1 \in 1 .. base - 1)
      BY <1>3, <1>4, <2>1
    <3> QED
      BY <1>3, <3>1, <3>2
  <2>3. base > 1 /\ dstIt = end /\ srcIt < Len(src)
    <3>1. base > 1
      BY <1>3, <2>2
    <3> QED
      BY <1>1, <1>3, <3>1 DEF DInv, Begun
  <2>4. depth = HowMany(dst, 1, n) + HowMany(dst, end, end) - Dots - Lead
    <3>1. dstIt = end /\ base - 1 = n
      BY <2>2, <2>3
    <3>2. depth = HowMany(dst, 1, base - 1) + HowMany(dst, dstIt, end) - Dots - Lead
      BY <1>1, <1>5 DEF DInv, PackDepth
    <3> HIDE DEF end
    <3> QED
      BY <3>1, <3>2
  <2>5. /\ HowMany(dst, 1, n) = HowMany(dst, 1, n - 1) + (IF dst[n] = Slash THEN 1 ELSE 0)
        /\ HowMany(dst, 1, n - 1) \in Nat
    <3>1. n \in Int /\ n - 1 \in Int /\ 1 <= n
      BY <1>3
    <3> QED
      BY <3>1, HowManyLast, HowManyType
  <2>6. HowMany(dst, end, end) = IF dst[end] = Slash THEN 1 ELSE 0
    <3>1. end \in Int /\ end <= end /\ end + 1 \in Int /\ end + 1 .. end = {}
      BY <1>3
    <3>2. HowMany(dst, end, end) = HowMany(dst, end + 1, end) + (IF dst[end] = Slash THEN 1 ELSE 0)
      BY <3>1, HowManyFirst
    <3>3. SlashesIn(dst, end + 1, end) = {}
      BY <3>1 DEF SlashesIn
    <3>4. HowMany(dst, end + 1, end) = 0
      BY <3>3, FS_EmptySet DEF HowMany
    <3> QED
      BY <3>2, <3>4
  <2>7. HowMany(dst', 1, n - 1) = HowMany(dst, 1, n - 1)
    <3>1. \A k \in 1 .. n - 1 : k \in 1 .. base - 1
      BY <1>3, <2>2
    <3>2. \A k \in 1 .. n - 1 : dst'[k] = Slash <=> dst[k] = Slash
      BY <1>4, <3>1
    <3>3. n - 1 \in Int
      BY <1>3
    <3> QED
      BY <3>2, <3>3, HowManySame
  <2>8. Dots + Lead = IF hasLeadingSlash \/ EndsInDots(src) THEN 1 ELSE 0
    <3>1. hasLeadingSlash => IsSlash(src[Len(src)])
      BY DEF DInv, Begun
    <3>2. ~(hasLeadingSlash /\ EndsInDots(src))
      BY <1>3, <2>3, <3>1, NoDotsAfterSlash
    <3> QED
      BY <2>3, <3>2 DEF Dots, Lead
  <2>9. /\ dst[end] \in {Nul, Slash}
        /\ dst[end] = Slash => EndsInDots(src) /\ InName(dst[n])
    <3>1. dst[end] \in {Nul, Slash} /\ (dst[end] = Slash => EndsInDots(src))
      BY <1>1 DEF DInv, PastEnd
    <3>2. dst[end] = Slash /\ dstIt = end /\ base > 1 => InName(dst[base - 1])
      BY <1>1 DEF DInv, PackDepth
    <3> QED
      BY <2>2, <2>3, <3>1, <3>2
  <2>10. (IF dst[n] = Slash THEN 1 ELSE 0) + (IF dst[end] = Slash THEN 1 ELSE 0) = Dots + Lead
    <3>1. CASE hasLeadingSlash \/ EndsInDots(src)
      <4>1. (\A k \in dstIt .. end : dst[k] = Nul) /\ base > 1 => dst[base - 1] = Slash
        BY <1>1, <3>1 DEF DInv, PackDepth
      <4>2. \A k \in dstIt .. end : k = end
        BY <1>3, <2>3
      <4>3. dst[end] = Nul => dst[n] = Slash
        BY <2>2, <2>3, <4>1, <4>2
      <4> QED
        BY <2>8, <2>9, <3>1, <4>3, Kinds
    <3>2. CASE ~(hasLeadingSlash \/ EndsInDots(src))
      <4>1. dst[end] = Nul /\ (IF dstIt <= Len(src) THEN TRUE ELSE InName(dst[base - 1]))
        BY <1>1, <3>2 DEF DInv, PackDepth
      <4>2. dst[end] = Nul /\ InName(dst[n])
        BY <1>1, <1>3, <2>2, <4>1
      <4> QED
        BY <2>8, <3>2, <4>2, Kinds
    <3> QED
      BY <3>1, <3>2
  <2> DEFINE a == HowMany(dst, 1, n - 1)
             last == IF dst[n] = Slash THEN 1 ELSE 0
             past == IF dst[end] = Slash THEN 1 ELSE 0
  <2>11. /\ depth = (a + last) + past - Dots - Lead /\ last + past = Dots + Lead
         /\ HowMany(dst', 1, n - 1) = a
    BY <2>4, <2>5, <2>6, <2>7, <2>10
  <2>12. a \in Nat /\ last \in Nat /\ past \in Nat /\ Dots \in Int /\ Lead \in Int
    BY <2>5 DEF Dots, Lead
  <2> HIDE DEF a, last, past, end
  <2> QED
    BY <2>11, <2>12
<1>6. TextDepth'
  BY <1>1, <1>5 DEF TextDepth, HowMany, SlashesIn
<1>7. Begun' /\ PastEnd' /\ ScanDepth' /\ PackDepth'
  BY <1>1 DEF DInv, Begun, PastEnd, ScanDepth, PackDepth, Scanning
<1> QED
  BY <1>2, <1>6, <1>7 DEF DInv

LEMMA FindFileNameDepth == ASSUME DInv, FindFileName PROVE DInv'
<1>1. /\ phase = "name" /\ phase' = "done"
      /\ UNCHANGED <<src, srcIt, dst, dstIt, depth, skipping, hasLeadingSlash, firstEntryWasAccepted, base>>
  BY DEF FindFileName, scanVars
<1>2. IInv'
  BY FindFileNameInv DEF DInv
<1>3. TextDepth'
  BY <1>1 DEF DInv, TextDepth, Result, Neat, Follows, DotsAt, HowMany, SlashesIn
<1>4. Begun' /\ PastEnd' /\ ScanDepth' /\ PackDepth'
  BY <1>1 DEF DInv, Begun, PastEnd, ScanDepth, PackDepth, Scanning
<1> QED
  BY <1>2, <1>3, <1>4 DEF DInv

LEMMA StutterDepth == ASSUME DInv, UNCHANGED vars PROVE DInv'
<1> USE DEF vars, scanVars
<1>1. IInv'
  BY StutterInv DEF DInv
<1>2. Begun' /\ PastEnd'
  BY DEF DInv, Begun, PastEnd, Scanning, AfterSlash, AtSlash, NoChar
<1>3. ScanDepth'
  BY DEF DInv, ScanDepth, Scanning, EndSlash, HowMany, SlashesIn, Dots, ToSkip, AfterSlash, AtSlash, NoChar
<1>4. PackDepth'
  BY DEF DInv, PackDepth, EndSlash, HowMany, SlashesIn, Dots, Lead
<1>5. TextDepth'
  BY DEF DInv, TextDepth, Result, Neat, Follows, DotsAt, HowMany, SlashesIn
<1> QED
  BY <1>1, <1>2, <1>3, <1>4, <1>5 DEF DInv

LEMMA DepthNext == DInv /\ [Next]_vars => DInv'
<1> SUFFICES ASSUME DInv, [Next]_vars PROVE DInv'
  OBVIOUS
<1> QED
  BY AcceptSlashDepth, AcceptDotEntryDepth, AcceptDotDotEntryDepth, AcceptCharsDepth,
     EndOfScanDepth, PackOneDepth, EndOfPackDepth, FindFileNameDepth, StutterDepth DEF Next

(* Whatever the path, if something remains of it and no ".." is left over, *)
(* the depth that comes with the text is that of the text: the folders     *)
(* that FileList sorts by (FastPathNormalization.cpp:76-148;               *)
(* FileListBinarySearch.h:37-49).                                          *)
THEOREM DepthIsOfText == Spec => []DepthOfText
<1>1. ASSUME DInv, Done, skipping = 0, Text # <<>>
      PROVE  depth = Cardinality({k \in 1 .. Len(Text) - 1 : Text[k] = Slash})
  <2>1. PICK n \in 0 .. Len(src) : Result(n)
    BY <1>1 DEF DInv, IInv, Packed, Done
  <2>2. /\ Text \in Seq(Characters) /\ Len(Text) = n /\ n \in Nat
        /\ \A i \in 1 .. n : Text[i] = dst[i]
    BY <1>1, <2>1, TextIs DEF DInv, IInv
  <2>3. n \in 1 .. Len(src)
    BY <1>1, <2>2
  <2>4. depth = HowMany(dst, 1, n - 1)
    BY <1>1, <2>1, <2>3 DEF DInv, TextDepth, Done
  <2>5. {k \in 1 .. n - 1 : Text[k] = Slash} = {k \in 1 .. n - 1 : dst[k] = Slash}
    <3>1. \A k \in 1 .. n - 1 : k \in 1 .. n
      BY <2>3
    <3> QED
      BY <2>2, <3>1
  <2> QED
    BY <2>2, <2>4, <2>5 DEF HowMany, SlashesIn
<1>2. DInv => DepthOfText
  BY <1>1 DEF DepthOfText
<1> QED
  BY <1>2, DepthInit, DepthNext, PTL DEF Spec

(***************************************************************************)
(* The name.                                                               *)
(***************************************************************************)
Unpacked == \A i \in 1 .. Len(src) : dst[i] # Nul

NameFound ==
  /\ filename < Len(src)
  /\ filename > 0 => dst[filename] = Slash
  /\ \A k \in filename + 1 .. Len(src) - 1 : dst[k] # Slash

(* dst points behind its beginning only after a packing, which shortens.   *)
Naming ==
  /\ phase \in {"name", "done"} /\ Unpacked => base = 1
  /\ phase = "done" /\ Unpacked /\ Len(src) >= 1 => NameFound

NInv == DInv /\ Naming

LEMMA NameInit == Init => NInv
<1> SUFFICES ASSUME Init PROVE NInv
  OBVIOUS
<1>1. phase = "scan"
  BY DEF Init
<1> QED
  BY <1>1, DepthInit DEF NInv, Naming

LEMMA FindFileNameFinds ==
  ASSUME NInv, FindFileName, Unpacked, Len(src) >= 1
  PROVE  NameFound'
<1> DEFINE end == BeforeRun(Len(src), TRUE)
           found == BeforeRun(end, FALSE)
<1>1. /\ phase = "name" /\ filename' = found
      /\ UNCHANGED <<src, dst, base>>
  BY DEF FindFileName, scanVars
<1>2. base = 1 /\ Len(src) \in Nat /\ IInv
  BY <1>1 DEF NInv, Naming, DInv, IInv, TypeOK
<1>3. /\ end \in 0 .. Len(src)
      /\ end = 0 \/ ~IsSlash(dst[end])
      /\ \A j \in end + 1 .. Len(src) : IsSlash(dst[j])
  <2>1. base \in Nat \ {0} /\ base - 1 <= Len(src) /\ base - 1 = 0
    BY <1>2
  <2> HIDE DEF end
  <2>2. /\ end \in base - 1 .. Len(src)
        /\ end = base - 1 \/ IsSlash(dst[end]) # TRUE
        /\ \A j \in end + 1 .. Len(src) : IsSlash(dst[j]) = TRUE
    BY <1>2, <2>1, RunFound, Zenon DEF end
  <2> QED
    BY <2>1, <2>2
<1> HIDE DEF end
<1>4. /\ found \in 0 .. end
      /\ found = 0 \/ IsSlash(dst[found])
      /\ \A j \in found + 1 .. end : ~IsSlash(dst[j])
  <2>1. base \in Nat \ {0} /\ base - 1 <= end /\ base - 1 = 0 /\ end \in Nat
    BY <1>2, <1>3
  <2> HIDE DEF found
  <2>2. /\ found \in base - 1 .. end
        /\ found = base - 1 \/ IsSlash(dst[found]) # FALSE
        /\ \A j \in found + 1 .. end : IsSlash(dst[j]) = FALSE
    BY <2>1, RunFound, Zenon DEF found
  <2>3. found = 0 \/ IsSlash(dst[found])
    <3>1. ~IsSlash(dst[found]) => (IsSlash(dst[found]) <=> FALSE)
      OBVIOUS
    <3>2. (IsSlash(dst[found]) <=> FALSE) => IsSlash(dst[found]) = FALSE
      BY DEF IsSlash
    <3> QED
      BY <2>1, <2>2, <3>1, <3>2, Zenon
  <2>4. \A j \in found + 1 .. end : ~IsSlash(dst[j])
    BY <2>2
  <2> QED
    BY <2>1, <2>2, <2>3, <2>4
<1> HIDE DEF found
<1>5. Neat(dst, 1, Len(src))
  <2>1. PICK n \in 0 .. Len(src) : Result(n)
    BY <1>1, <1>2 DEF IInv, Packed
  <2>2. n = Len(src)
    <3>1. n # Len(src) => n + 1 \in 1 .. Len(src)
      BY <1>2
    <3> QED
      BY <2>1, <3>1 DEF Result, Unpacked
  <2> QED
    BY <2>1, <2>2 DEF Result
<1>6. ASSUME NEW i \in 1 .. Len(src), IsSlash(dst[i]) PROVE dst[i] = Slash
  <2>1. dst[i] \in {Slash, Dot, Nul} \cup Letters
    BY <1>5 DEF Neat
  <2> QED
    BY <1>6, <2>1, Kinds
<1>7. end >= Len(src) - 1
  <2> SUFFICES ASSUME end < Len(src) - 1 PROVE FALSE
    BY <1>2, <1>3
  <2>1. /\ Len(src) - 1 \in end + 1 .. Len(src) /\ Len(src) \in end + 1 .. Len(src)
        /\ Len(src) - 1 \in 1 .. Len(src) /\ Len(src) \in 1 .. Len(src)
        /\ Len(src) - 1 < Len(src) /\ Len(src) - 1 + 1 = Len(src)
    BY <1>2, <1>3
  <2>2. dst[Len(src) - 1] = Slash /\ dst[Len(src)] = Slash
    BY <1>3, <1>6, <2>1
  <2>3. Follows(dst[Len(src) - 1], dst[Len(src)])
    BY <1>5, <2>1 DEF Neat
  <2> QED
    BY <2>2, <2>3 DEF Follows
<1>8. found < Len(src)
  <2> SUFFICES ASSUME found >= Len(src) PROVE FALSE
    BY <1>2, <1>3, <1>4
  <2>1. found = Len(src) /\ end = Len(src) /\ found # 0 /\ end # 0
    BY <1>2, <1>3, <1>4
  <2> QED
    BY <1>3, <1>4, <2>1
<1>9. found > 0 => dst[found] = Slash
  <2>1. found > 0 => found \in 1 .. Len(src)
    BY <1>2, <1>3, <1>4
  <2> QED
    BY <1>4, <1>6, <2>1
<1>10. ASSUME NEW k \in found + 1 .. Len(src) - 1 PROVE dst[k] # Slash
  <2>1. k \in found + 1 .. end
    BY <1>2, <1>3, <1>4, <1>7
  <2> QED
    BY <1>4, <2>1, Kinds
<1> QED
  BY <1>1, <1>8, <1>9, <1>10 DEF NameFound

LEMMA NameNext == NInv /\ [Next]_vars => NInv'
<1> SUFFICES ASSUME NInv, [Next]_vars PROVE NInv'
  OBVIOUS
<1>1. DInv'
  BY DepthNext DEF NInv
<1>2. CASE EndOfScan
  <2>1. /\ Scanning /\ phase' \in {"name", "pack"} /\ UNCHANGED base
    BY <1>2 DEF EndOfScan
  <2>2. base = 1
    BY <2>1, ScanKnows DEF NInv
  <2> QED
    BY <1>1, <2>1, <2>2 DEF NInv, Naming
<1>3. CASE EndOfPack
  <2>1. /\ phase = "pack" /\ phase' = "name" /\ UNCHANGED <<src, base>>
        /\ dst' = [dst EXCEPT ![base] = Nul]
    BY <1>3 DEF EndOfPack
  <2>2. /\ Len(src) \in Nat /\ dstIt \in Int /\ base \in 1 .. Len(src) + 1 /\ base < dstIt
        /\ dst \in [1 .. Len(src) + 1 -> Characters \cup {Nul, Junk}]
        /\ dstIt <= Len(src) + 1 \/ base = 1
        /\ srcIt \in 0 .. Len(src) /\ srcIt < Len(src)
    BY <2>1 DEF NInv, DInv, IInv, TypeOK, Packing, Begun
  <2>3. base \in 1 .. Len(src) /\ dst'[base] = Nul
    BY <2>1, <2>2
  <2>4. ~Unpacked'
    BY <2>1, <2>3 DEF Unpacked
  <2> QED
    BY <1>1, <2>1, <2>4 DEF NInv, Naming
<1>4. CASE FindFileName
  <2>1. /\ phase = "name" /\ phase' = "done" /\ UNCHANGED <<src, dst, base>>
    BY <1>4 DEF FindFileName, scanVars
  <2>2. Unpacked' <=> Unpacked
    BY <2>1 DEF Unpacked
  <2>3. Unpacked /\ Len(src) >= 1 => NameFound'
    BY <1>4, FindFileNameFinds
  <2> QED
    BY <1>1, <2>1, <2>2, <2>3 DEF NInv, Naming
<1>5. CASE \/ AcceptSlash \/ AcceptDotEntry \/ AcceptDotDotEntry \/ AcceptChars \/ PackOne
  <2>1. phase' \in {"scan", "pack"}
    BY <1>5 DEF AcceptSlash, AcceptDotEntry, AcceptDotDotEntry, AcceptChars, PackOne, Scanning
  <2> QED
    BY <1>1, <2>1 DEF NInv, Naming
<1>6. CASE UNCHANGED vars
  BY <1>1, <1>6 DEF NInv, Naming, NameFound, Unpacked, vars, scanVars
<1> QED
  BY <1>2, <1>3, <1>4, <1>5, <1>6 DEF Next

(* NameRight by the text alone, without the reference definition, for      *)
(* every path that became no shorter, whatever is in it: the name found is *)
(* what the text has behind its last slash, but for one at its end.        *)
NameOfText ==
  Done /\ Text # <<>> /\ Len(Text) = Len(src) =>
    /\ filename < Len(Text)
    /\ filename > 0 => Text[filename] = Slash
    /\ \A k \in filename + 1 .. Len(Text) - 1 : Text[k] # Slash

(* Of every path that became no shorter, of any length, the name that a    *)
(* listing returns is the last one of the text                             *)
(* (FastPathNormalization.cpp:150-155; FileListBinarySearch.h:182).        *)
THEOREM NameIsLast == Spec => []NameOfText
<1>1. ASSUME NInv, Done, Text # <<>>, Len(Text) = Len(src)
      PROVE  /\ filename < Len(Text)
             /\ filename > 0 => Text[filename] = Slash
             /\ \A k \in filename + 1 .. Len(Text) - 1 : Text[k] # Slash
  <2>1. PICK n \in 0 .. Len(src) : Result(n)
    BY <1>1 DEF NInv, DInv, IInv, Packed, Done
  <2>2. /\ Text \in Seq(Characters) /\ Len(Text) = n /\ n \in Nat
        /\ \A i \in 1 .. n : Text[i] = dst[i]
    BY <1>1, <2>1, TextIs DEF NInv, DInv, IInv
  <2>3. n = Len(src) /\ n >= 1 /\ Unpacked
    BY <1>1, <2>1, <2>2 DEF Result, Unpacked
  <2>4. NameFound
    BY <1>1, <2>3 DEF NInv, Naming, Done
  <2>5. filename \in Nat
    BY <1>1 DEF NInv, DInv, IInv, TypeOK
  <2>6. filename > 0 => filename \in 1 .. n
    BY <2>3, <2>4, <2>5 DEF NameFound
  <2>7. \A k \in filename + 1 .. n - 1 : k \in 1 .. n
    BY <2>3, <2>5
  <2> QED
    BY <2>2, <2>3, <2>4, <2>6, <2>7 DEF NameFound
<1>2. NInv => NameOfText
  BY <1>1 DEF NameOfText
<1> QED
  BY <1>2, NameInit, NameNext, PTL DEF Spec
=============================================================================

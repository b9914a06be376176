--------------------------- MODULE NormalizePath ---------------------------
(***************************************************************************)
(* NormalizePath(src, dst, len, filename, depth): reads src from its end,  *)
(* an entry or a run of slashes at a time, and writes what stays to dst,   *)
(* from its end; Nul marks what a later ".." removed.  Then dst is packed  *)
(* to its beginning.  Indices count from 1, so srcIt = 0 is the element    *)
(* before the string and dst has one element more than src: that of the    *)
(* terminating zero.                                                       *)
(***************************************************************************)
EXTENDS NormalForm

CONSTANTS
  Sources,   \* the paths
  Junk       \* what dst holds before it is written

ASSUME SourcesAssumption ==
  /\ Sources \subseteq Seq(Characters)
  /\ Junk \notin Characters \cup {Nul}

VARIABLES
  src, srcIt,
  dst, dstIt,
  depth, skipping,
  hasLeadingSlash,         \* of the path read backwards: a slash at its end
  firstEntryWasAccepted,
  phase,                   \* "scan", "pack", "name" or "done"
  base,                    \* where dst points to
  filename

scanVars == <<srcIt, dst, dstIt, depth, skipping, hasLeadingSlash, firstEntryWasAccepted>>
vars == <<src, scanVars, phase, base, filename>>

Init ==
  /\ src \in Sources
  /\ srcIt = Len(src)
  /\ dst = [i \in 1 .. Len(src) + 1 |-> IF i <= Len(src) THEN Junk ELSE Nul]
  /\ dstIt = Len(src)
  /\ depth = 0 /\ skipping = 0
  /\ hasLeadingSlash = FALSE /\ firstEntryWasAccepted = FALSE
  /\ phase = "scan"
  /\ base = 1 /\ filename = 0

(* No character at i, counting backwards: an entry begins after it.        *)
NoChar(i) == i >= 1 => IsSlash(src[i])

AtSlash == srcIt >= 1 /\ IsSlash(src[srcIt])
AtDot == srcIt >= 1 /\ src[srcIt] = Dot /\ NoChar(srcIt - 1)
AtDotDot == srcIt > 1 /\ src[srcIt] = Dot /\ src[srcIt - 1] = Dot /\ NoChar(srcIt - 2)
AtChar == srcIt >= 1 /\ ~IsSlash(src[srcIt])

(* Where the run of slashes, or of others, that ends at srcIt begins.      *)
BeforeSlashes ==
  CHOOSE i \in 0 .. srcIt - 1 :
    (i = 0 \/ ~IsSlash(src[i])) /\ \A j \in i + 1 .. srcIt : IsSlash(src[j])

BeforeChars ==
  CHOOSE i \in 0 .. srcIt - 1 :
    NoChar(i) /\ \A j \in i + 1 .. srcIt : ~IsSlash(src[j])

Kept(c) == IF skipping = 0 THEN c ELSE Nul

\* Mutant: a name counts although none is to be skipped.
OneLessAlways(k) == k - 1

OneLess(k) == IF k > 0 THEN k - 1 ELSE 0

Scanning == phase = "scan"

\* Mutant: any slash of the path counts as one at its end.
AcceptSlashAnywhere ==
  /\ Scanning /\ AtSlash
  /\ hasLeadingSlash' = TRUE
  /\ depth' = depth + 1
  /\ dst' = [dst EXCEPT ![dstIt] = Kept(Slash)]
  /\ dstIt' = dstIt - 1
  /\ srcIt' = BeforeSlashes
  /\ firstEntryWasAccepted' = TRUE
  /\ UNCHANGED <<src, skipping, phase, base, filename>>

AcceptSlash ==
  /\ Scanning /\ AtSlash
  /\ hasLeadingSlash' = (hasLeadingSlash \/ ~firstEntryWasAccepted)
  /\ depth' = depth + 1
  /\ dst' = [dst EXCEPT ![dstIt] = Kept(Slash)]
  /\ dstIt' = dstIt - 1
  /\ srcIt' = BeforeSlashes
  /\ firstEntryWasAccepted' = TRUE
  /\ UNCHANGED <<src, skipping, phase, base, filename>>

\* Mutant: the slash after the dot is kept.
AcceptDotEntryKeepsSlash ==
  /\ Scanning /\ ~AtSlash /\ AtDot
  /\ srcIt' = srcIt - 1
  /\ depth' = depth - 1
  /\ firstEntryWasAccepted' = TRUE
  /\ UNCHANGED <<src, dst, dstIt, skipping, hasLeadingSlash, phase, base, filename>>

\* Mutant: the dot is taken for two.
AcceptDotEntryTwice ==
  /\ Scanning /\ ~AtSlash /\ AtDot
  /\ srcIt' = srcIt - 1
  /\ depth' = depth - 1
  /\ dstIt' = dstIt + 2
  /\ firstEntryWasAccepted' = TRUE
  /\ UNCHANGED <<src, dst, skipping, hasLeadingSlash, phase, base, filename>>

(* The slash written before it, which follows it in the path, is dropped.  *)
AcceptDotEntry ==
  /\ Scanning /\ ~AtSlash /\ AtDot
  /\ srcIt' = srcIt - 1
  /\ depth' = depth - 1
  /\ dstIt' = dstIt + 1
  /\ firstEntryWasAccepted' = TRUE
  /\ UNCHANGED <<src, dst, skipping, hasLeadingSlash, phase, base, filename>>

\* Mutant: a second ".." does not count.
AcceptDotDotEntryOnce ==
  /\ Scanning /\ ~AtSlash /\ ~AtDot /\ AtDotDot
  /\ srcIt' = srcIt - 2
  /\ depth' = depth - 2
  /\ dstIt' = dstIt + 1
  /\ skipping' = 1
  /\ firstEntryWasAccepted' = TRUE
  /\ UNCHANGED <<src, dst, hasLeadingSlash, phase, base, filename>>

AcceptDotDotEntry ==
  /\ Scanning /\ ~AtSlash /\ ~AtDot /\ AtDotDot
  /\ srcIt' = srcIt - 2
  /\ depth' = depth - 2
  /\ dstIt' = dstIt + 1
  /\ skipping' = skipping + 1
  /\ firstEntryWasAccepted' = TRUE
  /\ UNCHANGED <<src, dst, hasLeadingSlash, phase, base, filename>>

\* Mutant: a name leaves the iterator where it is.
AcceptCharsStuck ==
  /\ Scanning /\ AtChar /\ ~AtDot /\ ~AtDotDot
  /\ firstEntryWasAccepted' = TRUE
  /\ UNCHANGED <<src, srcIt, dst, dstIt, depth, skipping, hasLeadingSlash, phase, base, filename>>

(* A name, kept unless a ".." takes it away.                               *)
AcceptChars ==
  LET n == srcIt - BeforeChars
  IN  /\ Scanning /\ AtChar /\ ~AtDot /\ ~AtDotDot
      /\ srcIt' = BeforeChars
      /\ dst' = [i \in DOMAIN dst |->
                   IF i \in dstIt - n + 1 .. dstIt
                   THEN Kept(src[i - dstIt + srcIt]) ELSE dst[i]]
      /\ dstIt' = dstIt - n
      /\ skipping' = OneLess(skipping)
      /\ firstEntryWasAccepted' = TRUE
      /\ UNCHANGED <<src, depth, hasLeadingSlash, phase, base, filename>>

EndOfScan ==
  /\ Scanning /\ srcIt = 0
  /\ depth' = IF hasLeadingSlash THEN depth - 1 ELSE depth
  /\ dstIt' = dstIt + 1
  /\ phase' = IF dstIt = 0 THEN "name" ELSE "pack"
  /\ UNCHANGED <<src, srcIt, dst, skipping, hasLeadingSlash, firstEntryWasAccepted, base, filename>>

(* An element that stays moves to where dst points to, which stays behind  *)
(* the part that is still to be read.                                      *)
PackOne ==
  /\ phase = "pack" /\ dstIt <= Len(src)
  /\ IF dst[dstIt] = Nul THEN UNCHANGED <<dst, base>>
     ELSE /\ dst' = [dst EXCEPT ![base] = dst[dstIt]]
          /\ base' = base + 1
  /\ dstIt' = dstIt + 1
  /\ UNCHANGED <<src, srcIt, depth, skipping, hasLeadingSlash, firstEntryWasAccepted, phase, filename>>

EndOfPack ==
  /\ phase = "pack" /\ dstIt > Len(src)
  /\ dst' = [dst EXCEPT ![base] = Nul]
  /\ phase' = "name"
  /\ UNCHANGED <<src, srcIt, dstIt, depth, skipping, hasLeadingSlash, firstEntryWasAccepted, base, filename>>

(* The index before the run of slashes, or of others, that ends at from;   *)
(* the search does not go below dst.                                       *)
BeforeRun(from, ofSlashes) ==
  CHOOSE i \in base - 1 .. from :
    /\ i = base - 1 \/ IsSlash(dst[i]) # ofSlashes
    /\ \A j \in i + 1 .. from : IsSlash(dst[j]) = ofSlashes

\* Mutant: the slash at the end of a directory is not passed.
FindFileNameAtEnd ==
  /\ phase = "name"
  /\ phase' = "done"
  /\ filename' = BeforeRun(Len(src), FALSE)
  /\ UNCHANGED <<src, scanVars, base>>

FindFileName ==
  /\ phase = "name"
  /\ phase' = "done"
  /\ filename' = BeforeRun(BeforeRun(Len(src), TRUE), FALSE)
  /\ UNCHANGED <<src, scanVars, base>>

Next ==
  \/ AcceptSlash \/ AcceptDotEntry \/ AcceptDotDotEntry \/ AcceptChars \/ EndOfScan
  \/ PackOne \/ EndOfPack
  \/ FindFileName

Spec == Init /\ [][Next]_vars

FairSpec == Spec /\ WF_vars(Next)

(***************************************************************************)
(* Properties.                                                             *)
(***************************************************************************)
(* What a caller reads from dst: up to the first zero.                     *)
Text ==
  LET zeros == {i \in DOMAIN dst : dst[i] = Nul}
  IN  SubSeq(dst, 1, (IF zeros = {} THEN Len(dst) + 1
                      ELSE CHOOSE i \in zeros : \A j \in zeros : i <= j) - 1)

Done == phase = "done"

(* The types of the variables.                                             *)
TypeOK ==
  /\ src \in Seq(Characters)
  /\ srcIt \in 0 .. Len(src)
  /\ dst \in [1 .. Len(src) + 1 -> Characters \cup {Nul, Junk}]
  /\ dstIt \in Int
  /\ depth \in Int /\ skipping \in Nat
  /\ hasLeadingSlash \in BOOLEAN /\ firstEntryWasAccepted \in BOOLEAN
  /\ phase \in {"scan", "pack", "name", "done"}
  /\ base \in 1 .. Len(src) + 1
  /\ filename \in 0 .. Len(src)

(* The scan writes at dstIt only.  It never gets before the buffer, for    *)
(* dst cannot overtake src, and stays in what the callers with a           *)
(* std::string pass, its terminator included (FastPathNormalization.cpp:   *)
(* 167, 187, 200); in a buffer as large as the source it stays when the    *)
(* path does not end in "." or "..": see BehindBuffer.                     *)
InBuffer ==
  Scanning =>
    /\ dstIt >= srcIt
    /\ dstIt <= Len(src) + 1
    /\ ~EndsInDots(src) => dstIt <= Len(src)

(* dst is assumed "as large as 'const char* src'"                          *)
(* (FastPathNormalization.h:17), so what lies behind that is left alone.   *)
BehindBuffer == dst[Len(src) + 1] = Nul

(* The result is the normal form, for every path in which a name remains   *)
(* and no ".." is left over (tests/main.cpp:50-53).                        *)
Ordinary(s) == Resolved(s).names # <<>> /\ ~Resolved(s).climbs

TextRight == Done /\ Ordinary(src) => Text = Normal(src)

(* depth counts the folders above the path: FileList sorts by it           *)
(* (FileListBinarySearch.h:37-49).                                         *)
DepthRight == Done /\ Ordinary(src) => depth = FoldersAbove(src)

(* What FileList takes for the depth of a text: its slashes, but for one   *)
(* at its end.  It is the depth that comes with the text, for every path   *)
(* of which something remains and no ".." is left over.                    *)
DepthOfText ==
  Done /\ skipping = 0 /\ Text # <<>> =>
    depth = Cardinality({k \in 1 .. Len(Text) - 1 : Text[k] = Slash})

(* The last name is found where it is, with its slash if it is a folder's, *)
(* in a path that became no shorter, as those of an archive's directory    *)
(* are: ListDirectory returns it (FileListBinarySearch.h:182).  In others  *)
(* the search begins and ends in what was left behind the result: of "./a" *)
(* it yields 1, behind the text "a".                                       *)
NameRight ==
  Done /\ Ordinary(src) /\ Len(Normal(src)) = Len(src) =>
    SubSeq(Text, filename + 1, Len(Text))
      = Last(Resolved(src).names) \o (IF IsFolder(src) THEN <<Slash>> ELSE <<>>)

(* Whatever the path, the result has no dots, no repeated slashes and no   *)
(* character that was not written: it needs no second normalization, which *)
(* ListDirectory (FileListBinarySearch.h:174) and the search paths get.    *)
AlwaysNormal ==
  Done => Text \in Seq(Characters) /\ IsNormal(Text)

(* The scan ends.                                                          *)
Terminates == <>Done
=============================================================================

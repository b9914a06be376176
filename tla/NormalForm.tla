----------------------------- MODULE NormalForm -----------------------------
(***************************************************************************)
(* What a normalized path is, by its entries: the reference definition     *)
(* that NormalizePath, which works backwards on characters, is held        *)
(* against.  Operators only.                                               *)
(***************************************************************************)
EXTENDS Integers, SequencesExt

CONSTANTS
  Slashes,   \* the characters that IsSlash accepts
  Slash,     \* the one that is written
  Dot,
  Letters,   \* characters of names, beside the dot
  Nul

ASSUME CharactersAssumption ==
  /\ Slash \in Slashes
  /\ Slashes \cap Letters = {}
  /\ Dot \notin Slashes \cup Letters
  /\ Nul \notin Slashes \cup Letters \cup {Dot}

Characters == Slashes \cup Letters \cup {Dot}

IsSlash(c) == c \in Slashes

(* The entries between the slashes, the empty ones left out.               *)
Starts(s) == {i \in DOMAIN s : ~IsSlash(s[i]) /\ (i = 1 \/ IsSlash(s[i - 1]))}

Entry(s, i) ==
  LET ends == {j \in i .. Len(s) : j = Len(s) \/ IsSlash(s[j + 1])}
  IN  SubSeq(s, i, CHOOSE j \in ends : \A k \in ends : j <= k)

Entries(s) ==
  LET starts == SetToSortSeq(Starts(s), <)
  IN  [k \in DOMAIN starts |-> Entry(s, starts[k])]

DotEntry == <<Dot>>
DotDotEntry == <<Dot, Dot>>

(* The names that remain, and whether a ".." had nothing to remove.        *)
Resolved(s) ==
  LET step(r, e) ==
        IF e = DotEntry THEN r
        ELSE IF e # DotDotEntry THEN [r EXCEPT !.names = Append(@, e)]
        ELSE IF r.names = <<>> THEN [r EXCEPT !.climbs = TRUE]
        ELSE [r EXCEPT !.names = Front(@)]
  IN  FoldLeft(step, [names |-> <<>>, climbs |-> FALSE], Entries(s))

Joined(names) ==
  FoldLeft(LAMBDA text, e : IF text = <<>> THEN e ELSE text \o <<Slash>> \o e,
           <<>>, names)

IsAbsolute(s) == s # <<>> /\ IsSlash(Head(s))

(* A directory is written with a slash at its end, and so is the path that *)
(* ".." leads to.  (In a path with a name some entry is not a dot.)        *)
IsFolder(s) ==
  \/ IsSlash(Last(s))
  \/ Last(SelectSeq(Entries(s), LAMBDA e : e # DotEntry)) = DotDotEntry

(* The normal form of a path in which a name remains.                      *)
Normal(s) ==
  (IF IsAbsolute(s) THEN <<Slash>> ELSE <<>>)
    \o Joined(Resolved(s).names)
    \o (IF IsFolder(s) THEN <<Slash>> ELSE <<>>)

(* How many folders lead to it.                                            *)
FoldersAbove(s) ==
  Len(Resolved(s).names) - 1 + (IF IsAbsolute(s) THEN 1 ELSE 0)

IsNormal(s) ==
  /\ \A i \in Starts(s) : Entry(s, i) \notin {DotEntry, DotDotEntry}
  /\ \A i \in DOMAIN s : IsSlash(s[i]) =>
       s[i] = Slash /\ (i = 1 \/ ~IsSlash(s[i - 1]))

(* The last entry is "." or "..".                                          *)
EndsInDots(s) ==
  LET n == Len(s)
  IN  /\ n >= 1 /\ s[n] = Dot
      /\ \/ n = 1 \/ IsSlash(s[n - 1])
         \/ s[n - 1] = Dot /\ (n = 2 \/ IsSlash(s[n - 2]))
=============================================================================

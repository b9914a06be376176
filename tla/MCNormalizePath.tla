-------------------------- MODULE MCNormalizePath --------------------------
(***************************************************************************)
(* Two kinds of paths: every one of up to MaxLength characters over two    *)
(* slashes, the dot and one letter; and every one of up to MaxEntries      *)
(* entries, with and without a slash before and after it, where several    *)
(* names are removed by several "..".                                      *)
(***************************************************************************)
EXTENDS NormalizePath

CONSTANTS MaxLength, MaxEntries

MCSlashes == {"/", "\\"}

Short == UNION {[1 .. n -> Characters] : n \in 0 .. MaxLength}

MCEntries == {DotEntry, DotDotEntry, <<"a">>, <<"a", "a">>}

Long == {before \o Joined(entries) \o after :
           before \in {<<>>, <<Slash>>}, after \in {<<>>, <<Slash>>},
           entries \in UNION {[1 .. n -> MCEntries] : n \in 1 .. MaxEntries}}

MCSources == Short \cup Long
=============================================================================

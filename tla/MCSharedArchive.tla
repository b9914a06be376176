-------------------------- MODULE MCSharedArchive --------------------------
(***************************************************************************)
(* Instances of SharedArchive for TLC.  The archive is <<1, .., 5>>: member *)
(* "a" holds 1 and 2, member "b" 3, member "z" (compressed) 4 and 5.        *)
(***************************************************************************)
EXTENDS SharedArchive

MCMembers == {"a", "b", "z"}
MCPacked  == {"z"}
MCOffset  == [m \in MCMembers |-> CASE m = "a" -> 0 [] m = "b" -> 2 [] m = "z" -> 3]
MCSize    == [m \in MCMembers |-> CASE m = "a" -> 2 [] m = "b" -> 1 [] m = "z" -> 2]
MCImage   == <<1, 2, 3, 4, 5>>

(* Every thread has a handle of its own ...                                *)
MCPrivate == [h \in Handles |-> {t \in Threads : <<t, h>> \in {<<"t1", "h1">>, <<"t2", "h2">>}}]

(* ... or all share all of them (copies of a File share its SubFile).      *)
MCShared == [h \in Handles |-> Threads]

Moving  == {"open", "read", "write", "seek"}
Owning  == {"open", "read", "write", "seek", "extract"}
Sharing == {"open", "read", "write", "extract"}
Sizing  == {"open", "read", "write", "seek", "extract", "getsize"}
=============================================================================

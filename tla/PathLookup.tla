----------------------------- MODULE PathLookup -----------------------------
(***************************************************************************)
(* What a lookup promises: its answer is where the location was at one     *)
(* instant between the call and the return, whoever pushes and pops search *)
(* paths meanwhile.  The disk changes between lookups.                     *)
(***************************************************************************)
EXTENDS Places

CONSTANTS
  Threads, NoLocation,
  Locations,   \* what may be looked up
  Pushed       \* what may become a search path

VARIABLES
  disk, searchPaths, mounted,
  asked,     \* what each thread is looking up
  answer     \* Missing, a place, or not known yet

vars == <<disk, searchPaths, mounted, asked, answer>>

Init ==
  /\ disk \in [Tree -> Kinds]
  /\ searchPaths = <<>> /\ mounted = <<>>
  /\ asked = [t \in Threads |-> NoLocation]
  /\ answer = [t \in Threads |-> Unknown]

Waiting == {t \in Threads : asked[t] # NoLocation /\ answer[t] = Unknown}

(* The answer may be known at once.                                        *)
Ask(t, l) ==
  /\ t \notin Waiting
  /\ asked' = [asked EXCEPT ![t] = l]
  /\ \E now \in {Unknown, FirstMatch(disk, searchPaths, mounted, l)} :
       answer' = [answer EXCEPT ![t] = now]
  /\ UNCHANGED <<disk, searchPaths, mounted>>

Answer(t) ==
  /\ t \in Waiting
  /\ answer' = [answer EXCEPT ![t] = FirstMatch(disk, searchPaths, mounted, asked[t])]
  /\ UNCHANGED <<disk, searchPaths, mounted, asked>>

(* The thread goes on, and may change the disk.                            *)
Finish(t) ==
  /\ asked[t] # NoLocation /\ t \notin Waiting
  /\ asked' = [asked EXCEPT ![t] = NoLocation]
  /\ answer' = [answer EXCEPT ![t] = Unknown]
  /\ disk' \in [Tree -> Kinds]
  /\ Waiting # {} => disk' = disk
  /\ UNCHANGED <<searchPaths, mounted>>

(* Nothing is promised to a lookup in the archives that a mount overtakes. *)
Mount ==
  /\ \E a \in Archives : mounted' = Append(mounted, a)
  /\ DOMAIN answer' = Threads
  /\ \A t \in Threads : InArchives(asked[t]) \/ answer'[t] = answer[t]
  /\ UNCHANGED <<disk, searchPaths, asked>>

ChangePaths ==
  /\ \/ \E p \in Pushed : searchPaths' = Append(searchPaths, p)
     \/ searchPaths # <<>> /\ searchPaths' = SubSeq(searchPaths, 1, Len(searchPaths) - 1)
     \/ searchPaths' = <<>>
  /\ UNCHANGED <<disk, mounted, asked, answer>>

Next ==
  \/ \E t \in Threads, l \in Locations : Ask(t, l)
  \/ \E t \in Threads : Answer(t) \/ Finish(t)
  \/ Mount
  \/ ChangePaths

Spec == Init /\ [][Next]_vars
=============================================================================

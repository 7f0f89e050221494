---------------------------- MODULE PlayNotices ----------------------------
(***************************************************************************)
(* What IMedia promises about notifications, without objects, queues or    *)
(* ticks: a sound is told of at most once, only after it ended, and the    *)
(* sounds of one object are told of in the order they were played.         *)
(***************************************************************************)
EXTENDS Naturals

CONSTANTS
    Voices,     \* voice ids, increasing
    Owners      \* incarnations of objects

VARIABLES
    fate,       \* unused, playing, owed (ended, not told of), told, void
    owner       \* the incarnation of the object that played the voice

noticeVars == <<fate, owner>>

NoticesInit ==
    /\ fate = [v \in Voices |-> "unused"]
    /\ owner = [v \in Voices |-> 0]

Play(v, g) ==
    /\ fate[v] = "unused"
    /\ owner' = [owner EXCEPT ![v] = g]
    /\ \/ fate' = [fate EXCEPT ![v] = "playing"]
       \* the sound that was playing on the same object is cut off
       \/ \E w \in Voices, f \in {"owed", "void"} :
             /\ fate[w] \in {"playing", "owed"} /\ owner[w] = g
             /\ fate' = [fate EXCEPT ![v] = "playing", ![w] = f]

(* Some sounds come to their end, or are cut off, or nobody asks any more. *)
Ends ==
    /\ \E V \in SUBSET Voices :
          /\ \A v \in V : fate[v] \in {"playing", "owed"}
          /\ \E f \in [V -> {"owed", "void"}] :
                fate' = [v \in Voices |-> IF v \in V THEN f[v] ELSE fate[v]]
    /\ UNCHANGED owner

Tell(v) ==
    /\ fate[v] = "owed"
    /\ \A w \in Voices : w < v /\ owner[w] = owner[v] => fate[w] # "owed"
    /\ fate' = [fate EXCEPT ![v] = "told"]
    /\ UNCHANGED owner

NoticesNext ==
    \/ \E v \in Voices : (\E g \in Owners : Play(v, g)) \/ Tell(v)
    \/ Ends

NoticesSpec == NoticesInit /\ [][NoticesNext]_noticeVars
=============================================================================

---------------------------- MODULE FrameStream ----------------------------
(***************************************************************************)
(* What a TCP connection promises about whole frames, in one direction.    *)
(* Frames arrive in the order in which they were accepted, unchanged and   *)
(* at most once.  A frame is missed only if it was spoilt itself, or if a  *)
(* frame before it was torn, that is begun and left unfinished (or refused *)
(* with its body still in the stream).                                     *)
(***************************************************************************)
EXTENDS Integers, Sequences

CONSTANT Frames

VARIABLES
    accepted,   \* frames whose transmission began, in order; their id is the place
    delivered,  \* frames handed to the receiver
    spoilt,     \* ids of the frames lost without harm to the others
    torn        \* ids of the frames after which the stream is out of step

vars == <<accepted, delivered, spoilt, torn>>

Init == accepted = << >> /\ delivered = << >> /\ spoilt = {} /\ torn = {}

Newest == IF delivered = << >> THEN 0 ELSE delivered[Len(delivered)].id

Accept ==
    /\ \E f \in Frames : f.id = Len(accepted) + 1 /\ accepted' = Append(accepted, f)
    /\ UNCHANGED <<delivered, spoilt, torn>>

Lose ==
    /\ \E i \in 1..Len(accepted) : \/ spoilt' = spoilt \cup {i} /\ UNCHANGED torn
                                   \/ torn' = torn \cup {i} /\ UNCHANGED spoilt
    /\ UNCHANGED <<accepted, delivered>>

Excused(i) == i \in spoilt \/ \E k \in torn : k <= i

Deliver ==
    /\ \E i \in Newest + 1..Len(accepted) :
          /\ i \notin spoilt \cup torn
          /\ \A j \in Newest + 1..i - 1 : Excused(j)
          /\ delivered' = Append(delivered, accepted[i])
    /\ UNCHANGED <<accepted, spoilt, torn>>

Spec == Init /\ [][Accept \/ Lose \/ Deliver]_vars
=============================================================================

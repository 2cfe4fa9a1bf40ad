------------------------------ MODULE Mailbox ------------------------------
(***************************************************************************)
(* What a subscription promises its user: a bounded FIFO of messages with  *)
(* an overflow policy, a callback that handles one message at a time,      *)
(* oldest first, and a cancellation after which no callback begins.        *)
(***************************************************************************)
EXTENDS Integers, Sequences

CONSTANTS Messages, depth

VARIABLES
    box,        \* messages waiting
    running,    \* the message the callback handles: empty or a singleton
    open,       \* not cancelled
    policy      \* what happens when a message meets a full box

vars == <<box, running, open, policy>>

Init ==
    /\ box = << >> /\ running = {} /\ open = TRUE
    /\ policy \in {"DropOldest", "RejectNewest"}

Newer(m) == \A i \in DOMAIN box : box[i] < m

Put ==
    /\ open
    /\ \E m \in Messages :
          /\ Newer(m)
          /\ \/ Len(box) < depth /\ box' = Append(box, m)
             \/ Len(box) = depth /\ policy = "DropOldest" /\ box' = Append(Tail(box), m)
    /\ UNCHANGED <<running, open, policy>>

\* The executor is gone: messages that wait are given up.
GiveUp == box' = << >> /\ UNCHANGED <<running, open, policy>>

Close == open' = FALSE /\ box' = << >> /\ UNCHANGED <<running, policy>>

Begin ==
    /\ open
    /\ running = {} /\ box # << >>
    /\ running' = {Head(box)}
    /\ box' = Tail(box)
    /\ UNCHANGED <<open, policy>>

End == running # {} /\ running' = {} /\ UNCHANGED <<box, open, policy>>

Next == Put \/ GiveUp \/ Close \/ Begin \/ End

Spec == Init /\ [][Next]_vars

FairSpec == Spec /\ WF_vars(Begin) /\ WF_vars(End)
=============================================================================

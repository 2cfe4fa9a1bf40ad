--------------------------- MODULE ClosableQueue ---------------------------
(***************************************************************************)
(* What ThreadSafeQueue promises to its callers: a FIFO of limited         *)
(* capacity that can be closed, each call of which takes effect at one     *)
(* moment between its beginning and its return.  An insertion is refused   *)
(* by a closed queue, and by a full one if it is not to wait; a removal    *)
(* gives the oldest value, and none only if there is none at that moment   *)
(* and the queue is closed, the call is not to wait, or its time is over.  *)
(* A call may throw where it would have inserted or removed; the queue is  *)
(* then as before.                                                         *)
(***************************************************************************)
EXTENDS Integers, Sequences

CONSTANTS Threads, capacity

VARIABLES
    queue, closed,
    call,       \* the call of each thread, "answered" when only its return is left
    inserted,   \* how many values each thread has inserted
    removed,    \* values removed, in order
    failed      \* how many calls have thrown

vars == <<queue, closed, call, inserted, removed, failed>>

Insertions == {"push", "try_push"}
Removals == {"try_pop", "wait_pop", "wait_pop_for"}

Init ==
    /\ queue = << >> /\ removed = << >> /\ closed = FALSE /\ failed = 0
    /\ call = [t \in Threads |-> "none"]
    /\ inserted = [t \in Threads |-> 0]

Full == capacity # 0 /\ Len(queue) >= capacity

Becomes(t, state) == call' = [call EXCEPT ![t] = state]

Begin(t) ==
    /\ call[t] = "none"
    /\ \E op \in Insertions \cup Removals \cup {"close"} : Becomes(t, op)
    /\ UNCHANGED <<queue, closed, inserted, removed, failed>>

Insert(t) ==
    /\ call[t] \in Insertions /\ ~closed /\ ~Full
    /\ queue' = Append(queue, <<t, inserted[t]>>)
    /\ inserted' = [inserted EXCEPT ![t] = @ + 1]
    /\ Becomes(t, "answered")
    /\ UNCHANGED <<closed, removed, failed>>

Remove(t) ==
    /\ call[t] \in Removals /\ queue # << >>
    /\ queue' = Tail(queue)
    /\ removed' = Append(removed, Head(queue))
    /\ Becomes(t, "answered")
    /\ UNCHANGED <<closed, inserted, failed>>

\* The value cannot be stored or handed over: the call throws.
Fail(t) ==
    /\ \/ call[t] \in Insertions /\ ~closed /\ ~Full
       \/ call[t] \in Removals /\ queue # << >>
    /\ failed' = failed + 1
    /\ Becomes(t, "none")
    /\ UNCHANGED <<queue, closed, inserted, removed>>

\* A call that changes nothing, or that was answered, returns.
Return(t) ==
    /\ \/ call[t] \in Insertions /\ closed
       \/ call[t] = "try_push" /\ Full
       \/ call[t] \in Removals /\ queue = << >> /\ (call[t] = "wait_pop" => closed)
       \/ call[t] = "close" /\ closed
       \/ call[t] = "answered"
    /\ Becomes(t, "none")
    /\ UNCHANGED <<queue, closed, inserted, removed, failed>>

Close(t) ==
    /\ call[t] = "close" /\ ~closed
    /\ closed' = TRUE
    /\ Becomes(t, "answered")
    /\ UNCHANGED <<queue, inserted, removed, failed>>

Next ==
    \E t \in Threads :
        Begin(t) \/ Insert(t) \/ Remove(t) \/ Fail(t) \/ Return(t) \/ Close(t)

Spec == Init /\ [][Next]_vars
=============================================================================

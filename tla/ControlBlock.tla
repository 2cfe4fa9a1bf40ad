---------------------------- MODULE ControlBlock ----------------------------
(***************************************************************************)
(* The state of a SubscriptionControlBlock (src/core/runtime.cpp) and what *)
(* each of its critical sections does to it, as operators on a record, so  *)
(* that one subscription and a whole bus of them use the same definitions. *)
(* The counters of SubscriptionStats are kept apart (Tally): nothing the   *)
(* code does depends on them.                                              *)
(***************************************************************************)
EXTENDS Integers, Sequences

CONSTANTS
    queue_depth,        \* SubscriptionOptions
    overflow_policies,  \* the policies subscriptions are created with
    NoThread            \* the default-constructed std::thread::id

ASSUME QueueDepthAssumption == queue_depth \in Nat \ {0}
ASSUME OverflowPolicyAssumption == overflow_policies \subseteq {"DropOldest", "RejectNewest"}

NewBlocks ==
    [pending : {<< >>}, active : {TRUE}, scheduled : {FALSE}, in_flight : {0},
     callback_thread : {NoThread}, overflow_policy : overflow_policies]

NewTally ==
    [enqueued |-> 0, delivered |-> 0, dropped_oldest |-> 0, rejected_newest |-> 0,
     executor_rejected |-> 0, callback_errors |-> 0]

\* Mutant: the mailbox is found full one message too late.
IsFull_off_by_one(b) == Len(b.pending) > queue_depth

IsFull(b) == Len(b.pending) >= queue_depth

-----------------------------------------------------------------------------
(* enqueue, first critical section: wanted says that the message is not a  *)
(* remote one for a local-only subscription.                               *)

Accepts(b, wanted) ==
    b.active /\ wanted /\ (IsFull(b) => b.overflow_policy = "DropOldest")

\* The message enters the mailbox, which is scheduled from now on.
Enqueued(b, m) ==
    [b EXCEPT !.pending = Append(IF IsFull(b) THEN Tail(@) ELSE @, m),
              !.scheduled = TRUE]

\* Mutant: every enqueue posts a drain.
MustSchedule_always(b) == TRUE

MustSchedule(b) == ~b.scheduled

\* The executor refused the drain task, or could not store it.
ExecutorRefused(b) == [b EXCEPT !.pending = << >>, !.scheduled = FALSE]

\* Mutant: cancel() empties the mailbox but leaves the subscription active.
Cancelled_still_active(b) == [b EXCEPT !.pending = << >>]

\* cancel()
Cancelled(b) == [b EXCEPT !.active = FALSE, !.pending = << >>]

-----------------------------------------------------------------------------
(* drain: the critical section before a callback and the one after it *)

DrainEnds(b) == ~b.active \/ b.pending = << >>

Drained(b) == [b EXCEPT !.pending = << >>, !.scheduled = FALSE]

CallbackBegun(b, thread) ==
    [b EXCEPT !.pending = Tail(@), !.in_flight = @ + 1, !.callback_thread = thread]

CallbackEnded(b) == [b EXCEPT !.in_flight = @ - 1, !.callback_thread = NoThread]

-----------------------------------------------------------------------------
BlockType(Messages, Thread) ==
    [pending : Seq(Messages), active : BOOLEAN, scheduled : BOOLEAN,
     in_flight : Nat, callback_thread : Thread \cup {NoThread},
     overflow_policy : overflow_policies]

TallyType ==
    [enqueued : Nat, delivered : Nat, dropped_oldest : Nat, rejected_newest : Nat,
     executor_rejected : Nat, callback_errors : Nat]
=============================================================================

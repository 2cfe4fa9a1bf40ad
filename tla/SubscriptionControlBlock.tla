---------------------- MODULE SubscriptionControlBlock ----------------------
(***************************************************************************)
(* One SubscriptionControlBlock (src/core/runtime.cpp) used by publishers, *)
(* cancelling threads and the workers of an executor.  Every critical      *)
(* section is a step; execute(), the user's callback and the wait on the   *)
(* condition variable idle happen outside them.                            *)
(*                                                                         *)
(* The executor appears through its contract (ThreadPool): an accepted     *)
(* drain task is eventually run by a worker; after shutdown has begun,     *)
(* execute() returns false; it may also throw.  A callback may call        *)
(* publish, cancel or cancel_and_wait on its own subscription.             *)
(***************************************************************************)
EXTENDS ControlBlock, FiniteSets

CONSTANTS
    Clients,            \* threads that publish and cancel
    Workers,            \* executor workers
    receive_remote,     \* SubscriptionOptions
    MaxMessages         \* bound: enqueue calls

ASSUME ThreadsAssumption ==
    IsFiniteSet(Clients) /\ IsFiniteSet(Workers) /\ Clients \cap Workers = {}
      /\ NoThread \notin Workers
ASSUME ReceiveRemoteAssumption == receive_remote \in BOOLEAN
ASSUME MaxMessagesAssumption == MaxMessages \in Nat

Threads == Clients \cup Workers
Messages == 1..MaxMessages

VARIABLES
    block,          \* the control block
    tally,          \* its counters
    pc,             \* of each worker: "free", "drain" or "callback"
    call,           \* the call a thread is in: "none" while in user code
    message,        \* the message a worker's drain has popped
    drains,         \* drain tasks queued in the executor
    executorOpen,
    offered,        \* enqueue calls so far; numbers the messages
    discarded,      \* history: messages thrown away by a cancellation
    begun,          \* history: the messages whose callback has begun, in order
    quiesced        \* history: some cancel_and_wait has returned normally

vars == <<block, tally, pc, call, message, drains, executorOpen, offered,
          discarded, begun, quiesced>>

Init ==
    /\ block \in NewBlocks
    /\ tally = NewTally
    /\ pc = [w \in Workers |-> "free"]
    /\ call = [t \in Threads |-> "none"]
    /\ message = [w \in Workers |-> 0]
    /\ drains = 0
    /\ executorOpen = TRUE
    /\ offered = 0
    /\ discarded = 0
    /\ begun = << >>
    /\ quiesced = FALSE

\* User code runs on a client, or on a worker inside the callback.
CanCall(t) == call[t] = "none" /\ (t \in Workers => pc[t] = "callback")

\* notify_all on idle: the sleeping threads evaluate their predicate again.
NotifyIdle(c) == [u \in Threads |-> IF c[u] = "await_idle" THEN "check_idle" ELSE c[u]]

-----------------------------------------------------------------------------
(* enqueue *)

Enqueue(t) ==
    /\ CanCall(t)
    /\ offered < MaxMessages
    /\ offered' = offered + 1
    /\ \E is_remote \in BOOLEAN :
          LET wanted == is_remote => receive_remote IN
          \/ /\ Accepts(block, wanted)
             /\ block' = Enqueued(block, offered + 1)
             /\ tally' = [tally EXCEPT !.enqueued = @ + 1,
                                       !.dropped_oldest = @ + (IF IsFull(block) THEN 1 ELSE 0)]
             /\ call' = [call EXCEPT ![t] = IF MustSchedule(block) THEN "post" ELSE "none"]
          \/ /\ ~Accepts(block, wanted)
             /\ tally' = [tally EXCEPT !.rejected_newest =
                             @ + (IF block.active /\ wanted THEN 1 ELSE 0)]
             /\ UNCHANGED <<block, call>>
    /\ UNCHANGED <<pc, message, drains, executorOpen, discarded, begun, quiesced>>

\* executor->execute(drain), outside the mutex.
Execute(t) ==
    /\ call[t] = "post"
    /\ \/ /\ executorOpen
          /\ drains' = drains + 1
          /\ call' = [call EXCEPT ![t] = "none"]
       \/ /\ call' = [call EXCEPT ![t] = "refused"]
          /\ UNCHANGED drains
    /\ UNCHANGED <<block, tally, pc, message, executorOpen, offered, discarded,
                   begun, quiesced>>

\* Mutant: only the publisher's own message is taken back.
Refused_one_message(t) ==
    /\ call[t] = "refused"
    /\ tally' = [tally EXCEPT !.executor_rejected = @ + 1]
    /\ block' = ExecutorRefused(block)
    /\ call' = NotifyIdle([call EXCEPT ![t] = "none"])
    /\ UNCHANGED <<pc, message, drains, executorOpen, offered, discarded, begun,
                   quiesced>>

\* Not posted: whatever is in the mailbox by now is given up.
Refused(t) ==
    /\ call[t] = "refused"
    /\ tally' = [tally EXCEPT !.executor_rejected = @ + Len(block.pending)]
    /\ block' = ExecutorRefused(block)
    /\ call' = NotifyIdle([call EXCEPT ![t] = "none"])
    /\ UNCHANGED <<pc, message, drains, executorOpen, offered, discarded, begun,
                   quiesced>>

-----------------------------------------------------------------------------
(* cancel and cancel_and_wait *)

Cancel(t) ==
    /\ CanCall(t)
    /\ \E next \in {"none", "check_self"} :      \* cancel or cancel_and_wait
          call' = NotifyIdle([call EXCEPT ![t] = next])
    /\ block' = Cancelled(block)
    /\ discarded' = discarded + Len(block.pending)
    /\ UNCHANGED <<tally, pc, message, drains, executorOpen, offered, begun, quiesced>>

\* Mutant: the callback's own thread is let wait for itself.
CheckSelf_unchecked(t) ==
    /\ call[t] = "check_self"
    /\ call' = [call EXCEPT ![t] = "check_idle"]
    /\ UNCHANGED <<block, tally, pc, message, drains, executorOpen, offered,
                   discarded, begun, quiesced>>

\* The wait: refused to the thread that runs the callback.
CheckSelf(t) ==
    /\ call[t] = "check_self"
    /\ call' = [call EXCEPT ![t] =
                  IF block.in_flight # 0 /\ block.callback_thread = t
                  THEN "none" ELSE "check_idle"]
    /\ UNCHANGED <<block, tally, pc, message, drains, executorOpen, offered,
                   discarded, begun, quiesced>>

\* Mutant: the wait ends when the mailbox is empty.
CheckIdle_mailbox_empty(t) ==
    /\ call[t] = "check_idle"
    /\ call' = [call EXCEPT ![t] = "none"]
    /\ quiesced' = TRUE
    /\ block.pending = << >>
    /\ UNCHANGED <<block, tally, pc, message, drains, executorOpen, offered,
                   discarded, begun>>

CheckIdle(t) ==
    /\ call[t] = "check_idle"
    /\ \/ /\ block.in_flight = 0
          /\ call' = [call EXCEPT ![t] = "none"]
          /\ quiesced' = TRUE
       \/ /\ block.in_flight # 0
          /\ call' = [call EXCEPT ![t] = "await_idle"]
          /\ UNCHANGED quiesced
    /\ UNCHANGED <<block, tally, pc, message, drains, executorOpen, offered,
                   discarded, begun>>

-----------------------------------------------------------------------------
(* The executor and drain *)

CloseExecutor ==
    /\ executorOpen
    /\ executorOpen' = FALSE
    /\ UNCHANGED <<block, tally, pc, call, message, drains, offered, discarded,
                   begun, quiesced>>

TakeDrain(w) ==
    /\ pc[w] = "free"
    /\ drains > 0
    /\ drains' = drains - 1
    /\ pc' = [pc EXCEPT ![w] = "drain"]
    /\ UNCHANGED <<block, tally, call, message, executorOpen, offered, discarded,
                   begun, quiesced>>

DrainEnd(w) ==
    /\ pc[w] = "drain"
    /\ DrainEnds(block)
    /\ block' = Drained(block)
    /\ discarded' = discarded + Len(block.pending)
    /\ pc' = [pc EXCEPT ![w] = "free"]
    /\ call' = NotifyIdle(call)
    /\ UNCHANGED <<tally, message, drains, executorOpen, offered, begun, quiesced>>

BeginCallback(w) ==
    /\ pc[w] = "drain"
    /\ ~DrainEnds(block)
    /\ message' = [message EXCEPT ![w] = Head(block.pending)]
    /\ begun' = Append(begun, Head(block.pending))
    /\ block' = CallbackBegun(block, w)
    /\ pc' = [pc EXCEPT ![w] = "callback"]
    /\ UNCHANGED <<tally, call, drains, executorOpen, offered, discarded, quiesced>>

EndCallback(w) ==
    /\ pc[w] = "callback" /\ call[w] = "none"
    /\ \E callback_failed \in BOOLEAN :
          tally' = [tally EXCEPT !.delivered = @ + 1,
                                 !.callback_errors = @ + (IF callback_failed THEN 1 ELSE 0)]
    /\ block' = CallbackEnded(block)
    /\ message' = [message EXCEPT ![w] = 0]
    /\ pc' = [pc EXCEPT ![w] = "drain"]
    /\ call' = NotifyIdle(call)
    /\ UNCHANGED <<drains, executorOpen, offered, discarded, begun, quiesced>>

-----------------------------------------------------------------------------
\* What a thread does by itself once it is inside a call.
CallStep(t) == Execute(t) \/ Refused(t) \/ CheckSelf(t) \/ CheckIdle(t)
WorkerStep(w) == TakeDrain(w) \/ DrainEnd(w) \/ BeginCallback(w)

Next ==
    \/ \E t \in Threads : Enqueue(t) \/ Cancel(t) \/ CallStep(t)
    \/ \E w \in Workers : WorkerStep(w) \/ EndCallback(w)
    \/ CloseExecutor

Spec == Init /\ [][Next]_vars

(***************************************************************************)
(* Fairness: calls in progress and workers keep running; callbacks end     *)
(* (strongly fair, because they may call into the middleware meanwhile).   *)
(* Execute(t) may refuse for ever only by throwing, which fairness does    *)
(* not exclude.                                                            *)
(***************************************************************************)
FairSpec ==
    /\ Spec
    /\ \A t \in Threads : WF_vars(CallStep(t))
    /\ WF_vars(\E w \in Workers : WorkerStep(w))
    /\ \A w \in Workers : SF_vars(EndCallback(w))

-----------------------------------------------------------------------------
TypeOK ==
    /\ block \in BlockType(Nat, Workers)
    /\ tally \in TallyType
    /\ pc \in [Workers -> {"free", "drain", "callback"}]
    /\ call \in [Threads -> {"none", "post", "refused", "check_self", "check_idle",
                             "await_idle"}]
    /\ message \in [Workers -> Nat]
    /\ drains \in Nat
    /\ executorOpen \in BOOLEAN
    /\ offered \in Nat
    /\ discarded \in Nat
    /\ begun \in Seq(Nat)
    /\ quiesced \in BOOLEAN

Draining == {w \in Workers : pc[w] # "free"}
Posting == {t \in Threads : call[t] \in {"post", "refused"}}

(***************************************************************************)
(* scheduled stands for exactly one drain: being posted, queued in the     *)
(* executor or running.  Never two, so callbacks are serial; never none,   *)
(* so no message is left in a mailbox nobody will drain.                   *)
(***************************************************************************)
OneDrain ==
    /\ drains + Cardinality(Draining) + Cardinality(Posting)
          = IF block.scheduled THEN 1 ELSE 0
    /\ block.pending # << >> => block.active /\ block.scheduled

(***************************************************************************)
(* There is one drain at a time, with nothing stranded in the mailbox; the *)
(* callback of one subscription never runs on two workers, in_flight       *)
(* and callback_thread describe the run in progress, and messages reach    *)
(* the callback in the order they were published.                          *)
(***************************************************************************)
SerialCallbacks ==
    /\ OneDrain
    /\ \A v, w \in Workers : pc[v] = "callback" /\ pc[w] = "callback" => v = w
    /\ block.in_flight = Cardinality({w \in Workers : pc[w] = "callback"})
    /\ \A w \in Workers : pc[w] = "callback" <=> block.callback_thread = w
    /\ \A i, j \in DOMAIN (begun \o block.pending) :
          i < j => (begun \o block.pending)[i] < (begun \o block.pending)[j]

(***************************************************************************)
(* Every message taken into the mailbox is accounted for exactly once in   *)
(* the statistics: delivered, running, waiting, dropped, refused by the    *)
(* executor or discarded by a cancellation.                                *)
(***************************************************************************)
Conservation ==
    tally.enqueued = tally.delivered + block.in_flight + Len(block.pending)
                       + tally.dropped_oldest + tally.executor_rejected + discarded

(***************************************************************************)
(* Once some cancel_and_wait has returned, no callback runs, now or later. *)
(***************************************************************************)
QuietAfterCancelAndWait ==
    quiesced => block.in_flight = 0 /\ \A w \in Workers : pc[w] # "callback"

(***************************************************************************)
(* cancel_and_wait returns once the callback does, and is refused, not     *)
(* blocked, inside the subscription's own callback.                        *)
(***************************************************************************)
CancelAndWaitReturns ==
    \A t \in Threads :
       call[t] \in {"check_self", "check_idle", "await_idle"} ~> call[t] = "none"

-----------------------------------------------------------------------------
\* What the subscription promises: see Mailbox.
running == {message[w] : w \in {v \in Workers : pc[v] = "callback"}}

Promise == INSTANCE Mailbox WITH box <- block.pending, open <- block.active,
                                 depth <- queue_depth, policy <- block.overflow_policy

(***************************************************************************)
(* The scheduling protocol (scheduled flag, drain tasks, executor) is      *)
(* invisible: a subscription is a bounded mailbox whose oldest message is  *)
(* handed to a serial callback, always eventually while it stays open.     *)
(***************************************************************************)
ImplementsMailbox == Promise!FairSpec
=============================================================================

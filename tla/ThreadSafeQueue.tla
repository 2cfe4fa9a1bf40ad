-------------------------- MODULE ThreadSafeQueue --------------------------
(***************************************************************************)
(* ThreadSafeQueue<T> (include/robot_middleware/core/thread_safe_queue.hpp) *)
(* a closable multi-producer, multi-consumer FIFO built from one mutex and *)
(* two condition variables.                                                *)
(*                                                                         *)
(* Every critical section of the code is one step.  What the code does     *)
(* outside the mutex is a step of its own: notify_one() and notify_all()   *)
(* run after the unlock, so any other thread can run between a change of   *)
(* the queue and its notification.  A thread blocked in wait() is in the   *)
(* wait set of its condition variable (pc "await_...") until a             *)
(* notification, a timeout or a spurious wakeup sends it back to evaluate  *)
(* its predicate.                                                          *)
(***************************************************************************)
EXTENDS Integers, Sequences, FiniteSets

CONSTANTS
    Threads,    \* the threads that use the queue, each in any role
    capacity,   \* capacity_: 0 means unbounded
    MaxPush,    \* bound: values each thread may push
    MaxThrows   \* bound: calls that end in an exception

ASSUME ThreadsAssumption == IsFiniteSet(Threads)
ASSUME CapacityAssumption == capacity \in Nat
ASSUME MaxPushAssumption == MaxPush \in [Threads -> Nat]
ASSUME MaxThrowsAssumption == MaxThrows \in Nat

VARIABLES
    queue_,     \* the stored values
    closed_,
    pc,         \* what each thread is about to do, or where it sleeps
    sent,       \* values of each thread accepted so far
    taken,      \* history: every value handed to a consumer, in order
    push_throws, pop_throws     \* history: insertions and removals that threw

thrown == <<push_throws, pop_throws>>

vars == <<queue_, closed_, pc, sent, taken, thrown>>

\* A value is told apart by who pushed it and in which position.
Values == Threads \X Nat

Calls == {"push", "try_push", "try_pop", "wait_pop", "wait_pop_for", "close"}

\* Threads asleep in not_empty_.wait / wait_for, and in not_full_.wait.
AwaitNotEmpty == {"await_pop", "await_pop_for"}
AwaitNotFull == {"await_push"}

\* Threads that own a value or free place and still have to notify.
PCs == Calls \cup AwaitNotEmpty \cup AwaitNotFull \cup
       {"idle", "timed_out", "notify_not_empty", "notify_not_full",
        "close_not_empty", "close_not_full"}

At(labels) == {t \in Threads : pc[t] \in labels}

full_locked == capacity # 0 /\ Len(queue_) >= capacity

Init ==
    /\ queue_ = << >>
    /\ closed_ = FALSE
    /\ pc = [t \in Threads |-> "idle"]
    /\ sent = [t \in Threads |-> 0]
    /\ taken = << >>
    /\ push_throws = 0 /\ pop_throws = 0

Goto(t, label) == pc' = [pc EXCEPT ![t] = label]

\* A client thread calls one of the operations.
Call(t) ==
    /\ pc[t] = "idle"
    /\ \E op \in Calls :
          /\ op \in {"push", "try_push"} => sent[t] < MaxPush[t]
          /\ Goto(t, op)
    /\ UNCHANGED <<queue_, closed_, sent, taken, thrown>>

\* emplace_back, then unlock; the notification is still to come.
EmplaceBack(t) ==
    /\ queue_' = Append(queue_, <<t, sent[t]>>)
    /\ sent' = [sent EXCEPT ![t] = @ + 1]
    /\ Goto(t, "notify_not_empty")
    /\ UNCHANGED <<closed_, taken, thrown>>

\* The emplace_back throws: the queue is as before and the exception leaves
\* the call before its notification, even if the thread was itself woken.
EmplaceThrows(t) ==
    /\ push_throws + pop_throws < MaxThrows
    /\ push_throws' = push_throws + 1
    /\ Goto(t, "idle")
    /\ UNCHANGED <<queue_, closed_, sent, taken, pop_throws>>

\* Mutants: the value is read after it was moved from; the newest value is
\* taken; the pop returns without its notify_one.
PopFront_moved_from(t) ==
    /\ queue_' = Tail(queue_)
    /\ taken' = Append(taken, << >>)
    /\ Goto(t, "notify_not_full")
    /\ UNCHANGED <<closed_, sent, thrown>>

PopFront_newest(t) ==
    /\ queue_' = SubSeq(queue_, 1, Len(queue_) - 1)
    /\ taken' = Append(taken, queue_[Len(queue_)])
    /\ Goto(t, "notify_not_full")
    /\ UNCHANGED <<closed_, sent, thrown>>

PopFront_no_notify(t) ==
    /\ queue_' = Tail(queue_)
    /\ taken' = Append(taken, Head(queue_))
    /\ Goto(t, "idle")
    /\ UNCHANGED <<closed_, sent, thrown>>

\* front and pop_front, then unlock; the notification is still to come.
PopFront(t) ==
    /\ queue_' = Tail(queue_)
    /\ taken' = Append(taken, Head(queue_))
    /\ Goto(t, "notify_not_full")
    /\ UNCHANGED <<closed_, sent, thrown>>

\* Moving the front value out throws: it stays in the queue, and the
\* exception leaves the call without the value and without a notification.
PopThrows(t) ==
    /\ push_throws + pop_throws < MaxThrows
    /\ pop_throws' = pop_throws + 1
    /\ Goto(t, "idle")
    /\ UNCHANGED <<queue_, closed_, sent, taken, push_throws>>

Return(t) == Goto(t, "idle") /\ UNCHANGED <<queue_, closed_, sent, taken, thrown>>

Sleep(t, label) == Goto(t, label) /\ UNCHANGED <<queue_, closed_, sent, taken, thrown>>

\* push and emplace: wait until closed or not full, then append or give up.
Push(t) ==
    /\ pc[t] = "push"
    /\ \/ closed_ /\ Return(t)
       \/ ~closed_ /\ full_locked /\ Sleep(t, "await_push")
       \/ ~closed_ /\ ~full_locked /\ (EmplaceBack(t) \/ EmplaceThrows(t))

\* try_push and try_emplace: never wait.
TryPush(t) ==
    /\ pc[t] = "try_push"
    /\ \/ (closed_ \/ full_locked) /\ Return(t)
       \/ ~closed_ /\ ~full_locked /\ (EmplaceBack(t) \/ EmplaceThrows(t))

\* try_pop: never waits, and still drains a closed queue.
TryPop(t) ==
    /\ pc[t] = "try_pop"
    /\ \/ queue_ = << >> /\ Return(t)
       \/ queue_ # << >> /\ (PopFront(t) \/ PopThrows(t))

\* wait_pop: wait until closed or not empty; empty then means closed.
WaitPop(t) ==
    /\ pc[t] = "wait_pop"
    /\ \/ queue_ = << >> /\ closed_ /\ Return(t)
       \/ queue_ = << >> /\ ~closed_ /\ Sleep(t, "await_pop")
       \/ queue_ # << >> /\ (PopFront(t) \/ PopThrows(t))

\* Mutant: after the deadline the call gives up whatever has arrived.
WaitPopFor_gives_up(t) ==
    \/ /\ pc[t] = "wait_pop_for"
       /\ queue_ = << >> /\ ~closed_ /\ Sleep(t, "await_pop_for")
    \/ /\ pc[t] = "wait_pop_for"
       /\ queue_ = << >> /\ closed_ /\ Return(t)
    \/ /\ pc[t] = "wait_pop_for"
       /\ queue_ # << >> /\ (PopFront(t) \/ PopThrows(t))
    \/ /\ pc[t] = "timed_out"
       /\ Return(t)

\* wait_pop_for: the same with a deadline; after the deadline the predicate
\* is evaluated once more and the call returns whatever it says.
WaitPopFor(t) ==
    /\ \/ /\ pc[t] = "wait_pop_for"
          /\ queue_ = << >> /\ ~closed_ /\ Sleep(t, "await_pop_for")
       \/ /\ pc[t] = "wait_pop_for"
          /\ queue_ = << >> /\ closed_ /\ Return(t)
       \/ /\ pc[t] = "timed_out"
          /\ queue_ = << >> /\ Return(t)
       \/ /\ pc[t] \in {"wait_pop_for", "timed_out"}
          /\ queue_ # << >> /\ (PopFront(t) \/ PopThrows(t))

\* The deadline of wait_for passes while the thread sleeps.
Timeout(t) ==
    /\ pc[t] = "await_pop_for"
    /\ Sleep(t, "timed_out")

\* Where a sleeping thread resumes: it evaluates its predicate again.
Resume(label) ==
    IF label = "await_push" THEN "push"
    ELSE IF label = "await_pop" THEN "wait_pop" ELSE "wait_pop_for"

\* notify_one(): one thread of the wait set, if any, resumes.
NotifyOne(t, awaiting) ==
    \/ /\ At(awaiting) = {}
       /\ Goto(t, "idle")
    \/ \E w \in At(awaiting) :
          pc' = [pc EXCEPT ![t] = "idle", ![w] = Resume(@)]

NotifyNotEmpty(t) ==
    /\ pc[t] = "notify_not_empty"
    /\ NotifyOne(t, AwaitNotEmpty)
    /\ UNCHANGED <<queue_, closed_, sent, taken, thrown>>

NotifyNotFull(t) ==
    /\ pc[t] = "notify_not_full"
    /\ NotifyOne(t, AwaitNotFull)
    /\ UNCHANGED <<queue_, closed_, sent, taken, thrown>>

\* close(): only the first call changes anything and notifies.
Close(t) ==
    /\ pc[t] = "close"
    /\ \/ closed_ /\ Return(t)
       \/ /\ ~closed_
          /\ closed_' = TRUE
          /\ Goto(t, "close_not_empty")
          /\ UNCHANGED <<queue_, sent, taken, thrown>>

\* notify_all(): the whole wait set resumes.
NotifyAll(t, awaiting, next) ==
    /\ pc' = [u \in Threads |-> IF u = t THEN next
                                ELSE IF pc[u] \in awaiting THEN Resume(pc[u])
                                ELSE pc[u]]
    /\ UNCHANGED <<queue_, closed_, sent, taken, thrown>>

\* Mutant: close() notifies the consumers only.
CloseNotifyNotEmpty_only(t) ==
    /\ pc[t] = "close_not_empty"
    /\ NotifyAll(t, AwaitNotEmpty, "idle")

CloseNotifyNotEmpty(t) ==
    /\ pc[t] = "close_not_empty"
    /\ NotifyAll(t, AwaitNotEmpty, "close_not_full")

CloseNotifyNotFull(t) ==
    /\ pc[t] = "close_not_full"
    /\ NotifyAll(t, AwaitNotFull, "idle")

\* condition_variable::wait may return without a notification.
SpuriousWakeup(t) ==
    /\ pc[t] \in AwaitNotEmpty \cup AwaitNotFull
    /\ Sleep(t, Resume(pc[t]))

\* What a thread does by itself once it is inside an operation.
Step(t) ==
    \/ Push(t) \/ TryPush(t)
    \/ TryPop(t) \/ WaitPop(t) \/ WaitPopFor(t)
    \/ NotifyNotEmpty(t) \/ NotifyNotFull(t)
    \/ Close(t) \/ CloseNotifyNotEmpty(t) \/ CloseNotifyNotFull(t)

Next == \E t \in Threads : Call(t) \/ Step(t) \/ Timeout(t) \/ SpuriousWakeup(t)

Spec == Init /\ [][Next]_vars

(***************************************************************************)
(* Fairness: a thread inside an operation keeps running.  Nothing is       *)
(* assumed of callers, of timeouts or of spurious wakeups.                 *)
(***************************************************************************)
FairSpec == Spec /\ \A t \in Threads : WF_vars(Step(t))

-----------------------------------------------------------------------------
TypeOK ==
    /\ queue_ \in Seq(Values)
    /\ closed_ \in BOOLEAN
    /\ pc \in [Threads -> PCs]
    /\ sent \in [Threads -> Nat]
    /\ taken \in Seq(Values)
    /\ push_throws \in Nat /\ pop_throws \in Nat

(***************************************************************************)
(* A bounded queue never holds more than capacity_ values, whichever of    *)
(* the blocking and non-blocking insertions race.                          *)
(***************************************************************************)
CapacityBound == capacity # 0 => Len(queue_) <= capacity

\* Threads that will look at the queue again without being notified, and
\* threads whose notify_one is still to come.
PopComing == {"wait_pop", "wait_pop_for", "timed_out", "notify_not_empty"}
PushComing == {"push", "notify_not_full"}

(***************************************************************************)
(* A wakeup is lost only by a call that throws, and then only its own,     *)
(* although every notification follows the unlock: while a consumer sleeps *)
(* on an open queue, each stored value is matched by a thread that will    *)
(* take it, by one that still has to notify, or by a removal that threw;   *)
(* the same for sleeping producers, free places and insertions; and once   *)
(* the queue is closed, a thread still asleep is one the closing thread is *)
(* about to notify.                                                        *)
(***************************************************************************)
NoLostWakeup ==
    /\ At(AwaitNotEmpty) # {} =>
          IF closed_ THEN At({"close_not_empty"}) # {}
                     ELSE Len(queue_) <= Cardinality(At(PopComing)) + pop_throws
    /\ At(AwaitNotFull) # {} =>
          IF closed_ THEN At({"close_not_empty", "close_not_full"}) # {}
                     ELSE capacity - Len(queue_) <= Cardinality(At(PushComing)) + push_throws

\* Every accepted value, the ones taken first and then the stored ones.
flow == taken \o queue_

(***************************************************************************)
(* FIFO and exactly once: the values of one producer reach the consumers,  *)
(* whichever thread pops them, without gap, repetition or reordering, and  *)
(* those not taken yet are in the queue.                                   *)
(***************************************************************************)
FifoExactlyOnce ==
    /\ \A t \in Threads : \A k \in 0..(sent[t] - 1) :
          \E i \in DOMAIN flow : flow[i] = <<t, k>>
    /\ \A i \in DOMAIN flow : flow[i][2] < sent[flow[i][1]]
    /\ \A i, j \in DOMAIN flow :
          i < j /\ flow[i][1] = flow[j][1] => flow[i][2] < flow[j][2]

\* The call a caller knows of, whether its thread runs, sleeps or notifies.
CallAt(label) ==
    CASE label = "idle" -> "none"
      [] label = "await_push" -> "push"
      [] label = "await_pop" -> "wait_pop"
      [] label \in {"await_pop_for", "timed_out"} -> "wait_pop_for"
      [] label \in Calls -> label
      [] OTHER -> "answered"

call == [t \in Threads |-> CallAt(pc[t])]

Promise == INSTANCE ClosableQueue WITH
    queue <- queue_, closed <- closed_, inserted <- sent, removed <- taken,
    failed <- push_throws + pop_throws

(***************************************************************************)
(* With its sleeping, waking and late notifications the queue is the       *)
(* closable bounded FIFO that its callers, the executor among them, count  *)
(* on: each call takes effect in one of its critical sections, or throws   *)
(* where it would have and leaves no trace.                                *)
(***************************************************************************)
ImplementsQueue == Promise!Spec

(***************************************************************************)
(* close() releases everybody: after it no thread stays in an operation,   *)
(* neither producers blocked on a full queue nor consumers on an empty one.*)
(***************************************************************************)
CloseReleases == \A t \in Threads : []<>(closed_ => pc[t] = "idle")

(***************************************************************************)
(* A stored value and a sleeping consumer do not stay together for ever,   *)
(* nor do a free place and a sleeping producer, except for one value per   *)
(* removal, and one place per insertion, that threw: such a call may have  *)
(* been the only one notified of it.                                       *)
(***************************************************************************)
NoStarvedWaiter ==
    /\ []<>(Len(queue_) <= pop_throws \/ At(AwaitNotEmpty) = {})
    /\ []<>(capacity - Len(queue_) <= push_throws \/ At(AwaitNotFull) = {})

(***************************************************************************)
(* No thread sleeps for ever that close(), or a state of the queue it is   *)
(* waiting for, should have woken.                                         *)
(***************************************************************************)
WaitersReleased == CloseReleases /\ NoStarvedWaiter
=============================================================================

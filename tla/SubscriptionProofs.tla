------------------------- MODULE SubscriptionProofs -------------------------
(***************************************************************************)
(* Machine-checked proofs about SubscriptionControlBlock, for every finite *)
(* set of clients and workers, every queue depth, both overflow policies   *)
(* and any number of messages.                                             *)
(***************************************************************************)
EXTENDS SubscriptionControlBlock, FiniteSetTheorems, SequenceTheorems, TLAPS

\* The drain that scheduled stands for, by where it is: being posted by a
\* thread, queued in the executor, or running on a worker.
DrainPlace ==
  \/ ~block.scheduled /\ drains = 0 /\ Draining = {} /\ Posting = {}
  \/ block.scheduled /\ drains = 1 /\ Draining = {} /\ Posting = {}
  \/ block.scheduled /\ drains = 0 /\ Posting = {} /\ \E w \in Workers : Draining = {w}
  \/ block.scheduled /\ drains = 0 /\ Draining = {} /\ \E t \in Threads : Posting = {t}

NotStranded == block.pending # << >> => block.active /\ block.scheduled

\* in_flight and callback_thread describe the callback that runs.
InFlight ==
  \/ /\ block.in_flight = 0 /\ block.callback_thread = NoThread
     /\ \A w \in Workers : pc[w] # "callback"
  \/ /\ block.in_flight = 1 /\ block.callback_thread \in Workers
     /\ \A w \in Workers : pc[w] = "callback" <=> w = block.callback_thread

\* Messages are numbered as they are offered, begun and kept in that order.
Ordered ==
  /\ \A i \in 1..Len(begun) : begun[i] <= offered
  /\ \A i \in 1..Len(block.pending) : block.pending[i] <= offered
  /\ \A i, j \in 1..Len(begun) : i < j => begun[i] < begun[j]
  /\ \A i, j \in 1..Len(block.pending) : i < j => block.pending[i] < block.pending[j]
  /\ \A i \in 1..Len(begun), j \in 1..Len(block.pending) : begun[i] < block.pending[j]

DepthBound == Len(block.pending) <= queue_depth /\ offered <= MaxMessages

\* A thread that waits has cancelled; what has quiesced is cancelled and idle.
Waiting ==
  /\ \A t \in Threads : call[t] \in {"check_self", "check_idle", "await_idle"}
                          => ~block.active
  /\ quiesced => ~block.active /\ block.in_flight = 0

\* The inductive invariant.
BlockInv ==
  /\ TypeOK /\ DrainPlace /\ NotStranded /\ InFlight
  /\ Ordered /\ DepthBound /\ Waiting /\ Conservation

-----------------------------------------------------------------------------
Calls == {"none", "post", "refused", "check_self", "check_idle", "await_idle"}
Block == BlockType(Nat, Workers)

\* What notify_all on idle does to the calls in progress.
LEMMA NotifyIdleCalls ==
  ASSUME NEW c \in [Threads -> Calls]
  PROVE  /\ NotifyIdle(c) \in [Threads -> Calls]
         /\ \A t \in Threads : /\ NotifyIdle(c)[t] = "post" <=> c[t] = "post"
                               /\ NotifyIdle(c)[t] = "refused" <=> c[t] = "refused"
                               /\ NotifyIdle(c)[t] = "none" <=> c[t] = "none"
         /\ {t \in Threads : NotifyIdle(c)[t] \in {"post", "refused"}}
              = {t \in Threads : c[t] \in {"post", "refused"}}
  BY DEF NotifyIdle, Calls

\* The critical sections keep a block well typed.
LEMMA BlockOperations ==
  ASSUME NEW b \in Block
  PROVE  /\ \A m \in Nat : Enqueued(b, m) \in Block
         /\ ExecutorRefused(b) \in Block
         /\ Cancelled(b) \in Block
         /\ Drained(b) \in Block
         /\ ~DrainEnds(b) => \A w \in Workers : CallbackBegun(b, w) \in Block
         /\ b.in_flight > 0 => CallbackEnded(b) \in Block
<1> USE DEF Block, BlockType
<1>1. << >> \in Seq(Nat) /\ Len(b.pending) \in Nat
  OBVIOUS
<1>3. ASSUME NEW m \in Nat PROVE Enqueued(b, m) \in Block
  <2>1. Append(IF IsFull(b) THEN Tail(b.pending) ELSE b.pending, m) \in Seq(Nat)
    BY <1>1, QueueDepthAssumption DEF IsFull
  <2> QED BY <2>1, Zenon DEF Enqueued
<1>4. ExecutorRefused(b) \in Block /\ Cancelled(b) \in Block /\ Drained(b) \in Block
  BY <1>1, Zenon DEF ExecutorRefused, Cancelled, Drained
<1>5. ASSUME ~DrainEnds(b), NEW w \in Workers PROVE CallbackBegun(b, w) \in Block
  <2>1. Tail(b.pending) \in Seq(Nat) /\ b.in_flight + 1 \in Nat
    BY <1>5 DEF DrainEnds
  <2> QED BY <2>1, Zenon DEF CallbackBegun
<1>6. ASSUME b.in_flight > 0 PROVE CallbackEnded(b) \in Block
  <2>1. b.in_flight - 1 \in Nat
    BY <1>6
  <2> QED BY <2>1, Zenon DEF CallbackEnded
<1> QED BY <1>3, <1>4, <1>5, <1>6

\* What each critical section does to the fields that the proofs speak of.
LEMMA EnqueuedFields ==
  ASSUME NEW b \in Block, NEW m
  PROVE  /\ Enqueued(b, m).pending
              = Append(IF IsFull(b) THEN Tail(b.pending) ELSE b.pending, m)
         /\ Enqueued(b, m).scheduled
         /\ Enqueued(b, m).active = b.active
         /\ Enqueued(b, m).in_flight = b.in_flight
         /\ Enqueued(b, m).callback_thread = b.callback_thread
         /\ Enqueued(b, m).overflow_policy = b.overflow_policy
  BY DEF Block, BlockType, Enqueued

LEMMA BlockFields ==
  ASSUME NEW b \in Block
  PROVE  /\ \A e \in {ExecutorRefused(b), Drained(b)} :
               /\ e.pending = << >> /\ ~e.scheduled
               /\ e.active = b.active /\ e.in_flight = b.in_flight
               /\ e.callback_thread = b.callback_thread
               /\ e.overflow_policy = b.overflow_policy
         /\ LET e == Cancelled(b) IN
               /\ e.pending = << >> /\ ~e.active
               /\ e.scheduled = b.scheduled /\ e.in_flight = b.in_flight
               /\ e.callback_thread = b.callback_thread
               /\ e.overflow_policy = b.overflow_policy
         /\ \A w \in Workers : LET e == CallbackBegun(b, w) IN
               /\ e.pending = Tail(b.pending) /\ e.in_flight = b.in_flight + 1
               /\ e.callback_thread = w
               /\ e.active = b.active /\ e.scheduled = b.scheduled
               /\ e.overflow_policy = b.overflow_policy
         /\ LET e == CallbackEnded(b) IN
               /\ e.pending = b.pending /\ e.in_flight = b.in_flight - 1
               /\ e.callback_thread = NoThread
               /\ e.active = b.active /\ e.scheduled = b.scheduled
               /\ e.overflow_policy = b.overflow_policy
  BY DEF Block, BlockType, ExecutorRefused, Drained, Cancelled,
         CallbackBegun, CallbackEnded

-----------------------------------------------------------------------------
\* The counters stay numbers when some are raised.
LEMMA TallyUpdates ==
  ASSUME NEW y \in TallyType, NEW m \in Nat, NEW n \in Nat
  PROVE  /\ [y EXCEPT !.enqueued = m, !.dropped_oldest = n] \in TallyType
         /\ [y EXCEPT !.rejected_newest = m] \in TallyType
         /\ [y EXCEPT !.executor_rejected = m] \in TallyType
         /\ [y EXCEPT !.delivered = m, !.callback_errors = n] \in TallyType
  BY DEF TallyType

LEMMA TallyFields ==
  ASSUME NEW y \in TallyType
  PROVE  /\ y.enqueued \in Nat /\ y.dropped_oldest \in Nat /\ y.rejected_newest \in Nat
         /\ y.executor_rejected \in Nat /\ y.delivered \in Nat /\ y.callback_errors \in Nat
  BY DEF TallyType

LEMMA TypeInit == Init => TypeOK
<1> SUFFICES ASSUME Init PROVE TypeOK
  OBVIOUS
<1>1. << >> \in Seq(Nat)
  OBVIOUS
<1>2. block \in BlockType(Nat, Workers)
  <2>1. PICK p \in overflow_policies :
          block = [pending |-> << >>, active |-> TRUE, scheduled |-> FALSE,
                   in_flight |-> 0, callback_thread |-> NoThread, overflow_policy |-> p]
    BY DEF Init, NewBlocks
  <2> QED BY <1>1, <2>1 DEF BlockType
<1>3. tally \in TallyType
  BY DEF Init, NewTally, TallyType
<1>4. executorOpen \in BOOLEAN /\ quiesced \in BOOLEAN
  BY DEF Init
<1> QED BY <1>1, <1>2, <1>3, <1>4 DEF Init, TypeOK

LEMMA TypeStep ==
  ASSUME TypeOK, InFlight, [Next]_vars
  PROVE  TypeOK'
<1> USE DEF TypeOK
<1>1. block \in Block
  BY DEF Block
<1>2. call \in [Threads -> Calls]
  BY DEF Calls
<1>3. CASE UNCHANGED vars
  BY <1>3 DEF vars
<1>4. ASSUME NEW t \in Threads, Enqueue(t) PROVE TypeOK'
  <2>1. offered + 1 \in Nat /\ offered' = offered + 1
    BY <1>4 DEF Enqueue
  <2>2. block' \in BlockType(Nat, Workers)
    <3>1. block' = Enqueued(block, offered + 1) \/ block' = block
      BY <1>4 DEF Enqueue
    <3> QED BY <3>1, <1>1, <2>1, BlockOperations, Zenon DEF Block
  <2>3. tally' \in TallyType
    <3>1. PICK m \in Nat, n \in Nat :
            \/ tally' = [tally EXCEPT !.enqueued = m, !.dropped_oldest = n]
            \/ tally' = [tally EXCEPT !.rejected_newest = m]
      <4> DEFINE d == IF IsFull(block) THEN 1 ELSE 0
                 r(x) == IF block.active /\ x THEN 1 ELSE 0
      <4>1. /\ tally.enqueued + 1 \in Nat /\ tally.dropped_oldest + d \in Nat
            /\ \A x \in BOOLEAN : tally.rejected_newest + r(x) \in Nat
        BY TallyFields
      <4> QED BY <1>4, <4>1, Zenon DEF Enqueue
    <3>2. CASE tally' = [tally EXCEPT !.enqueued = m, !.dropped_oldest = n]
      BY <3>2, TallyUpdates, Zenon
    <3>3. CASE tally' = [tally EXCEPT !.rejected_newest = m]
      BY <3>3, TallyUpdates, Zenon
    <3> QED BY <3>1, <3>2, <3>3
  <2>4. call' \in [Threads -> Calls]
    BY <1>4, <1>2 DEF Enqueue, Calls
  <2> QED BY <1>4, <2>1, <2>2, <2>3, <2>4 DEF Enqueue, Calls
<1>5. ASSUME NEW t \in Threads, Cancel(t) PROVE TypeOK'
  <2>1. block' \in BlockType(Nat, Workers)
    BY <1>5, <1>1, BlockOperations DEF Cancel, Block
  <2>2. call' \in [Threads -> Calls]
    <3>1. PICK c \in [Threads -> Calls] : call' = NotifyIdle(c)
      BY <1>5, <1>2 DEF Cancel, Calls
    <3> QED BY <3>1, NotifyIdleCalls
  <2>3. discarded + Len(block.pending) \in Nat
    BY <1>1 DEF Block, BlockType
  <2> QED BY <1>5, <2>1, <2>2, <2>3 DEF Cancel, Calls
<1>6. ASSUME NEW t \in Threads, Execute(t) PROVE TypeOK'
  BY <1>6 DEF Execute
<1>7. ASSUME NEW t \in Threads, Refused(t) PROVE TypeOK'
  <2>1. block' \in BlockType(Nat, Workers)
    BY <1>7, <1>1, BlockOperations DEF Refused, Block
  <2>2. call' \in [Threads -> Calls]
    BY <1>7, <1>2, NotifyIdleCalls DEF Refused, Calls
  <2>3. Len(block.pending) \in Nat
    BY <1>1 DEF Block, BlockType
  <2>4. tally' \in TallyType
    <3>1. PICK m \in Nat : tally' = [tally EXCEPT !.executor_rejected = m]
      <4>1. tally.executor_rejected + Len(block.pending) \in Nat
        BY <2>3, TallyFields
      <4> QED BY <1>7, <4>1, Zenon DEF Refused
    <3> QED BY <3>1, TallyUpdates, Zenon
  <2> QED BY <1>7, <2>1, <2>2, <2>4 DEF Refused, Calls
<1>8. ASSUME NEW t \in Threads, CheckSelf(t) PROVE TypeOK'
  BY <1>8 DEF CheckSelf
<1>9. ASSUME NEW t \in Threads, CheckIdle(t) PROVE TypeOK'
  BY <1>9 DEF CheckIdle
<1>10. ASSUME NEW w \in Workers, TakeDrain(w) PROVE TypeOK'
  BY <1>10 DEF TakeDrain
<1>11. ASSUME NEW w \in Workers, DrainEnd(w) PROVE TypeOK'
  <2>1. block' \in BlockType(Nat, Workers)
    BY <1>11, <1>1, BlockOperations DEF DrainEnd, Block
  <2>2. call' \in [Threads -> Calls]
    BY <1>11, <1>2, NotifyIdleCalls DEF DrainEnd, Calls
  <2>3. discarded + Len(block.pending) \in Nat
    BY <1>1 DEF Block, BlockType
  <2> QED BY <1>11, <2>1, <2>2, <2>3 DEF DrainEnd, Calls
<1>12. ASSUME NEW w \in Workers, BeginCallback(w) PROVE TypeOK'
  <2>1. block' \in BlockType(Nat, Workers)
    BY <1>12, <1>1, BlockOperations DEF BeginCallback, Block
  <2>2. Head(block.pending) \in Nat
    BY <1>12, <1>1 DEF BeginCallback, DrainEnds, Block, BlockType
  <2> QED BY <1>12, <2>1, <2>2 DEF BeginCallback
<1>13. ASSUME NEW w \in Workers, EndCallback(w) PROVE TypeOK'
  <2>1. block.in_flight > 0
    BY <1>13 DEF EndCallback, InFlight
  <2>2. block' \in BlockType(Nat, Workers)
    BY <1>13, <1>1, <2>1, BlockOperations DEF EndCallback, Block
  <2>3. tally' \in TallyType
    <3>1. PICK m \in Nat, n \in Nat :
            tally' = [tally EXCEPT !.delivered = m, !.callback_errors = n]
      <4> DEFINE e(x) == IF x THEN 1 ELSE 0
      <4>1. /\ tally.delivered + 1 \in Nat
            /\ \A x \in BOOLEAN : tally.callback_errors + e(x) \in Nat
        BY TallyFields
      <4> QED BY <1>13, <4>1, Zenon DEF EndCallback
    <3> QED BY <3>1, TallyUpdates, Zenon
  <2>4. call' \in [Threads -> Calls]
    BY <1>13, <1>2, NotifyIdleCalls DEF EndCallback, Calls
  <2> QED BY <1>13, <2>2, <2>3, <2>4 DEF EndCallback, Calls
<1>14. CASE CloseExecutor
  BY <1>14 DEF CloseExecutor
<1> QED BY <1>3, <1>4, <1>5, <1>6, <1>7, <1>8, <1>9, <1>10, <1>11, <1>12, <1>13, <1>14
        DEF Next, CallStep, WorkerStep

-----------------------------------------------------------------------------
\* The drain moves from thread to executor to worker and is never doubled.
LEMMA PlaceStep ==
  ASSUME TypeOK, DrainPlace, NotStranded, InFlight, [Next]_vars
  PROVE  DrainPlace' /\ NotStranded' /\ InFlight'
<1> USE DEF TypeOK
<1>1. block \in Block
  BY DEF Block
<1>2. call \in [Threads -> Calls] /\ Workers \subseteq Threads
  BY DEF Calls, Threads
<1> USE DEF DrainPlace, NotStranded, InFlight, Draining, Posting
<1>3. CASE UNCHANGED vars
  BY <1>3 DEF vars
<1>4. ASSUME NEW t \in Threads, Enqueue(t)
      PROVE  DrainPlace' /\ NotStranded' /\ InFlight'
  <2>0. offered + 1 \in Nat /\ UNCHANGED <<drains, pc>> /\ call[t] = "none"
    BY <1>4 DEF Enqueue, CanCall
  <2>1. CASE UNCHANGED <<block, call>>
    BY <2>0, <2>1
  <2>2. ASSUME block.active, block' = Enqueued(block, offered + 1),
               call' = [call EXCEPT ![t] = IF MustSchedule(block) THEN "post" ELSE "none"]
        PROVE  DrainPlace' /\ NotStranded' /\ InFlight'
    <3>1. /\ block'.active = block.active /\ block'.scheduled
          /\ block'.in_flight = block.in_flight
          /\ block'.callback_thread = block.callback_thread
      BY <1>1, <2>2, EnqueuedFields
    <3>2. CASE block.scheduled
      <4>1. Posting' = Posting
        BY <2>0, <2>2, <3>2 DEF MustSchedule
      <4> QED BY <2>0, <2>2, <3>1, <3>2, <4>1
    <3>3. CASE ~block.scheduled
      <4>1. Posting' = {t}
        BY <2>0, <2>2, <3>3 DEF MustSchedule
      <4> QED BY <2>0, <2>2, <3>1, <3>3, <4>1
    <3> QED BY <3>2, <3>3
  <2> QED BY <1>4, <2>1, <2>2 DEF Enqueue, Accepts
<1>5. ASSUME NEW t \in Threads, Cancel(t)
      PROVE  DrainPlace' /\ NotStranded' /\ InFlight'
  <2>1. /\ block'.pending = << >> /\ block'.scheduled = block.scheduled
        /\ block'.in_flight = block.in_flight
        /\ block'.callback_thread = block.callback_thread
    BY <1>1, <1>5, BlockFields DEF Cancel
  <2>2. Posting' = Posting
    <3>1. PICK next \in {"none", "check_self"} :
             call' = NotifyIdle([call EXCEPT ![t] = next]) /\ call[t] = "none"
      BY <1>5 DEF Cancel, CanCall
    <3>2. [call EXCEPT ![t] = next] \in [Threads -> Calls]
      BY <1>2 DEF Calls
    <3>3. Posting' = {u \in Threads : [call EXCEPT ![t] = next][u] \in {"post", "refused"}}
      BY <3>1, <3>2, NotifyIdleCalls
    <3> QED BY <1>2, <3>1, <3>3
  <2> QED BY <1>5, <2>1, <2>2 DEF Cancel
<1>6. ASSUME NEW t \in Threads, Execute(t)
      PROVE  DrainPlace' /\ NotStranded' /\ InFlight'
  BY <1>6 DEF Execute
<1>7. ASSUME NEW t \in Threads, Refused(t)
      PROVE  DrainPlace' /\ NotStranded' /\ InFlight'
  <2>1. /\ block'.pending = << >> /\ ~block'.scheduled
        /\ block'.in_flight = block.in_flight
        /\ block'.callback_thread = block.callback_thread
    BY <1>1, <1>7, BlockFields DEF Refused
  <2>2. Posting = {t} /\ drains = 0 /\ Draining = {}
    BY <1>7 DEF Refused
  <2>3. Posting' = {}
    <3>1. [call EXCEPT ![t] = "none"] \in [Threads -> Calls]
      BY <1>2 DEF Calls
    <3>2. call' = NotifyIdle([call EXCEPT ![t] = "none"])
      BY <1>7 DEF Refused
    <3>3. Posting' = {u \in Threads : [call EXCEPT ![t] = "none"][u] \in {"post", "refused"}}
      BY <3>1, <3>2, NotifyIdleCalls
    <3> QED BY <1>2, <2>2, <3>3
  <2> QED BY <1>7, <2>1, <2>2, <2>3 DEF Refused
<1>8. ASSUME NEW t \in Threads, CheckSelf(t) \/ CheckIdle(t)
      PROVE  DrainPlace' /\ NotStranded' /\ InFlight'
  <2>1. Posting' = Posting /\ UNCHANGED <<block, pc, drains>>
    BY <1>8 DEF CheckSelf, CheckIdle
  <2> QED BY <2>1
<1>9. ASSUME NEW w \in Workers, TakeDrain(w)
      PROVE  DrainPlace' /\ NotStranded' /\ InFlight'
  <2>1. Draining = {} /\ drains' = 0 /\ block.scheduled /\ Posting = {}
    BY <1>9 DEF TakeDrain
  <2>2. Draining' = {w} /\ Posting' = {}
    BY <1>9, <2>1 DEF TakeDrain
  <2> QED BY <1>9, <2>1, <2>2 DEF TakeDrain
<1>10. ASSUME NEW w \in Workers, DrainEnd(w)
       PROVE  DrainPlace' /\ NotStranded' /\ InFlight'
  <2>1. /\ block'.pending = << >> /\ ~block'.scheduled
        /\ block'.in_flight = block.in_flight
        /\ block'.callback_thread = block.callback_thread
    BY <1>1, <1>10, BlockFields DEF DrainEnd
  <2>2. Draining = {w} /\ drains = 0 /\ Posting = {}
    BY <1>10 DEF DrainEnd
  <2>3. Draining' = {}
    BY <1>10, <2>2 DEF DrainEnd
  <2>4. Posting' = {}
    BY <1>2, <1>10, <2>2, NotifyIdleCalls DEF DrainEnd
  <2> QED BY <1>10, <2>1, <2>2, <2>3, <2>4 DEF DrainEnd
<1>11. ASSUME NEW w \in Workers, BeginCallback(w)
       PROVE  DrainPlace' /\ NotStranded' /\ InFlight'
  <2>1. /\ block'.active = block.active /\ block'.scheduled = block.scheduled
        /\ block'.in_flight = block.in_flight + 1 /\ block'.callback_thread = w
    BY <1>1, <1>11, BlockFields DEF BeginCallback
  <2>2. Draining = {w} /\ drains = 0 /\ Posting = {} /\ block.scheduled
    BY <1>11 DEF BeginCallback
  <2>3. Draining' = {w} /\ Posting' = {}
    BY <1>11, <2>2 DEF BeginCallback
  <2>4. block.in_flight = 0
    BY <1>11, <2>2 DEF BeginCallback
  <2>5. block.active
    BY <1>11 DEF BeginCallback, DrainEnds
  <2>6. \A v \in Workers : pc'[v] = "callback" <=> v = w
    BY <1>11, <2>2 DEF BeginCallback
  <2>7. DrainPlace'
    BY <1>11, <2>1, <2>2, <2>3 DEF BeginCallback
  <2>8. InFlight'
    BY <1>11, <2>1, <2>4, <2>6 DEF BeginCallback
  <2> QED BY <2>1, <2>2, <2>5, <2>7, <2>8
<1>12. ASSUME NEW w \in Workers, EndCallback(w)
       PROVE  DrainPlace' /\ NotStranded' /\ InFlight'
  <2>1. /\ block'.active = block.active /\ block'.scheduled = block.scheduled
        /\ block'.pending = block.pending
        /\ block'.in_flight = block.in_flight - 1 /\ block'.callback_thread = NoThread
    BY <1>1, <1>12, BlockFields DEF EndCallback
  <2>2. Draining = {w} /\ drains = 0 /\ Posting = {} /\ block.scheduled
    BY <1>12 DEF EndCallback
  <2>3. Draining' = {w}
    BY <1>12, <2>2 DEF EndCallback
  <2>4. Posting' = {}
    BY <1>2, <1>12, <2>2, NotifyIdleCalls DEF EndCallback
  <2>5. InFlight'
    BY <1>12, <2>1, <2>2 DEF EndCallback
  <2>6. DrainPlace'
    BY <1>12, <2>1, <2>2, <2>3, <2>4 DEF EndCallback
  <2> QED BY <2>1, <2>5, <2>6
<1>13. CASE CloseExecutor
  BY <1>13 DEF CloseExecutor
<1> QED BY <1>3, <1>4, <1>5, <1>6, <1>7, <1>8, <1>9, <1>10, <1>11, <1>12, <1>13
        DEF Next, CallStep, WorkerStep

-----------------------------------------------------------------------------
\* Ordered with its sequences as parameters.
InOrder(b, p, top) ==
  /\ \A i \in 1..Len(b) : b[i] <= top
  /\ \A i \in 1..Len(p) : p[i] <= top
  /\ \A i, j \in 1..Len(b) : i < j => b[i] < b[j]
  /\ \A i, j \in 1..Len(p) : i < j => p[i] < p[j]
  /\ \A i \in 1..Len(b), j \in 1..Len(p) : b[i] < p[j]

\* Forgetting the messages that wait, forgetting the oldest, taking a new one
\* and beginning the oldest keep the order.
LEMMA OrderEmptied ==
  ASSUME NEW b \in Seq(Nat), NEW p \in Seq(Nat), NEW top \in Nat, InOrder(b, p, top)
  PROVE  InOrder(b, << >>, top)
  BY DEF InOrder

LEMMA OrderTail ==
  ASSUME NEW b \in Seq(Nat), NEW p \in Seq(Nat), NEW top \in Nat, InOrder(b, p, top),
         p # << >>
  PROVE  InOrder(b, Tail(p), top)
<1>1. /\ Len(p) \in Nat /\ Len(Tail(p)) = Len(p) - 1 /\ Len(b) \in Nat
      /\ \A i \in 1..Len(Tail(p)) : Tail(p)[i] = p[i + 1]
  BY HeadTailProperties, LenProperties
<1>2. \A i \in 1..Len(Tail(p)) : i + 1 \in 1..Len(p)
  BY <1>1
<1> QED BY <1>1, <1>2 DEF InOrder

LEMMA OrderAppend ==
  ASSUME NEW b \in Seq(Nat), NEW p \in Seq(Nat), NEW top \in Nat, InOrder(b, p, top)
  PROVE  InOrder(b, Append(p, top + 1), top + 1)
<1> DEFINE q == Append(p, top + 1)
<1>1. /\ Len(p) \in Nat /\ Len(b) \in Nat /\ Len(q) = Len(p) + 1
      /\ \A i \in 1..Len(p) : q[i] = p[i]
      /\ q[Len(p) + 1] = top + 1
  BY AppendProperties, LenProperties
<1>2. /\ \A i \in 1..Len(b) : b[i] \in Nat
      /\ \A i \in 1..Len(p) : p[i] \in Nat
  BY ElementOfSeq
<1>3. \A i \in 1..Len(q) : i \in 1..Len(p) \/ i = Len(p) + 1
  BY <1>1
<1> HIDE DEF q
<1> QED BY <1>1, <1>2, <1>3 DEF InOrder

LEMMA OrderBegin ==
  ASSUME NEW b \in Seq(Nat), NEW p \in Seq(Nat), NEW top \in Nat, InOrder(b, p, top),
         p # << >>
  PROVE  InOrder(Append(b, Head(p)), Tail(p), top)
<1> DEFINE c == Append(b, Head(p))
           t == Tail(p)
<1>1. /\ Len(p) \in Nat /\ Len(p) > 0 /\ Len(t) = Len(p) - 1 /\ Len(b) \in Nat
      /\ \A i \in 1..Len(t) : t[i] = p[i + 1]
      /\ Head(p) = p[1] /\ Head(p) \in Nat
  BY HeadTailProperties, LenProperties, EmptySeq
<1>2. /\ Len(c) = Len(b) + 1
      /\ \A i \in 1..Len(b) : c[i] = b[i]
      /\ c[Len(b) + 1] = p[1]
  BY <1>1, AppendProperties
<1>3. /\ \A i \in 1..Len(b) : b[i] \in Nat
      /\ \A i \in 1..Len(p) : p[i] \in Nat
  BY ElementOfSeq
<1>4. /\ \A i \in 1..Len(t) : i + 1 \in 1..Len(p) /\ 1 < i + 1
      /\ \A i \in 1..Len(c) : i \in 1..Len(b) \/ i = Len(b) + 1
      /\ 1 \in 1..Len(p)
  BY <1>1, <1>2
<1> HIDE DEF c, t
<1>5. /\ \A i \in 1..Len(c) : c[i] <= top
      /\ \A i \in 1..Len(t) : t[i] <= top
  BY <1>1, <1>2, <1>4 DEF InOrder
<1>6. ASSUME NEW i \in 1..Len(c), NEW j \in 1..Len(c), i < j PROVE c[i] < c[j]
  <2>1. i \in 1..Len(b)
    BY <1>1, <1>2, <1>6
  <2>2. CASE j \in 1..Len(b)
    BY <1>2, <1>6, <2>1, <2>2 DEF InOrder
  <2>3. CASE j = Len(b) + 1
    BY <1>2, <1>4, <2>1, <2>3 DEF InOrder
  <2> QED BY <1>4, <2>2, <2>3
<1>7. \A i, j \in 1..Len(t) : i < j => t[i] < t[j]
  BY OrderTail DEF InOrder, t
<1>8. \A i \in 1..Len(c), j \in 1..Len(t) : c[i] < t[j]
  BY <1>1, <1>2, <1>3, <1>4 DEF InOrder
<1> QED BY <1>5, <1>6, <1>7, <1>8 DEF InOrder, c, t

LEMMA OrderStep ==
  ASSUME TypeOK, Ordered, [Next]_vars
  PROVE  Ordered'
<1> USE DEF TypeOK
<1>1. block \in Block /\ block.pending \in Seq(Nat)
  BY DEF Block, BlockType
<1>2. InOrder(begun, block.pending, offered)
  BY DEF Ordered, InOrder
<1>3. SUFFICES InOrder(begun', block'.pending, offered')
  BY DEF Ordered, InOrder
<1>4. CASE UNCHANGED vars
  BY <1>2, <1>4 DEF vars
<1>5. ASSUME NEW t \in Threads, Enqueue(t) PROVE InOrder(begun', block'.pending, offered')
  <2>0. offered' = offered + 1 /\ offered + 1 \in Nat /\ begun' = begun
    BY <1>5 DEF Enqueue
  <2>1. CASE block' = Enqueued(block, offered + 1)
    <3>1. IsFull(block) => block.pending # << >>
      BY <1>1, QueueDepthAssumption DEF IsFull
    <3>2. PICK p \in Seq(Nat) : /\ block'.pending = Append(p, offered + 1)
                                /\ InOrder(begun, p, offered)
      <4>1. IsFull(block) => /\ Tail(block.pending) \in Seq(Nat)
                             /\ InOrder(begun, Tail(block.pending), offered)
        BY <1>1, <1>2, <3>1, OrderTail, HeadTailProperties
      <4>2. block'.pending = Append(IF IsFull(block) THEN Tail(block.pending)
                                    ELSE block.pending, offered + 1)
        BY <1>1, <2>1, EnqueuedFields
      <4> QED BY <1>1, <1>2, <4>1, <4>2
    <3> QED BY <2>0, <3>2, OrderAppend
  <2>2. CASE block' = block
    BY <1>1, <1>2, <2>0, <2>2 DEF InOrder
  <2> QED BY <1>5, <2>1, <2>2 DEF Enqueue
<1>6. ASSUME NEW t \in Threads, Cancel(t) \/ Refused(t)
      PROVE  InOrder(begun', block'.pending, offered')
  <2>1. block'.pending = << >> /\ UNCHANGED <<begun, offered>>
    BY <1>1, <1>6, BlockFields DEF Cancel, Refused
  <2> QED BY <1>1, <1>2, <2>1, OrderEmptied
<1>7. ASSUME NEW t \in Threads, Execute(t) \/ CheckSelf(t) \/ CheckIdle(t)
      PROVE  InOrder(begun', block'.pending, offered')
  BY <1>2, <1>7 DEF Execute, CheckSelf, CheckIdle
<1>8. ASSUME NEW w \in Workers, TakeDrain(w) PROVE InOrder(begun', block'.pending, offered')
  BY <1>2, <1>8 DEF TakeDrain
<1>9. ASSUME NEW w \in Workers, DrainEnd(w) PROVE InOrder(begun', block'.pending, offered')
  <2>1. block'.pending = << >> /\ UNCHANGED <<begun, offered>>
    BY <1>1, <1>9, BlockFields DEF DrainEnd
  <2> QED BY <1>1, <1>2, <2>1, OrderEmptied
<1>10. ASSUME NEW w \in Workers, BeginCallback(w)
       PROVE  InOrder(begun', block'.pending, offered')
  <2>1. /\ block.pending # << >> /\ block'.pending = Tail(block.pending)
        /\ begun' = Append(begun, Head(block.pending)) /\ offered' = offered
    BY <1>1, <1>10, BlockFields DEF BeginCallback, DrainEnds
  <2> QED BY <1>1, <1>2, <2>1, OrderBegin
<1>11. ASSUME NEW w \in Workers, EndCallback(w)
       PROVE  InOrder(begun', block'.pending, offered')
  <2>1. block'.pending = block.pending /\ UNCHANGED <<begun, offered>>
    BY <1>1, <1>11, BlockFields DEF EndCallback
  <2> QED BY <1>2, <2>1
<1>12. CASE CloseExecutor
  BY <1>2, <1>12 DEF CloseExecutor
<1> QED BY <1>4, <1>5, <1>6, <1>7, <1>8, <1>9, <1>10, <1>11, <1>12
        DEF Next, CallStep, WorkerStep

-----------------------------------------------------------------------------
LEMMA DepthStep ==
  ASSUME TypeOK, DepthBound, [Next]_vars
  PROVE  DepthBound'
<1> USE DEF TypeOK, DepthBound
<1>1. block \in Block /\ block.pending \in Seq(Nat) /\ Len(block.pending) \in Nat
  BY DEF Block, BlockType
<1>2. CASE UNCHANGED vars
  BY <1>2 DEF vars
<1>3. ASSUME NEW t \in Threads, Enqueue(t) PROVE DepthBound'
  <2>1. CASE block' = Enqueued(block, offered + 1)
    <3>1. block'.pending = Append(IF IsFull(block) THEN Tail(block.pending)
                                  ELSE block.pending, offered + 1)
      BY <1>1, <2>1, EnqueuedFields
    <3>2. CASE IsFull(block)
      <4>1. block.pending # << >>
        BY <1>1, <3>2, QueueDepthAssumption DEF IsFull
      <4>2. Tail(block.pending) \in Seq(Nat) /\ Len(Tail(block.pending)) = Len(block.pending) - 1
        BY <1>1, <4>1, HeadTailProperties
      <4>3. Len(block'.pending) = Len(block.pending)
        BY <1>1, <3>1, <3>2, <4>2, AppendProperties
      <4> QED BY <1>3, <4>3, MaxMessagesAssumption DEF Enqueue
    <3>3. CASE ~IsFull(block)
      <4>1. Len(block'.pending) = Len(block.pending) + 1
        BY <1>1, <3>1, <3>3, AppendProperties
      <4> QED BY <1>1, <1>3, <3>3, <4>1, MaxMessagesAssumption, QueueDepthAssumption
              DEF Enqueue, IsFull
    <3> QED BY <3>2, <3>3
  <2>2. CASE block' = block
    BY <1>3, <2>2, MaxMessagesAssumption DEF Enqueue
  <2> QED BY <1>3, <2>1, <2>2 DEF Enqueue
<1>4. ASSUME block'.pending = << >> \/ block'.pending = block.pending, offered' = offered
      PROVE  DepthBound'
  BY <1>4, QueueDepthAssumption
<1>5. ASSUME NEW t \in Threads, Cancel(t) \/ Refused(t) PROVE DepthBound'
  BY <1>1, <1>4, <1>5, BlockFields DEF Cancel, Refused
<1>6. ASSUME NEW t \in Threads, Execute(t) \/ CheckSelf(t) \/ CheckIdle(t) PROVE DepthBound'
  BY <1>6 DEF Execute, CheckSelf, CheckIdle
<1>7. ASSUME NEW w \in Workers, DrainEnd(w) \/ EndCallback(w) PROVE DepthBound'
  <2>1. DrainEnd(w) => block'.pending = << >> /\ offered' = offered
    BY <1>1, BlockFields DEF DrainEnd
  <2>2. EndCallback(w) => block'.pending = block.pending /\ offered' = offered
    BY <1>1, BlockFields DEF EndCallback
  <2> QED BY <1>4, <1>7, <2>1, <2>2
<1>8. ASSUME NEW w \in Workers, BeginCallback(w) PROVE DepthBound'
  <2>1. /\ block.pending # << >> /\ block'.pending = Tail(block.pending)
        /\ offered' = offered
    BY <1>1, <1>8, BlockFields DEF BeginCallback, DrainEnds
  <2>2. Len(block'.pending) = Len(block.pending) - 1
    BY <1>1, <2>1, HeadTailProperties
  <2> QED BY <1>1, <2>1, <2>2, QueueDepthAssumption
<1>9. ASSUME NEW w \in Workers, TakeDrain(w) PROVE DepthBound'
  BY <1>9 DEF TakeDrain
<1>10. CASE CloseExecutor
  BY <1>10 DEF CloseExecutor
<1> QED BY <1>2, <1>3, <1>5, <1>6, <1>7, <1>8, <1>9, <1>10 DEF Next, CallStep, WorkerStep

LEMMA WaitingStep ==
  ASSUME TypeOK, InFlight, Waiting, [Next]_vars
  PROVE  Waiting'
<1> USE DEF TypeOK
<1>1. block \in Block /\ call \in [Threads -> Calls]
  BY DEF Block, Calls
<1> USE DEF Waiting
\* Nobody begins to wait, and the block is at most cancelled.
<1>2. ASSUME block'.active => block.active, block'.in_flight = block.in_flight,
             quiesced' = quiesced,
             \A t \in Threads : call'[t] \in {"check_self", "check_idle", "await_idle"}
                => call[t] \in {"check_self", "check_idle", "await_idle"}
      PROVE  Waiting'
  BY <1>2
<1>3. \A c \in [Threads -> Calls] : \A t \in Threads :
         NotifyIdle(c)[t] \in {"check_self", "check_idle", "await_idle"}
           => c[t] \in {"check_self", "check_idle", "await_idle"}
  BY DEF NotifyIdle
<1>4. CASE UNCHANGED vars
  BY <1>4 DEF vars
<1>5. ASSUME NEW t \in Threads, Enqueue(t) PROVE Waiting'
  <2>1. block'.active = block.active /\ block'.in_flight = block.in_flight
    <3>1. block' = block \/ block' = Enqueued(block, offered + 1)
      BY <1>5 DEF Enqueue
    <3> QED BY <1>1, <3>1, EnqueuedFields
  <2>2. \A u \in Threads : call'[u] \in {"check_self", "check_idle", "await_idle"}
                => call[u] \in {"check_self", "check_idle", "await_idle"}
    BY <1>5 DEF Enqueue
  <2> QED BY <1>2, <1>5, <2>1, <2>2 DEF Enqueue
<1>6. ASSUME NEW t \in Threads, Cancel(t) PROVE Waiting'
  <2>1. ~block'.active /\ block'.in_flight = block.in_flight /\ quiesced' = quiesced
    BY <1>1, <1>6, BlockFields DEF Cancel
  <2> QED BY <2>1
<1>7. ASSUME NEW t \in Threads, Refused(t) PROVE Waiting'
  <2>1. /\ block'.active = block.active /\ block'.in_flight = block.in_flight
        /\ quiesced' = quiesced
    BY <1>1, <1>7, BlockFields DEF Refused
  <2>2. [call EXCEPT ![t] = "none"] \in [Threads -> Calls]
    BY <1>1 DEF Calls
  <2>3. \A u \in Threads : call'[u] \in {"check_self", "check_idle", "await_idle"}
                => call[u] \in {"check_self", "check_idle", "await_idle"}
    <3>1. call' = NotifyIdle([call EXCEPT ![t] = "none"])
      BY <1>7 DEF Refused
    <3>2. \A u \in Threads : [call EXCEPT ![t] = "none"][u] \in {call[u], "none"}
      BY <1>1
    <3> QED BY <1>3, <2>2, <3>1, <3>2
  <2> QED BY <1>2, <2>1, <2>3
<1>8. ASSUME NEW t \in Threads, Execute(t) \/ CheckSelf(t) \/ CheckIdle(t) PROVE Waiting'
  BY <1>8 DEF Execute, CheckSelf, CheckIdle
<1>9. ASSUME NEW w \in Workers, TakeDrain(w) PROVE Waiting'
  BY <1>9 DEF TakeDrain
<1>10. ASSUME NEW w \in Workers, DrainEnd(w) PROVE Waiting'
  <2>1. /\ block'.active = block.active /\ block'.in_flight = block.in_flight
        /\ quiesced' = quiesced
    BY <1>1, <1>10, BlockFields DEF DrainEnd
  <2> QED BY <1>1, <1>2, <1>3, <1>10, <2>1 DEF DrainEnd
<1>11. ASSUME NEW w \in Workers, BeginCallback(w) PROVE Waiting'
  <2>1. block.active /\ block'.active = block.active /\ UNCHANGED <<call, quiesced>>
    BY <1>1, <1>11, BlockFields DEF BeginCallback, DrainEnds
  <2> QED BY <2>1
<1>12. ASSUME NEW w \in Workers, EndCallback(w) PROVE Waiting'
  <2>1. /\ block'.active = block.active /\ block'.in_flight = block.in_flight - 1
        /\ quiesced' = quiesced
    BY <1>1, <1>12, BlockFields DEF EndCallback
  <2>2. block.in_flight # 0
    BY <1>12 DEF EndCallback, InFlight
  <2>3. call' = NotifyIdle(call)
    BY <1>12 DEF EndCallback
  <2> QED BY <1>1, <1>3, <2>1, <2>2, <2>3
<1>13. CASE CloseExecutor
  BY <1>13 DEF CloseExecutor
<1> QED BY <1>4, <1>5, <1>6, <1>7, <1>8, <1>9, <1>10, <1>11, <1>12, <1>13
        DEF Next, CallStep, WorkerStep

-----------------------------------------------------------------------------
\* How the sum of Conservation may move: a message comes in, with or without
\* dropping another, those that wait are discarded or refused, one begins, ends.
LEMMA SumMoves ==
  ASSUME NEW e \in Nat, NEW d \in Nat, NEW i \in Nat, NEW p \in Nat, NEW o \in Nat,
         NEW r \in Nat, NEW s \in Nat, e = d + i + p + o + r + s
  PROVE  /\ e + 1 = d + i + (p + 1) + o + r + s
         /\ e + 1 = d + i + p + (o + 1) + r + s
         /\ e = d + i + 0 + o + r + (s + p)
         /\ e = d + i + 0 + o + (r + p) + s
         /\ e = d + (i + 1) + (p - 1) + o + r + s
         /\ e = (d + 1) + (i - 1) + p + o + r + s
  OBVIOUS

LEMMA ConservationStep ==
  ASSUME TypeOK, DrainPlace, NotStranded, InFlight, Conservation, [Next]_vars
  PROVE  Conservation'
<1> USE DEF Conservation
<1>1. block \in Block /\ block.pending \in Seq(Nat) /\ Len(block.pending) \in Nat
      /\ block.in_flight \in Nat /\ discarded \in Nat
  BY DEF TypeOK, Block, BlockType
<1>2. /\ tally.enqueued \in Nat /\ tally.dropped_oldest \in Nat
      /\ tally.executor_rejected \in Nat /\ tally.delivered \in Nat
  BY TallyFields DEF TypeOK
<1> DEFINE e == tally.enqueued
           d == tally.delivered
           i == block.in_flight
           p == Len(block.pending)
           o == tally.dropped_oldest
           r == tally.executor_rejected
           n == discarded
<1>13. /\ e + 1 = d + i + (p + 1) + o + r + n
       /\ e + 1 = d + i + p + (o + 1) + r + n
       /\ e = d + i + 0 + o + r + (n + p)
       /\ e = d + i + 0 + o + (r + p) + n
       /\ e = d + (i + 1) + (p - 1) + o + r + n
       /\ e = (d + 1) + (i - 1) + p + o + r + n
  <2>1. /\ e \in Nat /\ d \in Nat /\ i \in Nat /\ p \in Nat /\ o \in Nat /\ r \in Nat
        /\ n \in Nat /\ e = d + i + p + o + r + n
    BY <1>1, <1>2
  <2> HIDE DEF e, d, i, p, o, r, n
  <2> QED BY <2>1, SumMoves
<1>3. CASE UNCHANGED vars
  BY <1>3 DEF vars
<1>4. ASSUME NEW t \in Threads, Enqueue(t) PROVE Conservation'
  <2>1. CASE /\ block' = Enqueued(block, offered + 1)
             /\ tally' = [tally EXCEPT !.enqueued = @ + 1,
                              !.dropped_oldest = @ + (IF IsFull(block) THEN 1 ELSE 0)]
    <3>1. /\ block'.pending = Append(IF IsFull(block) THEN Tail(block.pending)
                                     ELSE block.pending, offered + 1)
          /\ block'.in_flight = block.in_flight /\ discarded' = discarded
      BY <1>1, <1>4, <2>1, EnqueuedFields DEF Enqueue
    <3>2. /\ tally'.enqueued = tally.enqueued + 1
          /\ tally'.dropped_oldest = tally.dropped_oldest + (IF IsFull(block) THEN 1 ELSE 0)
          /\ tally'.delivered = tally.delivered
          /\ tally'.executor_rejected = tally.executor_rejected
      BY <2>1 DEF TypeOK, TallyType
    <3>3. CASE IsFull(block)
      <4>1. block.pending # << >>
        BY <1>1, <3>3, QueueDepthAssumption DEF IsFull
      <4>2. Tail(block.pending) \in Seq(Nat) /\ Len(Tail(block.pending)) = Len(block.pending) - 1
        BY <1>1, <4>1, HeadTailProperties
      <4>3. Len(block'.pending) = Len(block.pending)
        BY <1>1, <3>1, <3>3, <4>2, AppendProperties
      <4> QED BY <1>2, <1>13, <3>1, <3>2, <3>3, <4>3
    <3>4. CASE ~IsFull(block)
      <4>1. Len(block'.pending) = Len(block.pending) + 1
        BY <1>1, <3>1, <3>4, AppendProperties
      <4> QED BY <1>2, <1>13, <3>1, <3>2, <3>4, <4>1
    <3> QED BY <3>3, <3>4
  <2>2. CASE /\ block' = block
             /\ \E count : tally' = [tally EXCEPT !.rejected_newest = count]
    <3>1. /\ tally'.enqueued = tally.enqueued /\ tally'.delivered = tally.delivered
          /\ tally'.dropped_oldest = tally.dropped_oldest
          /\ tally'.executor_rejected = tally.executor_rejected
      BY <2>2 DEF TypeOK, TallyType
    <3> QED BY <1>4, <2>2, <3>1 DEF Enqueue
  <2>3. \/ /\ block' = Enqueued(block, offered + 1)
           /\ tally' = [tally EXCEPT !.enqueued = @ + 1,
                              !.dropped_oldest = @ + (IF IsFull(block) THEN 1 ELSE 0)]
        \/ block' = block /\ \E count : tally' = [tally EXCEPT !.rejected_newest = count]
    BY <1>4, Zenon DEF Enqueue
  <2> QED BY <2>1, <2>2, <2>3
<1>5. ASSUME NEW t \in Threads, Cancel(t) PROVE Conservation'
  <2>1. /\ block'.pending = << >> /\ block'.in_flight = block.in_flight
        /\ tally' = tally /\ discarded' = discarded + Len(block.pending)
    BY <1>1, <1>5, BlockFields DEF Cancel
  <2> QED BY <1>2, <1>13, <2>1
<1>6. ASSUME NEW t \in Threads, Refused(t) PROVE Conservation'
  <2>1. /\ block'.pending = << >> /\ block'.in_flight = block.in_flight
        /\ discarded' = discarded
    BY <1>1, <1>6, BlockFields DEF Refused
  <2>2. /\ tally'.executor_rejected = tally.executor_rejected + Len(block.pending)
        /\ tally'.enqueued = tally.enqueued /\ tally'.delivered = tally.delivered
        /\ tally'.dropped_oldest = tally.dropped_oldest
    BY <1>6 DEF TypeOK, Refused, TallyType
  <2> QED BY <1>2, <1>13, <2>1, <2>2
<1>7. ASSUME NEW t \in Threads, Execute(t) \/ CheckSelf(t) \/ CheckIdle(t)
      PROVE  Conservation'
  BY <1>7 DEF Execute, CheckSelf, CheckIdle
<1>8. ASSUME NEW w \in Workers, TakeDrain(w) PROVE Conservation'
  BY <1>8 DEF TakeDrain
<1>9. ASSUME NEW w \in Workers, DrainEnd(w) PROVE Conservation'
  <2>1. /\ block'.pending = << >> /\ block'.in_flight = block.in_flight
        /\ tally' = tally /\ discarded' = discarded + Len(block.pending)
    BY <1>1, <1>9, BlockFields DEF DrainEnd
  <2> QED BY <1>2, <1>13, <2>1
<1>10. ASSUME NEW w \in Workers, BeginCallback(w) PROVE Conservation'
  <2>1. /\ block.pending # << >> /\ block'.pending = Tail(block.pending)
        /\ block'.in_flight = block.in_flight + 1
        /\ tally' = tally /\ discarded' = discarded
    BY <1>1, <1>10, BlockFields DEF BeginCallback, DrainEnds
  <2>2. Len(block'.pending) = Len(block.pending) - 1
    BY <1>1, <2>1, HeadTailProperties
  <2> QED BY <1>2, <1>13, <2>1, <2>2
<1>11. ASSUME NEW w \in Workers, EndCallback(w) PROVE Conservation'
  <2>1. /\ block'.pending = block.pending /\ block'.in_flight = block.in_flight - 1
        /\ discarded' = discarded
    BY <1>1, <1>11, BlockFields DEF EndCallback
  <2>2. /\ tally'.delivered = tally.delivered + 1 /\ tally'.enqueued = tally.enqueued
        /\ tally'.dropped_oldest = tally.dropped_oldest
        /\ tally'.executor_rejected = tally.executor_rejected
    BY <1>11 DEF TypeOK, EndCallback, TallyType
  <2> QED BY <1>2, <1>13, <2>1, <2>2
<1>12. CASE CloseExecutor
  BY <1>12 DEF CloseExecutor
<1> QED BY <1>3, <1>4, <1>5, <1>6, <1>7, <1>8, <1>9, <1>10, <1>11, <1>12
        DEF Next, CallStep, WorkerStep

-----------------------------------------------------------------------------
\* BlockInv is inductive.
LEMMA BlockInvariant == Spec => []BlockInv
<1>1. Init => BlockInv
  <2> SUFFICES ASSUME Init PROVE BlockInv
    OBVIOUS
  <2>1. TypeOK
    BY TypeInit
  <2>2. /\ block.pending = << >> /\ block.active /\ ~block.scheduled
        /\ block.in_flight = 0 /\ block.callback_thread = NoThread
    BY DEF Init, NewBlocks
  <2>3. DrainPlace /\ NotStranded /\ InFlight
    BY <2>2 DEF Init, DrainPlace, NotStranded, InFlight, Draining, Posting
  <2>4. Ordered /\ DepthBound
    BY <2>2, QueueDepthAssumption, MaxMessagesAssumption DEF Init, Ordered, DepthBound
  <2>5. Waiting /\ Conservation
    BY <2>2 DEF Init, Waiting, Conservation, NewTally
  <2> QED BY <2>1, <2>3, <2>4, <2>5 DEF BlockInv
<1>2. BlockInv /\ [Next]_vars => BlockInv'
  BY TypeStep, PlaceStep, OrderStep, DepthStep, WaitingStep, ConservationStep DEF BlockInv
<1> QED BY <1>1, <1>2, PTL DEF Spec

(***************************************************************************)
(* The type invariant holds in every reachable state.                      *)
(***************************************************************************)
THEOREM TypeCorrect == Spec => []TypeOK
<1>1. BlockInv => TypeOK
  BY DEF BlockInv
<1> QED BY <1>1, BlockInvariant, PTL

(***************************************************************************)
(* drain() runs at most once at a time and is never missing while messages *)
(* wait, callbacks of a subscription are serial, in_flight and             *)
(* callback_thread tell which one runs, and messages are handed over in    *)
(* publication order: for any number of publishers, cancelling threads,    *)
(* workers and messages, and whether the executor accepts, refuses or      *)
(* throws.                                                                 *)
(***************************************************************************)
THEOREM CallbacksSerial == Spec => []SerialCallbacks
<1>1. ASSUME BlockInv PROVE SerialCallbacks
  <2>1. OneDrain
    <3>1. \A x : Cardinality({x}) = 1
      BY FS_Singleton
    <3>2. Cardinality({}) = 0
      BY FS_EmptySet
    <3>3. drains + Cardinality(Draining) + Cardinality(Posting)
             = IF block.scheduled THEN 1 ELSE 0
      <4>1. CASE drains = 0 /\ Draining = {} /\ Posting = {} /\ ~block.scheduled
        BY <3>2, <4>1
      <4>2. CASE drains = 1 /\ Draining = {} /\ Posting = {} /\ block.scheduled
        BY <3>2, <4>2
      <4>3. CASE /\ drains = 0 /\ Posting = {} /\ block.scheduled
                 /\ \E w \in Workers : Draining = {w}
        <5>1. Cardinality(Draining) = 1
          BY <3>1, <4>3
        <5> QED BY <3>2, <4>3, <5>1
      <4>4. CASE /\ drains = 0 /\ Draining = {} /\ block.scheduled
                 /\ \E t \in Threads : Posting = {t}
        <5>1. Cardinality(Posting) = 1
          BY <3>1, <4>4
        <5> QED BY <3>2, <4>4, <5>1
      <4> QED BY <1>1, <4>1, <4>2, <4>3, <4>4 DEF BlockInv, DrainPlace
    <3> QED BY <1>1, <3>3 DEF OneDrain, BlockInv, NotStranded
  <2>2. \A v, w \in Workers : pc[v] = "callback" /\ pc[w] = "callback" => v = w
    BY <1>1 DEF BlockInv, InFlight
  <2>3. \A w \in Workers : pc[w] = "callback" <=> block.callback_thread = w
    BY <1>1, ThreadsAssumption DEF BlockInv, InFlight
  <2>4. block.in_flight = Cardinality({w \in Workers : pc[w] = "callback"})
    <3> DEFINE R == {w \in Workers : pc[w] = "callback"}
    <3>1. CASE block.in_flight = 0 /\ R = {}
      BY <3>1, FS_EmptySet
    <3>2. CASE block.in_flight = 1 /\ R = {block.callback_thread}
      BY <3>2, FS_Singleton
    <3> QED BY <1>1, <3>1, <3>2 DEF BlockInv, InFlight
  <2>5. \A i, j \in DOMAIN (begun \o block.pending) :
           i < j => (begun \o block.pending)[i] < (begun \o block.pending)[j]
    <3> DEFINE p == block.pending
               q == begun \o p
    <3>1. begun \in Seq(Nat) /\ p \in Seq(Nat)
      BY <1>1 DEF BlockInv, TypeOK, BlockType
    <3>2. /\ Len(begun) \in Nat /\ Len(p) \in Nat
          /\ DOMAIN q = 1..(Len(begun) + Len(p))
          /\ \A i \in 1..(Len(begun) + Len(p)) :
                q[i] = IF i <= Len(begun) THEN begun[i] ELSE p[i - Len(begun)]
      BY <3>1, ConcatProperties, LenProperties
    <3>3. InOrder(begun, p, offered)
      BY <1>1 DEF BlockInv, Ordered, InOrder
    <3> SUFFICES ASSUME NEW i \in DOMAIN q, NEW j \in DOMAIN q, i < j
                 PROVE  q[i] < q[j]
      OBVIOUS
    <3> HIDE DEF p, q
    <3>4. CASE j <= Len(begun)
      BY <3>2, <3>3, <3>4 DEF InOrder
    <3>5. CASE i <= Len(begun) /\ j > Len(begun)
      <4>1. i \in 1..Len(begun) /\ j - Len(begun) \in 1..Len(p)
        BY <3>2, <3>5
      <4> QED BY <3>2, <3>3, <3>5, <4>1 DEF InOrder
    <3>6. CASE i > Len(begun)
      <4>1. /\ i - Len(begun) \in 1..Len(p) /\ j - Len(begun) \in 1..Len(p)
            /\ i - Len(begun) < j - Len(begun) /\ j > Len(begun)
        BY <3>2, <3>6
      <4>2. q[i] = p[i - Len(begun)] /\ q[j] = p[j - Len(begun)]
        BY <3>2, <3>6, <4>1
      <4> QED BY <3>3, <4>1, <4>2 DEF InOrder
    <3> QED BY <3>2, <3>4, <3>5, <3>6
  <2> QED BY <2>1, <2>2, <2>3, <2>4, <2>5 DEF SerialCallbacks
<1> QED BY <1>1, BlockInvariant, PTL

(***************************************************************************)
(* The statistics of a subscription account for every message it took,     *)
(* once, whatever the interleaving of publishers, drains, refusals and     *)
(* cancellations.                                                          *)
(***************************************************************************)
THEOREM MessagesConserved == Spec => []Conservation
<1>1. BlockInv => Conservation
  BY DEF BlockInv
<1> QED BY <1>1, BlockInvariant, PTL

(***************************************************************************)
(* After a cancel_and_wait has returned normally no callback runs.         *)
(***************************************************************************)
THEOREM QuietAfterWait == Spec => []QuietAfterCancelAndWait
<1>1. BlockInv => QuietAfterCancelAndWait
  BY DEF BlockInv, Waiting, InFlight, QuietAfterCancelAndWait
<1> QED BY <1>1, BlockInvariant, PTL

-----------------------------------------------------------------------------
(***************************************************************************)
(* The safety half of ImplementsMailbox: every step of the control block,  *)
(* its publishers and its workers is a step of the bounded mailbox, or     *)
(* changes nothing a user of the subscription can see.                     *)
(***************************************************************************)
THEOREM RefinesMailbox == Spec => Promise!Spec
<1>1. Init => Promise!Init
  <2> SUFFICES ASSUME Init PROVE Promise!Init
    OBVIOUS
  <2>1. /\ block.pending = << >> /\ block.active = TRUE
        /\ block.overflow_policy \in overflow_policies
    BY DEF Init, NewBlocks
  <2>2. running = {}
    BY DEF Init, running
  <2> QED BY <2>1, <2>2, OverflowPolicyAssumption DEF Promise!Init
<1>2. BlockInv /\ [Next]_vars => [Promise!Next]_(Promise!vars)
  <2> SUFFICES ASSUME BlockInv, [Next]_vars PROVE [Promise!Next]_(Promise!vars)
    OBVIOUS
  <2> USE DEF Promise!vars
  <2>0. /\ TypeOK /\ InFlight /\ Ordered /\ DepthBound
        /\ block \in Block /\ block.pending \in Seq(Nat) /\ Len(block.pending) \in Nat
    BY DEF BlockInv, TypeOK, Block, BlockType
  \* A step that leaves workers and messages alone does not change running.
  <2>11. UNCHANGED <<pc, message>> => running' = running
    BY DEF running
  <2>1. CASE UNCHANGED vars
    BY <2>1, <2>11 DEF vars
  <2>2. ASSUME NEW t \in Threads, Enqueue(t) PROVE [Promise!Next]_(Promise!vars)
    <3>1. CASE block' = block
      BY <2>2, <2>11, <3>1 DEF Enqueue
    <3>2. CASE block' = Enqueued(block, offered + 1) /\ \E x : Accepts(block, x)
      <4>1. /\ block'.pending = Append(IF IsFull(block) THEN Tail(block.pending)
                                       ELSE block.pending, offered + 1)
            /\ block'.active = block.active
            /\ block'.overflow_policy = block.overflow_policy
        BY <2>0, <3>2, EnqueuedFields
      <4>2. block.active /\ (IsFull(block) => block.overflow_policy = "DropOldest")
        BY <3>2 DEF Accepts
      <4>3. offered + 1 \in Messages
        BY <2>2, <2>0, MaxMessagesAssumption DEF Enqueue, Messages, TypeOK
      <4>4. Promise!Newer(offered + 1)
        <5>1. \A i \in DOMAIN block.pending : /\ block.pending[i] \in Nat
                                               /\ block.pending[i] <= offered
          BY <2>0, LenProperties, ElementOfSeq DEF Ordered
        <5> QED BY <2>0, <5>1 DEF Promise!Newer, TypeOK
      <4>5. IF IsFull(block) THEN Len(block.pending) = queue_depth
                             ELSE Len(block.pending) < queue_depth
        BY <2>0, QueueDepthAssumption DEF IsFull, DepthBound
      <4>6. running' = running
        BY <2>2, <2>11 DEF Enqueue
      <4>7. Promise!Put
        BY <4>1, <4>2, <4>3, <4>4, <4>5, <4>6 DEF Promise!Put
      <4> QED BY <4>7 DEF Promise!Next
    <3>3. block' = block \/ (block' = Enqueued(block, offered + 1) /\ \E x : Accepts(block, x))
      BY <2>2, Zenon DEF Enqueue
    <3> QED BY <3>1, <3>2, <3>3
  <2>3. ASSUME NEW t \in Threads, Cancel(t) PROVE [Promise!Next]_(Promise!vars)
    <3>1. /\ block'.pending = << >> /\ block'.active = FALSE
          /\ block'.overflow_policy = block.overflow_policy
      BY <2>0, <2>3 DEF Cancel, Cancelled, Block, BlockType
    <3>2. Promise!Close
      BY <2>3, <2>11, <3>1 DEF Cancel, Promise!Close
    <3> QED BY <3>2 DEF Promise!Next
  <2>4. ASSUME NEW t \in Threads, Execute(t) \/ CheckSelf(t) \/ CheckIdle(t)
        PROVE  [Promise!Next]_(Promise!vars)
    BY <2>4, <2>11 DEF Execute, CheckSelf, CheckIdle
  <2>5. ASSUME NEW t \in Threads, Refused(t) PROVE [Promise!Next]_(Promise!vars)
    <3>1. /\ block'.pending = << >> /\ block'.active = block.active
          /\ block'.overflow_policy = block.overflow_policy
      BY <2>0, <2>5, BlockFields DEF Refused
    <3>2. Promise!GiveUp
      BY <2>5, <2>11, <3>1 DEF Refused, Promise!GiveUp
    <3> QED BY <3>2 DEF Promise!Next
  <2>6. ASSUME NEW w \in Workers, TakeDrain(w) PROVE [Promise!Next]_(Promise!vars)
    <3>1. \A v \in Workers : pc'[v] = "callback" <=> pc[v] = "callback"
      BY <2>0, <2>6 DEF TakeDrain, TypeOK
    <3>2. running' = running
      BY <2>6, <3>1 DEF TakeDrain, running
    <3> QED BY <2>6, <3>2 DEF TakeDrain
  <2>7. ASSUME NEW w \in Workers, DrainEnd(w) PROVE [Promise!Next]_(Promise!vars)
    <3>1. /\ block'.pending = << >> /\ block'.active = block.active
          /\ block'.overflow_policy = block.overflow_policy
      BY <2>0, <2>7, BlockFields DEF DrainEnd
    <3>2. \A v \in Workers : pc'[v] = "callback" <=> pc[v] = "callback"
      BY <2>0, <2>7 DEF DrainEnd, TypeOK
    <3>3. running' = running
      BY <2>7, <3>2 DEF DrainEnd, running
    <3>4. Promise!GiveUp
      BY <3>1, <3>3 DEF Promise!GiveUp
    <3> QED BY <3>4 DEF Promise!Next
  <2>8. ASSUME NEW w \in Workers, BeginCallback(w) PROVE [Promise!Next]_(Promise!vars)
    <3>1. /\ block.pending # << >> /\ block.active
          /\ block'.pending = Tail(block.pending) /\ block'.active = block.active
          /\ block'.overflow_policy = block.overflow_policy
      BY <2>0, <2>8, BlockFields DEF BeginCallback, DrainEnds
    <3>2. Draining = {w}
      BY <2>8 DEF BlockInv, DrainPlace, BeginCallback, Draining
    <3>3. running = {}
      BY <2>8, <3>2 DEF running, BeginCallback, Draining
    <3>4. running' = {Head(block.pending)}
      BY <2>0, <2>8, <3>2 DEF running, BeginCallback, Draining, TypeOK
    <3>5. Promise!Begin
      BY <3>1, <3>3, <3>4 DEF Promise!Begin
    <3> QED BY <3>5 DEF Promise!Next
  <2>9. ASSUME NEW w \in Workers, EndCallback(w) PROVE [Promise!Next]_(Promise!vars)
    <3>1. /\ block'.pending = block.pending /\ block'.active = block.active
          /\ block'.overflow_policy = block.overflow_policy
      BY <2>0, <2>9, BlockFields DEF EndCallback
    <3>2. running # {}
      BY <2>9 DEF running, EndCallback
    <3>3. running' = {}
      BY <2>0, <2>9 DEF running, EndCallback, InFlight, TypeOK
    <3>4. Promise!End
      BY <3>1, <3>2, <3>3 DEF Promise!End
    <3> QED BY <3>4 DEF Promise!Next
  <2>10. CASE CloseExecutor
    BY <2>10, <2>11 DEF CloseExecutor
  <2> QED BY <2>1, <2>2, <2>3, <2>4, <2>5, <2>6, <2>7, <2>8, <2>9, <2>10
          DEF Next, CallStep, WorkerStep
<1> QED BY <1>1, <1>2, BlockInvariant, PTL DEF Spec, Promise!Spec
=============================================================================

----------------------- MODULE ThreadSafeQueueProofs -----------------------
(***************************************************************************)
(* Machine-checked proofs about ThreadSafeQueue, for every finite set of   *)
(* threads, every capacity and every bound on the number of pushes.        *)
(***************************************************************************)
EXTENDS ThreadSafeQueue, FiniteSetTheorems, SequenceTheorems, TLAPS

(***************************************************************************)
(* The type invariant holds in every reachable state: in particular a      *)
(* thread woken by a notification is always at a point of the code.        *)
(***************************************************************************)
THEOREM TypeCorrect == Spec => []TypeOK
<1>1. Init => TypeOK
  <2> SUFFICES ASSUME Init PROVE TypeOK
    OBVIOUS
  <2>1. queue_ \in Seq(Values) /\ taken \in Seq(Values)
    BY DEF Init
  <2>2. closed_ \in BOOLEAN
    BY DEF Init
  <2>3. /\ pc \in [Threads -> PCs] /\ sent \in [Threads -> Nat]
        /\ push_throws \in Nat /\ pop_throws \in Nat
    BY DEF Init, PCs
  <2> QED BY <2>1, <2>2, <2>3 DEF TypeOK
<1>2. TypeOK /\ [Next]_vars => TypeOK'
  <2> SUFFICES ASSUME TypeOK, [Next]_vars PROVE TypeOK'
    OBVIOUS
  <2> USE DEF TypeOK, PCs, Calls, AwaitNotEmpty, AwaitNotFull, Goto, Return, Sleep, thrown
  <2>1. CASE UNCHANGED vars
    BY <2>1 DEF vars
  <2>2. ASSUME NEW t \in Threads, Call(t) PROVE TypeOK'
    BY <2>2 DEF Call
  <2>3. ASSUME NEW t \in Threads, EmplaceBack(t) PROVE TypeOK'
    <3>1. <<t, sent[t]>> \in Values
      BY DEF Values
    <3>2. queue_' \in Seq(Values)
      BY <2>3, <3>1 DEF EmplaceBack
    <3> QED BY <2>3, <3>2 DEF EmplaceBack
  <2>4. ASSUME NEW t \in Threads, PopFront(t), queue_ # << >> PROVE TypeOK'
    <3>1. Head(queue_) \in Values /\ Tail(queue_) \in Seq(Values)
      BY <2>4
    <3> QED BY <2>4, <3>1 DEF PopFront
  <2>12. ASSUME NEW t \in Threads, EmplaceThrows(t) \/ PopThrows(t) PROVE TypeOK'
    BY <2>12 DEF EmplaceThrows, PopThrows
  <2>5. ASSUME NEW t \in Threads, Push(t) \/ TryPush(t) PROVE TypeOK'
    BY <2>3, <2>5, <2>12 DEF Push, TryPush
  <2>6. ASSUME NEW t \in Threads, TryPop(t) \/ WaitPop(t) \/ WaitPopFor(t)
        PROVE  TypeOK'
    BY <2>4, <2>6, <2>12 DEF TryPop, WaitPop, WaitPopFor
  <2>7. \A l \in PCs : Resume(l) \in PCs
    BY DEF Resume
  <2>8. ASSUME NEW t \in Threads, NotifyNotEmpty(t) \/ NotifyNotFull(t)
        PROVE  TypeOK'
    BY <2>7, <2>8 DEF NotifyNotEmpty, NotifyNotFull, NotifyOne, At
  <2>9. ASSUME NEW t \in Threads, CloseNotifyNotEmpty(t) \/ CloseNotifyNotFull(t)
        PROVE  TypeOK'
    BY <2>7, <2>9 DEF CloseNotifyNotEmpty, CloseNotifyNotFull, NotifyAll
  <2>10. ASSUME NEW t \in Threads, Close(t) \/ Timeout(t) PROVE TypeOK'
    BY <2>10 DEF Close, Timeout
  <2>11. ASSUME NEW t \in Threads, SpuriousWakeup(t) PROVE TypeOK'
    BY <2>7, <2>11 DEF SpuriousWakeup
  <2> QED
    BY <2>1, <2>2, <2>5, <2>6, <2>8, <2>9, <2>10, <2>11 DEF Next, Step
<1> QED BY <1>1, <1>2, PTL DEF Spec

-----------------------------------------------------------------------------
\* The threads whose entry of f lies in S: At(S) is In(pc, S).
In(f, S) == {u \in Threads : f[u] \in S}

\* g differs from f in one thread, moved from label a to label b: how the
\* number of threads in S changes.
Moved(f, g, a, b, S) ==
  /\ Cardinality(In(f, S)) \in Nat
  /\ Cardinality(In(g, S)) \in Nat
  /\ (a \in S <=> b \in S) => Cardinality(In(g, S)) = Cardinality(In(f, S))
  /\ a \notin S /\ b \in S => Cardinality(In(g, S)) = Cardinality(In(f, S)) + 1
  /\ a \in S /\ b \notin S => Cardinality(In(g, S)) = Cardinality(In(f, S)) - 1

LEMMA MoveOne ==
  ASSUME NEW f \in [Threads -> PCs], NEW t \in Threads, NEW b \in PCs, NEW S
  PROVE  Moved(f, [f EXCEPT ![t] = b], f[t], b, S)
<1> DEFINE g == [f EXCEPT ![t] = b]
<1>1. IsFiniteSet(In(f, S)) /\ IsFiniteSet(In(g, S))
  BY ThreadsAssumption, FS_Subset DEF In
<1>2. Cardinality(In(f, S)) \in Nat /\ Cardinality(In(g, S)) \in Nat
  BY <1>1, FS_CardinalityType
<1>3. CASE f[t] \in S <=> b \in S
  <2>1. In(g, S) = In(f, S)
    BY <1>3 DEF In
  <2> QED BY <1>2, <1>3, <2>1 DEF Moved
<1>4. CASE f[t] \notin S /\ b \in S
  <2>1. In(g, S) = In(f, S) \cup {t} /\ t \notin In(f, S)
    BY <1>4 DEF In
  <2> QED BY <1>1, <1>2, <1>4, <2>1, FS_AddElement DEF Moved
<1>5. CASE f[t] \in S /\ b \notin S
  <2>1. In(g, S) = In(f, S) \ {t} /\ t \in In(f, S)
    BY <1>5 DEF In
  <2> QED BY <1>1, <1>2, <1>5, <2>1, FS_RemoveElement DEF Moved
<1> QED BY <1>2, <1>3, <1>4, <1>5 DEF Moved

\* The same seen from At and a step that moves one thread.
LEMMA GotoCounts ==
  ASSUME TypeOK, NEW t \in Threads, NEW b \in PCs, Goto(t, b), NEW S
  PROVE  /\ Cardinality(At(S)) \in Nat
         /\ Cardinality(At(S)') \in Nat
         /\ (pc[t] \in S <=> b \in S) => Cardinality(At(S)') = Cardinality(At(S))
         /\ pc[t] \notin S /\ b \in S => Cardinality(At(S)') = Cardinality(At(S)) + 1
         /\ pc[t] \in S /\ b \notin S => Cardinality(At(S)') = Cardinality(At(S)) - 1
<1> DEFINE g == [pc EXCEPT ![t] = b]
<1>1. At(S) = In(pc, S) /\ At(S)' = In(g, S)
  BY DEF At, In, Goto
<1>2. Moved(pc, g, pc[t], b, S)
  BY MoveOne DEF TypeOK
<1> HIDE DEF g
<1> QED BY <1>1, <1>2 DEF Moved

-----------------------------------------------------------------------------
\* The counts of calls that threw are numbers and stay as they are.
SameThrows ==
  /\ push_throws \in Nat /\ pop_throws \in Nat
  /\ push_throws' = push_throws /\ pop_throws' = pop_throws

\* A step that moves one thread, not into a wait set and not out of the
\* closing labels, keeps the sleeping threads and the closing ones covered.
LEMMA GotoAwake ==
  ASSUME TypeOK, NEW t \in Threads, NEW b \in PCs, Goto(t, b),
         b \notin AwaitNotEmpty \cup AwaitNotFull,
         pc[t] \notin {"close_not_empty", "close_not_full"}
  PROVE  /\ At(AwaitNotEmpty)' # {} => At(AwaitNotEmpty) # {}
         /\ At(AwaitNotFull)' # {} => At(AwaitNotFull) # {}
         /\ At({"close_not_empty"}) # {} => At({"close_not_empty"})' # {}
         /\ At({"close_not_empty", "close_not_full"}) # {}
               => At({"close_not_empty", "close_not_full"})' # {}
  BY DEF At, Goto, TypeOK

LEMMA EmplaceBackAwake ==
  ASSUME TypeOK, NoLostWakeup, NEW t \in Threads,
         pc[t] \in {"push", "try_push"}, ~closed_, EmplaceBack(t)
  PROVE  NoLostWakeup'
<1>1. Goto(t, "notify_not_empty") /\ "notify_not_empty" \in PCs
  BY DEF EmplaceBack, PCs
<1>2. /\ Cardinality(At(PopComing)) \in Nat
      /\ Cardinality(At(PopComing)') = Cardinality(At(PopComing)) + 1
  BY <1>1, GotoCounts DEF PopComing
<1>3. /\ Cardinality(At(PushComing)) \in Nat
      /\ Cardinality(At(PushComing)') \in Nat
      /\ Cardinality(At(PushComing)') >= Cardinality(At(PushComing)) - 1
  BY <1>1, GotoCounts DEF PushComing
<1>4. /\ At(AwaitNotEmpty)' # {} => At(AwaitNotEmpty) # {}
      /\ At(AwaitNotFull)' # {} => At(AwaitNotFull) # {}
  BY <1>1, GotoAwake DEF AwaitNotEmpty, AwaitNotFull
<1>5. Len(queue_') = Len(queue_) + 1 /\ Len(queue_) \in Nat /\ closed_' = closed_ /\ SameThrows
  BY DEF EmplaceBack, TypeOK, thrown, SameThrows
<1> QED BY <1>2, <1>3, <1>4, <1>5, CapacityAssumption DEF NoLostWakeup, SameThrows

LEMMA PopFrontAwake ==
  ASSUME TypeOK, NoLostWakeup, NEW t \in Threads, queue_ # << >>,
         pc[t] \in {"try_pop", "wait_pop", "wait_pop_for", "timed_out"},
         PopFront(t)
  PROVE  NoLostWakeup'
<1>1. Goto(t, "notify_not_full") /\ "notify_not_full" \in PCs
  BY DEF PopFront, PCs
<1>2. /\ Cardinality(At(PopComing)) \in Nat
      /\ Cardinality(At(PopComing)') \in Nat
      /\ Cardinality(At(PopComing)') >= Cardinality(At(PopComing)) - 1
  BY <1>1, GotoCounts DEF PopComing
<1>3. /\ Cardinality(At(PushComing)) \in Nat
      /\ Cardinality(At(PushComing)') = Cardinality(At(PushComing)) + 1
  BY <1>1, GotoCounts DEF PushComing
<1>4. /\ At(AwaitNotEmpty)' # {} => At(AwaitNotEmpty) # {}
      /\ At(AwaitNotFull)' # {} => At(AwaitNotFull) # {}
      /\ At({"close_not_empty"}) # {} => At({"close_not_empty"})' # {}
      /\ At({"close_not_empty", "close_not_full"}) # {}
            => At({"close_not_empty", "close_not_full"})' # {}
  BY <1>1, GotoAwake DEF AwaitNotEmpty, AwaitNotFull
<1>5. Len(queue_') = Len(queue_) - 1 /\ Len(queue_) \in Nat /\ closed_' = closed_ /\ SameThrows
  BY DEF PopFront, TypeOK, thrown, SameThrows
<1> QED BY <1>2, <1>3, <1>4, <1>5, CapacityAssumption DEF NoLostWakeup, SameThrows

\* A call that throws takes at most itself from the threads counted on, and
\* is counted instead.
LEMMA ThrowAwake ==
  ASSUME TypeOK, NoLostWakeup, NEW t \in Threads,
         \/ pc[t] \in {"push", "try_push"} /\ EmplaceThrows(t)
         \/ pc[t] \in {"try_pop", "wait_pop", "wait_pop_for", "timed_out"} /\ PopThrows(t)
  PROVE  NoLostWakeup'
<1>1. Goto(t, "idle") /\ "idle" \in PCs
  BY DEF EmplaceThrows, PopThrows, PCs
<1>2. /\ Cardinality(At(PopComing)) \in Nat
      /\ Cardinality(At(PopComing)') \in Nat
      /\ Cardinality(At(PopComing)') >= Cardinality(At(PopComing)) - 1
      /\ pc[t] \notin PopComing
            => Cardinality(At(PopComing)') = Cardinality(At(PopComing))
  BY <1>1, GotoCounts DEF PopComing
<1>3. /\ Cardinality(At(PushComing)) \in Nat
      /\ Cardinality(At(PushComing)') \in Nat
      /\ Cardinality(At(PushComing)') >= Cardinality(At(PushComing)) - 1
      /\ pc[t] \notin PushComing
            => Cardinality(At(PushComing)') = Cardinality(At(PushComing))
  BY <1>1, GotoCounts DEF PushComing
<1>4. /\ At(AwaitNotEmpty)' # {} => At(AwaitNotEmpty) # {}
      /\ At(AwaitNotFull)' # {} => At(AwaitNotFull) # {}
      /\ At({"close_not_empty"}) # {} => At({"close_not_empty"})' # {}
      /\ At({"close_not_empty", "close_not_full"}) # {}
            => At({"close_not_empty", "close_not_full"})' # {}
  BY <1>1, GotoAwake DEF AwaitNotEmpty, AwaitNotFull
<1>5. /\ Len(queue_') = Len(queue_) /\ Len(queue_) \in Nat /\ closed_' = closed_
      /\ push_throws \in Nat /\ pop_throws \in Nat
  BY DEF EmplaceThrows, PopThrows, TypeOK
<1>6. CASE pc[t] \in {"push", "try_push"} /\ EmplaceThrows(t)
  <2>1. pc[t] \notin PopComing /\ push_throws' = push_throws + 1 /\ pop_throws' = pop_throws
    BY <1>6 DEF EmplaceThrows, PopComing
  <2> QED BY <1>2, <1>3, <1>4, <1>5, <2>1, CapacityAssumption DEF NoLostWakeup
<1>7. CASE pc[t] \in {"try_pop", "wait_pop", "wait_pop_for", "timed_out"} /\ PopThrows(t)
  <2>1. pc[t] \notin PushComing /\ pop_throws' = pop_throws + 1 /\ push_throws' = push_throws
    BY <1>7 DEF PopThrows, PushComing
  <2> QED BY <1>2, <1>3, <1>4, <1>5, <2>1, CapacityAssumption DEF NoLostWakeup
<1> QED BY <1>6, <1>7

\* A caller that returns without touching the queue: it was not one the
\* sleeping threads rely on, because the queue is empty, full or closed.
LEMMA ReturnAwake ==
  ASSUME TypeOK, NoLostWakeup, NEW t \in Threads, Return(t),
         \/ pc[t] \in {"try_push", "try_pop", "close"}
         \/ pc[t] = "push" /\ closed_
         \/ pc[t] \in {"wait_pop", "wait_pop_for", "timed_out"} /\ queue_ = << >>
  PROVE  NoLostWakeup'
<1>1. Goto(t, "idle") /\ "idle" \in PCs
  BY DEF Return, PCs
<1>2. /\ Cardinality(At(PopComing)) \in Nat
      /\ Cardinality(At(PopComing)') \in Nat
      /\ pc[t] \notin PopComing
            => Cardinality(At(PopComing)') = Cardinality(At(PopComing))
  BY <1>1, GotoCounts DEF PopComing
<1>3. /\ Cardinality(At(PushComing)) \in Nat
      /\ Cardinality(At(PushComing)') \in Nat
      /\ pc[t] \notin PushComing
            => Cardinality(At(PushComing)') = Cardinality(At(PushComing))
  BY <1>1, GotoCounts DEF PushComing
<1>4. /\ At(AwaitNotEmpty)' # {} => At(AwaitNotEmpty) # {}
      /\ At(AwaitNotFull)' # {} => At(AwaitNotFull) # {}
      /\ At({"close_not_empty"}) # {} => At({"close_not_empty"})' # {}
      /\ At({"close_not_empty", "close_not_full"}) # {}
            => At({"close_not_empty", "close_not_full"})' # {}
  BY <1>1, GotoAwake DEF AwaitNotEmpty, AwaitNotFull
<1>5. Len(queue_') = Len(queue_) /\ Len(queue_) \in Nat /\ closed_' = closed_ /\ SameThrows
  BY DEF Return, TypeOK, thrown, SameThrows
<1>6. queue_ = << >> => Len(queue_) = 0
  OBVIOUS
<1> QED
  BY <1>2, <1>3, <1>4, <1>5, <1>6, CapacityAssumption
  DEF NoLostWakeup, SameThrows, PopComing, PushComing

\* A thread goes to sleep only with its predicate false, so the others that
\* sleep with it have nothing to wait for either.
LEMMA SleepAwake ==
  ASSUME TypeOK, NoLostWakeup, NEW t \in Threads, ~closed_,
         \/ pc[t] = "push" /\ full_locked /\ Sleep(t, "await_push")
         \/ pc[t] = "wait_pop" /\ queue_ = << >> /\ Sleep(t, "await_pop")
         \/ pc[t] = "wait_pop_for" /\ queue_ = << >> /\ Sleep(t, "await_pop_for")
  PROVE  NoLostWakeup'
<1>1. PICK b \in {"await_push", "await_pop", "await_pop_for"} : Goto(t, b)
  BY DEF Sleep
<1>2. b \in PCs
  BY <1>1 DEF PCs, AwaitNotEmpty, AwaitNotFull
<1>3. /\ Cardinality(At(PopComing)) \in Nat
      /\ Cardinality(At(PopComing)') \in Nat
      /\ pc[t] \notin PopComing
            => Cardinality(At(PopComing)') = Cardinality(At(PopComing))
  BY <1>1, <1>2, GotoCounts DEF PopComing
<1>4. /\ Cardinality(At(PushComing)) \in Nat
      /\ Cardinality(At(PushComing)') \in Nat
      /\ pc[t] \notin PushComing
            => Cardinality(At(PushComing)') = Cardinality(At(PushComing))
  BY <1>1, <1>2, GotoCounts DEF PushComing
<1>5. Len(queue_') = Len(queue_) /\ Len(queue_) \in Nat /\ ~closed_' /\ SameThrows
  BY DEF Sleep, TypeOK, thrown, SameThrows
<1>6. queue_ = << >> => Len(queue_) = 0
  OBVIOUS
<1>7. CASE pc[t] = "push"
  <2>1. full_locked /\ Goto(t, "await_push")
    BY <1>7 DEF Sleep
  <2>2. At(AwaitNotEmpty)' # {} => At(AwaitNotEmpty) # {}
    BY <2>1 DEF At, AwaitNotEmpty, Goto, TypeOK
  <2> QED BY <1>3, <1>4, <1>5, <1>7, <2>1, <2>2, CapacityAssumption
          DEF NoLostWakeup, SameThrows, PopComing, full_locked
<1>8. CASE pc[t] # "push"
  <2>1. queue_ = << >> /\ (Goto(t, "await_pop") \/ Goto(t, "await_pop_for"))
    BY <1>8 DEF Sleep
  <2>2. At(AwaitNotFull)' # {} => At(AwaitNotFull) # {}
    BY <2>1 DEF At, AwaitNotFull, Goto, TypeOK
  <2>3. pc[t] \notin PushComing
    BY <1>8 DEF PushComing
  <2> QED BY <1>3, <1>4, <1>5, <1>6, <2>1, <2>2, <2>3, CapacityAssumption
          DEF NoLostWakeup, SameThrows
<1> QED BY <1>7, <1>8

\* notify_one with somebody asleep: the notifier leaves and the woken thread
\* takes its place in the count.
LEMMA WakeCounts ==
  ASSUME TypeOK, NEW t \in Threads, NEW w \in Threads, t # w, NEW S,
         NEW r \in PCs, pc' = [pc EXCEPT ![t] = "idle", ![w] = r],
         "idle" \notin S, pc[w] \notin S
  PROVE  /\ Cardinality(At(S)) \in Nat
         /\ Cardinality(At(S)') \in Nat
         /\ (pc[t] \in S <=> r \in S) => Cardinality(At(S)') = Cardinality(At(S))
<1> DEFINE f == [pc EXCEPT ![t] = "idle"]
           g == [f EXCEPT ![w] = r]
<1>1. pc \in [Threads -> PCs] /\ f \in [Threads -> PCs] /\ "idle" \in PCs
  BY DEF TypeOK, PCs
<1>2. At(S) = In(pc, S) /\ At(S)' = In(g, S) /\ f[w] = pc[w]
  BY <1>1 DEF At, In, TypeOK
<1>3. Moved(pc, f, pc[t], "idle", S)
  BY <1>1, MoveOne
<1> HIDE DEF f
<1>4. Moved(f, g, f[w], r, S)
  BY <1>1, MoveOne
<1> HIDE DEF g
<1> QED BY <1>2, <1>3, <1>4 DEF Moved

LEMMA NotifyAwake ==
  ASSUME TypeOK, NoLostWakeup, NEW t \in Threads,
         NotifyNotEmpty(t) \/ NotifyNotFull(t)
  PROVE  NoLostWakeup'
<1>1. Len(queue_') = Len(queue_) /\ Len(queue_) \in Nat /\ closed_' = closed_ /\ SameThrows
  BY DEF NotifyNotEmpty, NotifyNotFull, TypeOK, thrown, SameThrows
<1>2. CASE Goto(t, "idle")
  <2>1. /\ pc[t] = "notify_not_empty" => At(AwaitNotEmpty) = {}
        /\ pc[t] = "notify_not_full" => At(AwaitNotFull) = {}
    <3>1. ASSUME NEW w \in Threads, pc[w] \in AwaitNotEmpty \cup AwaitNotFull,
                 pc' = [pc EXCEPT ![t] = "idle", ![w] = Resume(@)]
          PROVE  FALSE
      BY <1>2, <3>1 DEF Goto, TypeOK, Resume, AwaitNotEmpty, AwaitNotFull,
                        NotifyNotEmpty, NotifyNotFull
    <3> QED BY <3>1 DEF NotifyNotEmpty, NotifyNotFull, NotifyOne, At
  <2>2. "idle" \in PCs /\ pc[t] \in {"notify_not_empty", "notify_not_full"}
    BY DEF PCs, NotifyNotEmpty, NotifyNotFull
  <2>3. /\ Cardinality(At(PopComing)) \in Nat
        /\ pc[t] # "notify_not_empty"
              => Cardinality(At(PopComing)') = Cardinality(At(PopComing))
    BY <1>2, <2>2, GotoCounts DEF PopComing
  <2>4. /\ Cardinality(At(PushComing)) \in Nat
        /\ pc[t] # "notify_not_full"
              => Cardinality(At(PushComing)') = Cardinality(At(PushComing))
    BY <1>2, <2>2, GotoCounts DEF PushComing
  <2>5. /\ At(AwaitNotEmpty)' # {} => At(AwaitNotEmpty) # {}
        /\ At(AwaitNotFull)' # {} => At(AwaitNotFull) # {}
        /\ At({"close_not_empty"}) # {} => At({"close_not_empty"})' # {}
        /\ At({"close_not_empty", "close_not_full"}) # {}
              => At({"close_not_empty", "close_not_full"})' # {}
    BY <1>2, <2>2, GotoAwake DEF AwaitNotEmpty, AwaitNotFull
  <2> QED BY <1>1, <2>1, <2>2, <2>3, <2>4, <2>5, CapacityAssumption
          DEF NoLostWakeup, SameThrows
<1>3. ASSUME NEW w \in Threads,
             \/ pc[t] = "notify_not_empty" /\ pc[w] \in AwaitNotEmpty
             \/ pc[t] = "notify_not_full" /\ pc[w] \in AwaitNotFull,
             pc' = [pc EXCEPT ![t] = "idle", ![w] = Resume(@)]
      PROVE  NoLostWakeup'
  <2> DEFINE r == Resume(pc[w])
  <2>1. t # w /\ pc' = [pc EXCEPT ![t] = "idle", ![w] = r]
    BY <1>3 DEF TypeOK, AwaitNotEmpty, AwaitNotFull
  <2>2. /\ r \in PCs /\ r \notin AwaitNotEmpty \cup AwaitNotFull
        /\ pc[w] \notin PopComing \cup PushComing
        /\ "idle" \notin PopComing \cup PushComing
        /\ pc[t] \in PopComing <=> r \in PopComing
        /\ pc[t] \in PushComing <=> r \in PushComing
    BY <1>3 DEF Resume, PCs, Calls, AwaitNotEmpty, AwaitNotFull, PopComing, PushComing
  <2> HIDE DEF r
  <2>3. /\ Cardinality(At(PopComing)) \in Nat
        /\ Cardinality(At(PopComing)') = Cardinality(At(PopComing))
    BY <2>1, <2>2, WakeCounts
  <2>4. /\ Cardinality(At(PushComing)) \in Nat
        /\ Cardinality(At(PushComing)') = Cardinality(At(PushComing))
    BY <2>1, <2>2, WakeCounts
  <2>5. /\ At(AwaitNotEmpty)' # {} => At(AwaitNotEmpty) # {}
        /\ At(AwaitNotFull)' # {} => At(AwaitNotFull) # {}
        /\ At({"close_not_empty"}) # {} => At({"close_not_empty"})' # {}
        /\ At({"close_not_empty", "close_not_full"}) # {}
              => At({"close_not_empty", "close_not_full"})' # {}
    BY <1>3, <2>1, <2>2 DEF At, TypeOK, AwaitNotEmpty, AwaitNotFull
  <2> QED BY <1>1, <2>3, <2>4, <2>5, CapacityAssumption DEF NoLostWakeup, SameThrows
<1> QED BY <1>2, <1>3 DEF NotifyNotEmpty, NotifyNotFull, NotifyOne, At

\* A call, an expired deadline and a spurious wakeup only add threads that
\* will look at the queue.
LEMMA WokenAwake ==
  ASSUME TypeOK, NoLostWakeup, NEW t \in Threads,
         Call(t) \/ Timeout(t) \/ SpuriousWakeup(t)
  PROVE  NoLostWakeup'
<1>1. PICK b \in Calls \cup {"timed_out"} : Goto(t, b)
  BY DEF Call, Timeout, SpuriousWakeup, Sleep, Resume, Calls
<1>2. b \in PCs /\ b \notin AwaitNotEmpty \cup AwaitNotFull
  BY DEF PCs, Calls, AwaitNotEmpty, AwaitNotFull
<1>3. pc[t] \notin PopComing \cup PushComing \cup {"close_not_empty", "close_not_full"}
  BY DEF Call, Timeout, SpuriousWakeup, PopComing, PushComing, AwaitNotEmpty, AwaitNotFull
<1>4. /\ Cardinality(At(PopComing)) \in Nat
      /\ Cardinality(At(PopComing)') \in Nat
      /\ Cardinality(At(PopComing)') >= Cardinality(At(PopComing))
  BY <1>1, <1>2, <1>3, GotoCounts
<1>5. /\ Cardinality(At(PushComing)) \in Nat
      /\ Cardinality(At(PushComing)') \in Nat
      /\ Cardinality(At(PushComing)') >= Cardinality(At(PushComing))
  BY <1>1, <1>2, <1>3, GotoCounts
<1>6. /\ At(AwaitNotEmpty)' # {} => At(AwaitNotEmpty) # {}
      /\ At(AwaitNotFull)' # {} => At(AwaitNotFull) # {}
      /\ At({"close_not_empty"}) # {} => At({"close_not_empty"})' # {}
      /\ At({"close_not_empty", "close_not_full"}) # {}
            => At({"close_not_empty", "close_not_full"})' # {}
  BY <1>1, <1>2, <1>3, GotoAwake
<1>7. Len(queue_') = Len(queue_) /\ Len(queue_) \in Nat /\ closed_' = closed_ /\ SameThrows
  BY DEF Call, Timeout, SpuriousWakeup, Sleep, TypeOK, thrown, SameThrows
<1> QED BY <1>4, <1>5, <1>6, <1>7, CapacityAssumption DEF NoLostWakeup, SameThrows

\* close() and its two notify_all calls.
LEMMA CloseAwake ==
  ASSUME TypeOK, NoLostWakeup, NEW t \in Threads,
         Close(t) \/ CloseNotifyNotEmpty(t) \/ CloseNotifyNotFull(t)
  PROVE  NoLostWakeup'
<1>1. CASE Close(t) /\ closed_
  BY <1>1, ReturnAwake DEF Close
<1>2. CASE Close(t) /\ ~closed_
  <2>1. t \in At({"close_not_empty"})' /\ t \in At({"close_not_empty", "close_not_full"})'
    BY <1>2 DEF Close, Goto, At, TypeOK
  <2>2. closed_' = TRUE
    BY <1>2 DEF Close
  <2> QED BY <2>1, <2>2 DEF NoLostWakeup, SameThrows
<1>3. CASE CloseNotifyNotEmpty(t)
  <2>1. UNCHANGED <<queue_, closed_>> /\ SameThrows
    BY <1>3 DEF CloseNotifyNotEmpty, NotifyAll, TypeOK, thrown, SameThrows
  <2>2. At(AwaitNotEmpty)' = {}
    BY <1>3 DEF CloseNotifyNotEmpty, NotifyAll, At, AwaitNotEmpty, Resume
  <2>3. At(AwaitNotFull)' # {} => At(AwaitNotFull) # {}
    BY <1>3 DEF CloseNotifyNotEmpty, NotifyAll, At, AwaitNotEmpty, AwaitNotFull, Resume
  <2>4. t \in At({"close_not_empty", "close_not_full"})'
    BY <1>3 DEF CloseNotifyNotEmpty, NotifyAll, At
  <2>5. At(PushComing)' = At(PushComing)
    BY <1>3 DEF CloseNotifyNotEmpty, NotifyAll, At, PushComing, AwaitNotEmpty, Resume
  <2> QED BY <2>1, <2>2, <2>3, <2>4, <2>5 DEF NoLostWakeup, SameThrows
<1>4. CASE CloseNotifyNotFull(t)
  <2>1. UNCHANGED <<queue_, closed_>> /\ SameThrows
    BY <1>4 DEF CloseNotifyNotFull, NotifyAll, TypeOK, thrown, SameThrows
  <2>2. At(AwaitNotFull)' = {}
    BY <1>4 DEF CloseNotifyNotFull, NotifyAll, At, AwaitNotFull, Resume
  <2>3. /\ At(AwaitNotEmpty)' # {} => At(AwaitNotEmpty) # {}
        /\ At({"close_not_empty"}) # {} => At({"close_not_empty"})' # {}
    BY <1>4 DEF CloseNotifyNotFull, NotifyAll, At, AwaitNotEmpty, AwaitNotFull, Resume
  <2>4. At(PopComing)' = At(PopComing)
    BY <1>4 DEF CloseNotifyNotFull, NotifyAll, At, PopComing, AwaitNotFull, Resume
  <2> QED BY <2>1, <2>2, <2>3, <2>4 DEF NoLostWakeup, SameThrows
<1> QED BY <1>1, <1>2, <1>3, <1>4

(***************************************************************************)
(* Only a call that throws loses a wakeup, and then one, although the code *)
(* notifies after it unlocks: for any number of threads, any capacity and  *)
(* any number of exceptions, the values (places) beside a sleeping thread  *)
(* are matched by threads to come or by removals (insertions) that threw.  *)
(***************************************************************************)
THEOREM WakeupsNotLost == Spec => []NoLostWakeup
<1>1. Init => NoLostWakeup
  BY DEF Init, NoLostWakeup, At, AwaitNotEmpty, AwaitNotFull
<1>2. TypeOK /\ NoLostWakeup /\ [Next]_vars => NoLostWakeup'
  <2> SUFFICES ASSUME TypeOK, NoLostWakeup, [Next]_vars PROVE NoLostWakeup'
    OBVIOUS
  <2>1. CASE UNCHANGED vars
    <3>1. \A S : At(S)' = At(S)
      BY <2>1 DEF vars, At
    <3> QED BY <2>1, <3>1 DEF NoLostWakeup, vars, thrown
  <2>2. ASSUME NEW t \in Threads, Push(t) \/ TryPush(t) PROVE NoLostWakeup'
    BY <2>2, EmplaceBackAwake, ThrowAwake, ReturnAwake, SleepAwake DEF Push, TryPush
  <2>3. ASSUME NEW t \in Threads, TryPop(t) \/ WaitPop(t) PROVE NoLostWakeup'
    BY <2>3, PopFrontAwake, ThrowAwake, ReturnAwake, SleepAwake DEF TryPop, WaitPop
  <2>4. ASSUME NEW t \in Threads, WaitPopFor(t) PROVE NoLostWakeup'
    BY <2>4, PopFrontAwake, ThrowAwake, ReturnAwake, SleepAwake DEF WaitPopFor
  <2> QED
    BY <2>1, <2>2, <2>3, <2>4, WokenAwake, NotifyAwake, CloseAwake DEF Next, Step
<1> QED BY <1>1, <1>2, TypeCorrect, PTL DEF Spec

(***************************************************************************)
(* The queue never exceeds its capacity, whatever insertions race.         *)
(***************************************************************************)
THEOREM CapacityRespected == Spec => []CapacityBound
<1>1. Init => CapacityBound
  BY CapacityAssumption DEF Init, CapacityBound
<1>2. TypeOK /\ CapacityBound /\ [Next]_vars => CapacityBound'
  <2> SUFFICES ASSUME TypeOK, CapacityBound, [Next]_vars PROVE CapacityBound'
    OBVIOUS
  <2>1. CASE UNCHANGED queue_
    BY <2>1 DEF CapacityBound
  <2>2. ASSUME NEW t \in Threads, EmplaceBack(t), ~full_locked PROVE CapacityBound'
    BY <2>2, CapacityAssumption DEF EmplaceBack, full_locked, CapacityBound, TypeOK
  <2>3. ASSUME NEW t \in Threads, PopFront(t), queue_ # << >> PROVE CapacityBound'
    BY <2>3, CapacityAssumption DEF PopFront, CapacityBound, TypeOK
  <2> QED
    BY <2>1, <2>2, <2>3
    DEF Next, Step, Call, Push, TryPush, TryPop, WaitPop, WaitPopFor, Timeout,
        NotifyNotEmpty, NotifyNotFull, Close, CloseNotifyNotEmpty,
        CloseNotifyNotFull, NotifyAll, SpuriousWakeup, Return, Sleep, vars,
        EmplaceThrows, PopThrows
<1> QED BY <1>1, <1>2, TypeCorrect, PTL DEF Spec

-----------------------------------------------------------------------------
\* Moving the head of q to the end of s, and appending to q, seen on s \o q.
LEMMA ShiftHead ==
  ASSUME NEW V, NEW s \in Seq(V), NEW q \in Seq(V), q # << >>
  PROVE  Append(s, Head(q)) \o Tail(q) = s \o q
<1> DEFINE l == Append(s, Head(q)) \o Tail(q)
           r == s \o q
<1>1. /\ Append(s, Head(q)) \in Seq(V) /\ Tail(q) \in Seq(V)
      /\ Len(Append(s, Head(q))) = Len(s) + 1 /\ Len(Tail(q)) = Len(q) - 1
      /\ Len(q) \in Nat /\ Len(q) > 0 /\ Len(s) \in Nat
  OBVIOUS
<1>2. l \in Seq(V) /\ r \in Seq(V) /\ Len(l) = Len(s) + Len(q) /\ Len(r) = Len(s) + Len(q)
  BY <1>1
<1>3. ASSUME NEW i \in 1..(Len(s) + Len(q)) PROVE l[i] = r[i]
  <2>1. CASE i <= Len(s)
    BY <1>1, <2>1
  <2>2. CASE i = Len(s) + 1
    BY <1>1, <2>2
  <2>3. CASE i > Len(s) + 1
    BY <1>1, <2>3
  <2> QED BY <1>1, <2>1, <2>2, <2>3
<1> HIDE DEF l, r
<1>4. l = r
  BY <1>2, <1>3, SeqEqual
<1> QED BY <1>4 DEF l, r

LEMMA ShiftAppend ==
  ASSUME NEW V, NEW s \in Seq(V), NEW q \in Seq(V), NEW v \in V
  PROVE  s \o Append(q, v) = Append(s \o q, v)
<1> DEFINE l == s \o Append(q, v)
           r == Append(s \o q, v)
<1>1. /\ l \in Seq(V) /\ r \in Seq(V)
      /\ Len(l) = Len(s) + Len(q) + 1 /\ Len(r) = Len(s) + Len(q) + 1
  OBVIOUS
<1>2. ASSUME NEW i \in 1..(Len(s) + Len(q) + 1) PROVE l[i] = r[i]
  <2>1. CASE i <= Len(s)
    BY <2>1
  <2>2. CASE i > Len(s) /\ i <= Len(s) + Len(q)
    BY <2>2
  <2>3. CASE i = Len(s) + Len(q) + 1
    BY <2>3
  <2> QED BY <2>1, <2>2, <2>3
<1> HIDE DEF l, r
<1>3. l = r
  BY <1>1, <1>2, SeqEqual
<1> QED BY <1>3 DEF l, r

(***************************************************************************)
(* Every value accepted by push is handed out exactly once and in its      *)
(* producer's order, or is still stored, for any mix of blocking, trying,  *)
(* timed and closing calls.                                                *)
(***************************************************************************)
THEOREM FifoDelivery == Spec => []FifoExactlyOnce
<1>1. Init => FifoExactlyOnce
  BY DEF Init, FifoExactlyOnce, flow
<1>2. TypeOK /\ FifoExactlyOnce /\ [Next]_vars => FifoExactlyOnce'
  <2> SUFFICES ASSUME TypeOK, FifoExactlyOnce, [Next]_vars PROVE FifoExactlyOnce'
    OBVIOUS
  <2>1. CASE UNCHANGED <<queue_, taken, sent>>
    BY <2>1 DEF FifoExactlyOnce, flow
  <2>2. ASSUME NEW t \in Threads, EmplaceBack(t) PROVE FifoExactlyOnce'
    <3> DEFINE v == <<t, sent[t]>>
    <3>1. v \in Values /\ v[1] = t /\ v[2] = sent[t]
      BY DEF TypeOK, Values
    <3>2. flow \in Seq(Values)
      BY DEF flow, TypeOK
    <3>3. flow' = Append(flow, v)
      BY <2>2, <3>1, ShiftAppend DEF EmplaceBack, flow, TypeOK
    <3>4. /\ Len(flow') = Len(flow) + 1 /\ Len(flow) \in Nat
          /\ DOMAIN flow' = 1..(Len(flow) + 1) /\ DOMAIN flow = 1..Len(flow)
          /\ \A i \in 1..Len(flow) : flow'[i] = flow[i] /\ flow[i] \in Values
          /\ flow'[Len(flow) + 1] = v
      BY <3>1, <3>2, <3>3
    <3>5. /\ sent' = [sent EXCEPT ![t] = sent[t] + 1]
          /\ sent \in [Threads -> Nat]
      BY <2>2 DEF EmplaceBack, TypeOK
    <3> HIDE DEF v
    <3>6. \A u \in Threads : \A k \in 0..(sent'[u] - 1) :
             \E i \in DOMAIN flow' : flow'[i] = <<u, k>>
      <4> SUFFICES ASSUME NEW u \in Threads, NEW k \in 0..(sent'[u] - 1)
                   PROVE  \E i \in DOMAIN flow' : flow'[i] = <<u, k>>
        OBVIOUS
      <4>1. CASE u = t /\ k = sent[t]
        BY <3>4, <4>1 DEF v
      <4>2. CASE ~(u = t /\ k = sent[t])
        <5>1. k \in 0..(sent[u] - 1)
          BY <3>5, <4>2
        <5>2. PICK i \in DOMAIN flow : flow[i] = <<u, k>>
          BY <5>1 DEF FifoExactlyOnce
        <5> QED BY <3>4, <5>2
      <4> QED BY <4>1, <4>2
    <3>7. \A i \in DOMAIN flow' : flow'[i][2] < sent'[flow'[i][1]]
      <4> SUFFICES ASSUME NEW i \in DOMAIN flow' PROVE flow'[i][2] < sent'[flow'[i][1]]
        OBVIOUS
      <4>1. CASE i \in DOMAIN flow
        <5>1. flow'[i] = flow[i] /\ flow[i][1] \in Threads /\ flow[i][2] \in Nat
          BY <3>4, <4>1 DEF Values
        <5>2. flow[i][2] < sent[flow[i][1]]
          BY <4>1 DEF FifoExactlyOnce
        <5> QED BY <3>5, <5>1, <5>2
      <4>2. CASE i = Len(flow) + 1
        BY <3>1, <3>4, <3>5, <4>2
      <4> QED BY <3>4, <4>1, <4>2
    <3>8. \A i, j \in DOMAIN flow' :
             i < j /\ flow'[i][1] = flow'[j][1] => flow'[i][2] < flow'[j][2]
      <4> SUFFICES ASSUME NEW i \in DOMAIN flow', NEW j \in DOMAIN flow',
                          i < j, flow'[i][1] = flow'[j][1]
                   PROVE  flow'[i][2] < flow'[j][2]
        OBVIOUS
      <4>1. i \in DOMAIN flow /\ flow'[i] = flow[i]
        BY <3>4
      <4>2. CASE j \in DOMAIN flow
        BY <3>4, <4>1, <4>2 DEF FifoExactlyOnce
      <4>3. CASE j = Len(flow) + 1
        <5>1. flow[i][1] = t
          BY <3>1, <3>4, <4>1, <4>3
        <5>2. flow[i][2] < sent[t]
          BY <4>1, <5>1 DEF FifoExactlyOnce
        <5> QED BY <3>1, <3>4, <4>1, <4>3, <5>2
      <4> QED BY <3>4, <4>2, <4>3
    <3> QED BY <3>6, <3>7, <3>8 DEF FifoExactlyOnce
  <2>3. ASSUME NEW t \in Threads, PopFront(t), queue_ # << >> PROVE FifoExactlyOnce'
    <3>1. flow' = flow
      BY <2>3, ShiftHead DEF PopFront, flow, TypeOK
    <3> QED BY <2>3, <3>1 DEF PopFront, FifoExactlyOnce
  <2> QED
    BY <2>1, <2>2, <2>3
    DEF Next, Step, Call, Push, TryPush, TryPop, WaitPop, WaitPopFor, Timeout,
        NotifyNotEmpty, NotifyNotFull, Close, CloseNotifyNotEmpty,
        CloseNotifyNotFull, NotifyAll, SpuriousWakeup, Return, Sleep, vars,
        EmplaceThrows, PopThrows
<1> QED BY <1>1, <1>2, TypeCorrect, PTL DEF Spec

-----------------------------------------------------------------------------
\* A thread that moves changes only its own call.
LEMMA CallMoves ==
  ASSUME TypeOK, NEW t \in Threads, NEW b \in PCs, Goto(t, b)
  PROVE  call' = [call EXCEPT ![t] = CallAt(b)]
  BY DEF TypeOK, Goto, call

\* What a caller knows of a label.
LEMMA CallLabels ==
  /\ CallAt("idle") = "none"
  /\ \A op \in Calls : CallAt(op) = op
  /\ CallAt("await_push") = "push" /\ CallAt("await_pop") = "wait_pop"
  /\ CallAt("await_pop_for") = "wait_pop_for" /\ CallAt("timed_out") = "wait_pop_for"
  /\ \A label \in {"notify_not_empty", "notify_not_full", "close_not_empty", "close_not_full"} :
        CallAt(label) = "answered"
  BY DEF CallAt, Calls

LEMMA ResumeCall ==
  ASSUME NEW label \in AwaitNotEmpty \cup AwaitNotFull
  PROVE  Resume(label) \in PCs /\ CallAt(Resume(label)) = CallAt(label)
<1>1. label \in {"await_push", "await_pop", "await_pop_for"}
  BY DEF AwaitNotEmpty, AwaitNotFull
<1>2. Resume(label) \in Calls /\ CallAt(Resume(label)) = CallAt(label)
  BY <1>1, CallLabels DEF Resume, Calls
<1> QED BY <1>2 DEF PCs

\* Where a call of the code changes the queue or gives up, so does the promise.
LEMMA AppendPromised ==
  ASSUME TypeOK, NEW t \in Threads, pc[t] \in {"push", "try_push"}, ~closed_, ~full_locked,
         EmplaceBack(t)
  PROVE  Promise!Insert(t)
<1>1. call' = [call EXCEPT ![t] = "answered"]
  BY CallMoves, CallLabels DEF EmplaceBack, PCs
<1>2. call[t] = pc[t]
  BY CallLabels DEF call, Calls
<1> QED BY <1>1, <1>2
        DEF EmplaceBack, full_locked, Promise!Insert, Promise!Insertions, Promise!Full,
            Promise!Becomes, thrown

LEMMA PopPromised ==
  ASSUME TypeOK, NEW t \in Threads, queue_ # << >>,
         pc[t] \in {"try_pop", "wait_pop", "wait_pop_for", "timed_out"}, PopFront(t)
  PROVE  Promise!Remove(t)
<1>1. call' = [call EXCEPT ![t] = "answered"]
  BY CallMoves, CallLabels DEF PopFront, PCs
<1>2. call[t] \in {"try_pop", "wait_pop", "wait_pop_for"}
  BY CallLabels DEF call, Calls
<1> QED BY <1>1, <1>2 DEF PopFront, Promise!Remove, Promise!Removals, Promise!Becomes, thrown

LEMMA ReturnPromised ==
  ASSUME TypeOK, NEW t \in Threads, Return(t),
         \/ pc[t] \in {"push", "try_push", "close"} /\ closed_
         \/ pc[t] = "try_push" /\ full_locked
         \/ pc[t] = "wait_pop" /\ queue_ = << >> /\ closed_
         \/ pc[t] \in {"try_pop", "wait_pop_for", "timed_out"} /\ queue_ = << >>
  PROVE  Promise!Return(t)
<1>1. call' = [call EXCEPT ![t] = "none"]
  BY CallMoves, CallLabels DEF Return, PCs
<1>2. call[t] = CallAt(pc[t])
  BY DEF call
<1> QED BY <1>1, <1>2, CallLabels
        DEF Return, Calls, full_locked, Promise!Return, Promise!Insertions, Promise!Removals,
            Promise!Full, Promise!Becomes, thrown

LEMMA ThrowPromised ==
  ASSUME TypeOK, NEW t \in Threads,
         \/ pc[t] \in {"push", "try_push"} /\ ~closed_ /\ ~full_locked /\ EmplaceThrows(t)
         \/ /\ pc[t] \in {"try_pop", "wait_pop", "wait_pop_for", "timed_out"}
            /\ queue_ # << >> /\ PopThrows(t)
  PROVE  Promise!Fail(t)
<1>1. call' = [call EXCEPT ![t] = "none"]
  BY CallMoves, CallLabels DEF EmplaceThrows, PopThrows, PCs
<1>2. call[t] = CallAt(pc[t])
  BY DEF call
<1>3. (push_throws + pop_throws)' = push_throws + pop_throws + 1
  BY DEF EmplaceThrows, PopThrows, TypeOK
<1> QED BY <1>1, <1>2, <1>3, CallLabels
        DEF EmplaceThrows, PopThrows, Calls, full_locked, Promise!Fail, Promise!Insertions,
            Promise!Removals, Promise!Full, Promise!Becomes, thrown

\* Sleeping, waking and the second notification of close() are not seen.
LEMMA UnseenMove ==
  ASSUME TypeOK, NEW t \in Threads, NEW b \in PCs, Sleep(t, b), CallAt(b) = CallAt(pc[t])
  PROVE  UNCHANGED Promise!vars
<1>1. call' = call
  BY CallMoves DEF Sleep, call, TypeOK
<1> QED BY <1>1 DEF Sleep, Promise!vars, thrown

(***************************************************************************)
(* Every step of the queue is a step of the closable bounded FIFO or is    *)
(* not seen by its callers, for any number of threads, capacity and        *)
(* pushes: what the thread pool, the outbound queue of the bridge and any  *)
(* other user may count on.                                                *)
(***************************************************************************)
THEOREM RefinesQueue == Spec => ImplementsQueue
<1>1. Init => Promise!Init
  <2> SUFFICES ASSUME Init PROVE Promise!Init
    OBVIOUS
  <2>1. call = [t \in Threads |-> "none"]
    BY CallLabels DEF Init, call
  <2> QED BY <2>1 DEF Init, Promise!Init
<1>2. TypeOK /\ [Next]_vars => [Promise!Next]_(Promise!vars)
  <2> SUFFICES ASSUME TypeOK, [Next]_vars PROVE [Promise!Next]_(Promise!vars)
    OBVIOUS
  <2>1. CASE UNCHANGED vars
    BY <2>1 DEF vars, Promise!vars, call, thrown
  <2>2. ASSUME NEW t \in Threads, Call(t) PROVE Promise!Begin(t)
    <3>1. PICK op \in Calls : Goto(t, op)
      BY <2>2 DEF Call
    <3>2. call' = [call EXCEPT ![t] = op]
      BY <3>1, CallMoves, CallLabels DEF PCs
    <3>3. call[t] = "none"
      BY <2>2, CallLabels DEF Call, call
    <3> QED BY <2>2, <3>2, <3>3
            DEF Call, Calls, Promise!Begin, Promise!Becomes, Promise!Insertions, Promise!Removals, thrown
  <2>3. ASSUME NEW t \in Threads, Push(t) \/ TryPush(t)
        PROVE  Promise!Insert(t) \/ Promise!Fail(t) \/ Promise!Return(t) \/ UNCHANGED Promise!vars
    <3>1. "await_push" \in PCs /\ CallAt("await_push") = CallAt("push")
      BY CallLabels DEF PCs, AwaitNotFull, Calls
    <3> QED BY <2>3, <3>1, AppendPromised, ThrowPromised, ReturnPromised, UnseenMove DEF Push, TryPush
  <2>4. ASSUME NEW t \in Threads, TryPop(t) \/ WaitPop(t) \/ WaitPopFor(t)
        PROVE  Promise!Remove(t) \/ Promise!Fail(t) \/ Promise!Return(t) \/ UNCHANGED Promise!vars
    <3>1. /\ "await_pop" \in PCs /\ CallAt("await_pop") = CallAt("wait_pop")
          /\ "await_pop_for" \in PCs /\ CallAt("await_pop_for") = CallAt("wait_pop_for")
      BY CallLabels DEF PCs, AwaitNotEmpty, Calls
    <3> QED BY <2>4, <3>1, PopPromised, ThrowPromised, ReturnPromised, UnseenMove
            DEF TryPop, WaitPop, WaitPopFor
  <2>5. ASSUME NEW t \in Threads, NotifyNotEmpty(t) \/ NotifyNotFull(t) PROVE Promise!Return(t)
    <3>1. call[t] = "answered" /\ UNCHANGED <<queue_, closed_, sent, taken, thrown>>
      BY <2>5, CallLabels DEF NotifyNotEmpty, NotifyNotFull, call
    <3>2. call' = [call EXCEPT ![t] = "none"]
      <4>1. CASE Goto(t, "idle")
        BY <4>1, CallMoves, CallLabels DEF PCs
      <4>2. ASSUME NEW w \in At(AwaitNotEmpty \cup AwaitNotFull),
                   pc' = [pc EXCEPT ![t] = "idle", ![w] = Resume(@)]
            PROVE  call' = [call EXCEPT ![t] = "none"]
        <5>1. w \in Threads /\ w # t /\ pc[w] \in AwaitNotEmpty \cup AwaitNotFull
          BY <2>5 DEF At, NotifyNotEmpty, NotifyNotFull, AwaitNotEmpty, AwaitNotFull
        <5>2. CallAt(Resume(pc[w])) = CallAt(pc[w])
          BY <5>1, ResumeCall
        <5>3. \A u \in Threads :
                 pc'[u] = IF u = t THEN "idle" ELSE IF u = w THEN Resume(pc[w]) ELSE pc[u]
          BY <4>2, <5>1 DEF TypeOK
        <5>4. \A u \in Threads : CallAt(pc'[u]) = IF u = t THEN "none" ELSE CallAt(pc[u])
          BY <5>2, <5>3, CallLabels
        <5> QED BY <5>4 DEF call
      <4> QED BY <2>5, <4>1, <4>2 DEF NotifyNotEmpty, NotifyNotFull, NotifyOne, At
    <3> QED BY <3>1, <3>2 DEF Promise!Return, Promise!Becomes, thrown
  <2>6. ASSUME NEW t \in Threads, NEW awaiting \in {AwaitNotEmpty, AwaitNotFull}, NEW b \in PCs,
               NotifyAll(t, awaiting, b)
        PROVE  call' = [call EXCEPT ![t] = CallAt(b)] /\ UNCHANGED <<queue_, closed_, sent, taken, thrown>>
    <3>1. \A u \in Threads :
             pc'[u] = IF u = t THEN b ELSE IF pc[u] \in awaiting THEN Resume(pc[u]) ELSE pc[u]
      BY <2>6 DEF NotifyAll
    <3>2. \A u \in Threads : pc[u] \in awaiting => CallAt(Resume(pc[u])) = CallAt(pc[u])
      BY ResumeCall
    <3>3. \A u \in Threads : CallAt(pc'[u]) = IF u = t THEN CallAt(b) ELSE CallAt(pc[u])
      BY <3>1, <3>2
    <3> QED BY <2>6, <3>3 DEF NotifyAll, call
  <2>7. ASSUME NEW t \in Threads, Close(t) PROVE Promise!Close(t) \/ Promise!Return(t)
    <3>1. call[t] = "close"
      BY <2>7, CallLabels DEF Close, call, Calls
    <3>2. CASE closed_ /\ Return(t)
      BY <2>7, <3>2, ReturnPromised DEF Close
    <3>3. CASE /\ ~closed_ /\ closed_' = TRUE /\ Goto(t, "close_not_empty")
               /\ UNCHANGED <<queue_, sent, taken, thrown>>
      <4>1. call' = [call EXCEPT ![t] = "answered"]
        BY <3>3, CallMoves, CallLabels DEF PCs
      <4> QED BY <3>1, <3>3, <4>1 DEF Promise!Close, Promise!Becomes, thrown
    <3> QED BY <2>7, <3>2, <3>3 DEF Close
  <2>8. ASSUME NEW t \in Threads, CloseNotifyNotEmpty(t) PROVE UNCHANGED Promise!vars
    <3>1. call[t] = "answered" /\ CallAt("close_not_full") = "answered" /\ "close_not_full" \in PCs
      BY <2>8, CallLabels DEF CloseNotifyNotEmpty, call, PCs
    <3>2. call' = [call EXCEPT ![t] = "answered"] /\ UNCHANGED <<queue_, closed_, sent, taken, thrown>>
      BY <2>6, <2>8, <3>1 DEF CloseNotifyNotEmpty
    <3> QED BY <3>1, <3>2 DEF Promise!vars, call, thrown
  <2>9. ASSUME NEW t \in Threads, CloseNotifyNotFull(t) PROVE Promise!Return(t)
    <3>1. call[t] = "answered" /\ CallAt("idle") = "none" /\ "idle" \in PCs
      BY <2>9, CallLabels DEF CloseNotifyNotFull, call, PCs
    <3>2. call' = [call EXCEPT ![t] = "none"] /\ UNCHANGED <<queue_, closed_, sent, taken, thrown>>
      BY <2>6, <2>9, <3>1 DEF CloseNotifyNotFull
    <3> QED BY <3>1, <3>2 DEF Promise!Return, Promise!Becomes, thrown
  <2>10. ASSUME NEW t \in Threads, Timeout(t) \/ SpuriousWakeup(t) PROVE UNCHANGED Promise!vars
    <3>1. "timed_out" \in PCs /\ CallAt("timed_out") = CallAt("await_pop_for")
      BY CallLabels DEF PCs
    <3> QED BY <2>10, <3>1, UnseenMove, ResumeCall DEF Timeout, SpuriousWakeup
  <2> QED BY <2>1, <2>2, <2>3, <2>4, <2>5, <2>7, <2>8, <2>9, <2>10 DEF Next, Step, Promise!Next
<1> QED BY <1>1, <1>2, TypeCorrect, PTL DEF Spec, Promise!Spec, ImplementsQueue
=============================================================================

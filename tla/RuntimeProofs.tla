---------------------------- MODULE RuntimeProofs ----------------------------
(***************************************************************************)
(* Machine-checked proofs about Runtime, for every set of threads, topics, *)
(* types and subscriptions, every queue depth, both overflow policies and  *)
(* any number of messages.                                                 *)
(***************************************************************************)
EXTENDS Runtime, FiniteSetTheorems, TLAPS

\* Where a publish call is, from its snapshot to its return.
FanoutCalls == {"fanout", "execute", "refused", "threw"}
PublishCalls == FanoutCalls \cup {"dispatch"}
\* The head of the list has been served, and its drain is being posted.
PostCalls == {"execute", "refused", "threw"}
CancelCalls == {"unsubscribe", "wait_idle"}

Block ==
  [pending : Seq(Messages), active : BOOLEAN, scheduled : BOOLEAN, in_flight : Int,
   callback_thread : Workers \cup {NoThread}, overflow_policy : overflow_policies]

\* The types that the other parts need; in_flight is left an integer.
RuntimeTypes ==
  /\ accepting \in BOOLEAN
  /\ topics \in [Topics -> Types \cup {NoType}]
  /\ registered \in [Topics -> SUBSET Subs]
  /\ publishers \in SUBSET [topic : Topics, type : Types]
  /\ handle \in [Subs -> {"new", "held", "closing", "kept", "closed"}]
  /\ blocks \in [Subs -> Block]
  /\ dispatch \in [Topics -> Threads \cup {NoThread}]
  /\ pc \in [Workers -> {"free", "drain", "callback"}]
  /\ serving \in [Workers -> Subs \cup {NoSub}]
  /\ call \in [Threads -> Calls]
  /\ todo \in [Threads -> Seq(Subs)]
  /\ msg \in [Threads -> Messages \cup {0}]
  /\ content \in Seq([topic : Topics, type : Types]) /\ Len(content) <= MaxMessages
  /\ drains \in [Subs -> Nat]
  /\ executorOpen \in BOOLEAN /\ executorDone \in BOOLEAN
  /\ joiner \in Threads \cup {NoThread}
  /\ begun \in [Subs -> Seq(Messages)]

\* A worker that is not free serves a subscription, a call that is about to
\* touch the head of its list has one, and only handles that were made count.
Busy ==
  /\ \A w \in Workers : pc[w] # "free" => serving[w] \in Subs
  /\ \A t \in Threads : call[t] \in PostCalls \cup CancelCalls => todo[t] # << >>
  /\ IsFiniteSet({s \in Subs : handle[s] # "new"})

-----------------------------------------------------------------------------
\* What a sequence of messages holds, and what it holds before what.
In(S, x) == \E i \in 1..Len(S) : S[i] = x
Before(S, x, y) == \E i, j \in 1..Len(S) : i < j /\ S[i] = x /\ S[j] = y

\* T holds nothing that S does not, in no other order.
Thinner(T, S) ==
  \A x \in Messages :
     /\ In(T, x) => In(S, x)
     /\ \A y \in Messages : Before(T, x, y) => Before(S, x, y)

\* The same, but for a message m behind everything.
Extended(T, S, m) ==
  \A x \in Messages :
     /\ In(T, x) => In(S, x) \/ x = m
     /\ \A y \in Messages : Before(T, x, y) => Before(S, x, y) \/ (In(S, x) /\ y = m)

\* The subscriptions a call has still to visit, and those of them whose
\* mailbox the message has not been offered to.
Visits(t, s) == \E i \in 1..Len(todo[t]) : todo[t][i] = s
Ahead(t, s) == \E i \in 1..Len(todo[t]) : todo[t][i] = s /\ (call[t] \in PostCalls => i > 1)

-----------------------------------------------------------------------------
\* A topic's type never changes, and everything that was registered with the
\* topic or published on it agrees with it.
ContentTyped ==
  \A m \in 1..Len(content) : content[m].type = topics[content[m].topic]
HandlesTyped ==
  \A s \in Subs : handle[s] # "new" => topics[TopicOf[s]] = TypeOf[s]
RecordsTyped ==
  \A p \in Topics : \A s \in registered[p] : TopicOf[s] = p /\ handle[s] # "new"
SnapshotsTyped ==
  \A t \in Threads : call[t] \in PublishCalls =>
     /\ msg[t] \in 1..Len(content)
     /\ \A s \in Subs : Visits(t, s) =>
           TopicOf[s] = content[msg[t]].topic /\ handle[s] # "new"
StreamsTyped ==
  \A s \in Subs : \A x \in Messages : In(Stream(s), x) =>
     /\ x \in 1..Len(content)
     /\ content[x].topic = TopicOf[s] /\ content[x].type = TypeOf[s]
ContractInv ==
  ContentTyped /\ HandlesTyped /\ RecordsTyped /\ SnapshotsTyped /\ StreamsTyped

-----------------------------------------------------------------------------
\* A thread in the fan-out of a topic owns its dispatch_mutex.
FanoutLocked ==
  \A t \in Threads : call[t] \in FanoutCalls => dispatch[content[msg[t]].topic] = t
OwnMessage ==
  \A t, u \in Threads :
     t # u /\ call[t] \in PublishCalls /\ call[u] \in PublishCalls => msg[t] # msg[u]
\* A snapshot lists a subscription once.
ListedOnce ==
  \A t \in Threads : call[t] \in PublishCalls =>
     \A i, j \in 1..Len(todo[t]) : todo[t][i] = todo[t][j] => i = j
\* No two subscriptions of a topic hold two messages in opposite orders; with
\* s = r and x = y: none holds a message twice.
NoInversion ==
  \A s, r \in Subs : TopicOf[s] = TopicOf[r] =>
     \A x, y \in Messages : ~(Before(Stream(s), x, y) /\ Before(Stream(r), y, x))
\* A message that is being fanned out is the last one wherever it is.
FanoutLast ==
  \A t \in Threads : call[t] \in FanoutCalls =>
     \A s \in Subs, y \in Messages : ~Before(Stream(s), msg[t], y)
\* It has not reached the subscriptions ahead.
NotYetThere ==
  \A t \in Threads : call[t] \in PublishCalls =>
     \A s \in Subs : call[t] = "dispatch" \/ Ahead(t, s) => ~In(Stream(s), msg[t])
OrderInv ==
  /\ FanoutLocked /\ OwnMessage /\ ListedOnce
  /\ NoInversion /\ FanoutLast /\ NotYetThere

-----------------------------------------------------------------------------
\* Cancelling makes inactive; a live subscription is registered, or on the
\* list of the thread that stops the bus.
CancelledInactive ==
  \A s \in Subs : handle[s] \in {"closing", "kept", "closed"} => ~blocks[s].active
BeingCancelled ==
  \A t \in Threads : call[t] \in CancelCalls =>
     handle[Head(todo[t])] \in {"closing", "kept", "closed"}
LiveKnown ==
  \A s \in Subs : handle[s] # "new" /\ blocks[s].active =>
     \/ accepting /\ s \in registered[TopicOf[s]]
     \/ \E t \in Threads : call[t] = "stop_cancel" /\ Visits(t, s)
\* The executor is closed before it is joined, and stays drained afterwards.
Joining ==
  \A t \in Threads : /\ call[t] \in {"ex_lock", "ex_join"} => ~executorOpen
                     /\ call[t] = "ex_join" => joiner = t
Joined ==
  executorDone =>
     /\ joiner \in Threads /\ ~executorOpen
     /\ \A w \in Workers \ {joiner} : pc[w] = "free"
     /\ Workers # {joiner} => \A s \in Subs : drains[s] = 0
StopInv == CancelledInactive /\ BeingCancelled /\ LiveKnown /\ Joining /\ Joined

\* The inductive invariant.
RuntimeInv == RuntimeTypes /\ Busy /\ ContractInv /\ OrderInv /\ StopInv

-----------------------------------------------------------------------------
(* What the steps do to a stream: a callback begins, the mailbox is        *)
(* emptied, its oldest message is dropped, a message is added to it.       *)

LEMMA StreamEmptied ==
  ASSUME NEW a \in Seq(Messages), NEW p \in Seq(Messages)
  PROVE  Thinner(a \o << >>, a \o p)
<1> DEFINE T == a \o << >>
           S == a \o p
<1>1. /\ Len(T) = Len(a) /\ Len(S) = Len(a) + Len(p)
      /\ Len(a) \in Nat /\ Len(p) \in Nat
      /\ \A i \in 1..Len(a) : T[i] = a[i] /\ S[i] = a[i]
  OBVIOUS
<1> HIDE DEF T, S
<1>2. \A i \in 1..Len(T) : i \in 1..Len(S) /\ T[i] = S[i]
  BY <1>1
<1> QED BY <1>2 DEF Thinner, In, Before, T, S

LEMMA StreamTail ==
  ASSUME NEW a \in Seq(Messages), NEW p \in Seq(Messages), p # << >>
  PROVE  Thinner(a \o Tail(p), a \o p)
<1> DEFINE T == a \o Tail(p)
           S == a \o p
           f(i) == IF i <= Len(a) THEN i ELSE i + 1
<1>1. /\ Len(T) = Len(a) + Len(p) - 1 /\ Len(S) = Len(a) + Len(p)
      /\ Len(a) \in Nat /\ Len(p) \in Nat
      /\ \A i \in 1..Len(T) : T[i] = S[f(i)]
  OBVIOUS
<1> HIDE DEF T, S
<1>2. /\ \A i \in 1..Len(T) : f(i) \in 1..Len(S) /\ T[i] = S[f(i)]
      /\ \A i, j \in 1..Len(T) : i < j => f(i) < f(j)
  BY <1>1
<1> HIDE DEF f
<1>3. Thinner(T, S)
  <2> SUFFICES ASSUME NEW x \in Messages
               PROVE  /\ In(T, x) => In(S, x)
                      /\ \A y \in Messages : Before(T, x, y) => Before(S, x, y)
    BY DEF Thinner
  <2>1. In(T, x) => In(S, x)
    BY <1>2 DEF In
  <2>2. ASSUME NEW y \in Messages, Before(T, x, y) PROVE Before(S, x, y)
    BY <1>2, <2>2 DEF Before
  <2> QED BY <2>1, <2>2
<1> QED BY <1>3 DEF T, S

LEMMA StreamBegun ==
  ASSUME NEW a \in Seq(Messages), NEW p \in Seq(Messages), p # << >>
  PROVE  Thinner(Append(a, Head(p)) \o Tail(p), a \o p)
<1> DEFINE T == Append(a, Head(p)) \o Tail(p)
           S == a \o p
<1>1. Head(p) \in Messages /\ Tail(p) \in Seq(Messages)
      /\ Len(Tail(p)) = Len(p) - 1 /\ Len(p) \in Nat \ {0} /\ Len(a) \in Nat
  OBVIOUS
<1>2. Append(a, Head(p)) \in Seq(Messages) /\ Len(Append(a, Head(p))) = Len(a) + 1
  BY <1>1
<1>3. Len(T) = Len(S)
  BY <1>1, <1>2
<1>4. \A i \in 1..Len(T) : T[i] = S[i]
  BY <1>1, <1>2
<1> HIDE DEF T, S
<1> QED BY <1>3, <1>4 DEF Thinner, In, Before, T, S

LEMMA StreamAppended ==
  ASSUME NEW a \in Seq(Messages), NEW p \in Seq(Messages), NEW m \in Messages
  PROVE  Extended(a \o Append(p, m), a \o p, m)
<1> DEFINE T == a \o Append(p, m)
           S == a \o p
<1>1. /\ Len(T) = Len(S) + 1 /\ Len(S) \in Nat
      /\ \A i \in 1..Len(S) : T[i] = S[i]
      /\ T[Len(S) + 1] = m
  OBVIOUS
<1> HIDE DEF T, S
<1>2. /\ \A i \in 1..Len(T) : (i \in 1..Len(S) /\ T[i] = S[i]) \/ T[i] = m
      /\ \A i, j \in 1..Len(T) : i < j => /\ i \in 1..Len(S) /\ T[i] = S[i]
                                          /\ (j \in 1..Len(S) /\ T[j] = S[j]) \/ T[j] = m
  BY <1>1
<1>3. ASSUME NEW x \in Messages, In(T, x) PROVE In(S, x) \/ x = m
  BY <1>2, <1>3 DEF In
<1>4. ASSUME NEW x \in Messages, NEW y \in Messages, Before(T, x, y)
      PROVE  Before(S, x, y) \/ (In(S, x) /\ y = m)
  BY <1>2, <1>4 DEF In, Before
<1> QED BY <1>3, <1>4 DEF Extended, T, S

\* A mailbox that drops its oldest message for the new one.
LEMMA StreamRolled ==
  ASSUME NEW a \in Seq(Messages), NEW p \in Seq(Messages), NEW m \in Messages, p # << >>
  PROVE  Extended(a \o Append(Tail(p), m), a \o p, m)
<1>1. Tail(p) \in Seq(Messages)
  OBVIOUS
<1> DEFINE T == a \o Append(Tail(p), m)
           R == a \o Tail(p)
           S == a \o p
<1>2. Extended(T, R, m)
  BY <1>1, StreamAppended
<1>3. Thinner(R, S)
  BY StreamTail
<1> HIDE DEF T, R, S
<1>4. Extended(T, S, m)
  BY <1>2, <1>3 DEF Extended, Thinner
<1> QED BY <1>4 DEF T, S

LEMMA StreamSame ==
  ASSUME NEW S
  PROVE  Thinner(S, S)
  BY DEF Thinner

-----------------------------------------------------------------------------
\* The critical sections keep a block in shape, none makes it active again.
LEMMA BlockShape ==
  ASSUME NEW b \in Block
  PROVE  /\ b.pending \in Seq(Messages) /\ b.active \in BOOLEAN
         /\ \A m \in Messages : Enqueued(b, m) \in Block
         /\ ExecutorRefused(b) \in Block /\ Cancelled(b) \in Block /\ Drained(b) \in Block
         /\ ~DrainEnds(b) => \A w \in Workers : CallbackBegun(b, w) \in Block
         /\ CallbackEnded(b) \in Block
<1> USE DEF Block
<1>1. << >> \in Seq(Messages) /\ Len(b.pending) \in Nat
  OBVIOUS
<1>2. ASSUME NEW m \in Messages PROVE Enqueued(b, m) \in Block
  <2>1. Append(IF IsFull(b) THEN Tail(b.pending) ELSE b.pending, m) \in Seq(Messages)
    BY <1>1, QueueDepthAssumption DEF IsFull
  <2> QED BY <2>1, Zenon DEF Enqueued
<1>3. ExecutorRefused(b) \in Block /\ Cancelled(b) \in Block /\ Drained(b) \in Block
  BY <1>1, Zenon DEF ExecutorRefused, Cancelled, Drained
<1>4. ASSUME ~DrainEnds(b), NEW w \in Workers PROVE CallbackBegun(b, w) \in Block
  <2>1. Tail(b.pending) \in Seq(Messages) /\ b.in_flight + 1 \in Int
    BY <1>4 DEF DrainEnds
  <2> QED BY <2>1, Zenon DEF CallbackBegun
<1>5. CallbackEnded(b) \in Block
  <2>1. b.in_flight - 1 \in Int
    OBVIOUS
  <2> QED BY <2>1, Zenon DEF CallbackEnded
<1> QED BY <1>2, <1>3, <1>4, <1>5

LEMMA BlockFields ==
  ASSUME NEW b \in Block
  PROVE  /\ \A m \in Messages :
               /\ Enqueued(b, m).pending
                    = Append(IF IsFull(b) THEN Tail(b.pending) ELSE b.pending, m)
               /\ Enqueued(b, m).active = b.active
         /\ \A e \in {ExecutorRefused(b), Drained(b)} :
               e.pending = << >> /\ e.active = b.active
         /\ Cancelled(b).pending = << >> /\ ~Cancelled(b).active
         /\ \A w \in Workers : /\ CallbackBegun(b, w).pending = Tail(b.pending)
                               /\ CallbackBegun(b, w).active = b.active
         /\ CallbackEnded(b).pending = b.pending /\ CallbackEnded(b).active = b.active
  BY DEF Block, Enqueued, ExecutorRefused, Drained, Cancelled, CallbackBegun, CallbackEnded

\* The listings of a finite set hold each of its members, each once.
LEMMA ListingsComplete ==
  ASSUME NEW S, IsFiniteSet(S), NEW l \in Listings(S)
  PROVE  /\ l \in Seq(S)
         /\ \A i, j \in 1..Len(l) : l[i] = l[j] => i = j
         /\ \A s \in S : \E i \in 1..Len(l) : l[i] = s
<1> DEFINE n == Cardinality(S)
<1>1. n \in Nat
  BY FS_CardinalityType
<1>2. l \in [1..n -> S] /\ \A i, j \in 1..n : l[i] = l[j] => i = j
  BY DEF Listings
<1>3. IsFiniteSet(1..n) /\ Cardinality(1..n) = n
  BY <1>1, FS_Interval
<1> HIDE DEF n
<1>4. l \in Seq(S) /\ Len(l) = n
  BY <1>1, <1>2
<1>5. l \in Injection(1..n, S)
  BY <1>2 DEF Injection, IsInjective
<1>6. l \in Surjection(1..n, S)
  BY <1>3, <1>5, FS_Injection DEF n
<1> QED BY <1>2, <1>4, <1>6 DEF Surjection

-----------------------------------------------------------------------------
LEMMA TypesInitially == Init => RuntimeTypes /\ Busy
<1> SUFFICES ASSUME Init PROVE RuntimeTypes /\ Busy
  OBVIOUS
<1>1. /\ << >> \in Seq(Messages) /\ << >> \in Seq(Subs) /\ 0 <= MaxMessages
      /\ << >> \in Seq([topic : Topics, type : Types]) /\ Len(<< >>) = 0
  BY MessageBoundAssumption
<1>2. blocks \in [Subs -> Block]
  <2>1. NewBlocks \subseteq Block
    <3> SUFFICES ASSUME NEW b \in NewBlocks PROVE b \in Block
      OBVIOUS
    <3>1. PICK q \in overflow_policies :
            b = [pending |-> << >>, active |-> TRUE, scheduled |-> FALSE,
                 in_flight |-> 0, callback_thread |-> NoThread, overflow_policy |-> q]
      BY DEF NewBlocks
    <3> QED BY <1>1, <3>1 DEF Block
  <2> QED BY <2>1 DEF Init
<1>3. accepting \in BOOLEAN /\ executorOpen \in BOOLEAN /\ executorDone \in BOOLEAN
  BY DEF Init
<1>4. RuntimeTypes
  BY <1>1, <1>2, <1>3 DEF Init, RuntimeTypes, Calls
<1>5. {s \in Subs : handle[s] # "new"} = {}
  BY DEF Init
<1> QED BY <1>4, <1>5, FS_EmptySet DEF Init, Busy, PostCalls, CancelCalls

LEMMA TypesStep ==
  ASSUME RuntimeTypes, Busy, ContractInv, [Next]_vars
  PROVE  RuntimeTypes'
<1> USE DEF RuntimeTypes
<1>0. \A t \in Threads : /\ todo[t] \in Seq(Subs) /\ << >> \in Seq(Subs)
                         /\ todo[t] # << >> => Head(todo[t]) \in Subs /\ Tail(todo[t]) \in Seq(Subs)
  OBVIOUS
<1>1. CASE UNCHANGED vars
  BY <1>1 DEF vars, busVars, poolVars
<1>2. ASSUME NEW t \in Threads, Advertise(t) PROVE RuntimeTypes'
  BY <1>2 DEF Advertise, poolVars
<1>3. ASSUME NEW t \in Threads, Subscribe(t) PROVE RuntimeTypes'
  <2>1. PICK s \in Subs :
           /\ NewHandle(s)
           /\ topics' = [topics EXCEPT ![TopicOf[s]] = TypeOf[s]]
           /\ registered' = [registered EXCEPT ![TopicOf[s]] = @ \cup {s}]
    BY <1>3 DEF Subscribe
  <2>2. TopicOf[s] \in Topics /\ TypeOf[s] \in Types
    BY HandlesAssumption
  <2>3. /\ topics' \in [Topics -> Types \cup {NoType}]
        /\ handle' \in [Subs -> {"new", "held", "closing", "kept", "closed"}]
    BY <2>1, <2>2 DEF NewHandle
  <2>4. registered' \in [Topics -> SUBSET Subs]
    BY <2>1, <2>2
  <2> QED BY <1>3, <2>3, <2>4 DEF Subscribe, poolVars
<1>4. ASSUME NEW t \in Threads, Publish(t) PROVE RuntimeTypes'
  <2>1. PICK publisher \in publishers :
           /\ topics[publisher.topic] = publisher.type
           /\ content' = Append(content, publisher)
           /\ \E order \in Listings(registered[publisher.topic]) :
                 todo' = [todo EXCEPT ![t] = order]
    BY <1>4 DEF Publish
  <2> DEFINE p == publisher.topic
  <2>0. p \in Topics /\ publisher \in [topic : Topics, type : Types]
    BY <2>1
  <2>2. PICK order \in Listings(registered[p]) : todo' = [todo EXCEPT ![t] = order]
    BY <2>1
  <2> HIDE DEF p
  <2>3. IsFiniteSet(registered[p])
    <3>1. registered[p] \in SUBSET {s \in Subs : handle[s] # "new"}
      BY <2>0 DEF ContractInv, RecordsTyped
    <3> QED BY <3>1, FS_Subset DEF Busy
  <2>4. order \in Seq(Subs)
    <3>1. order \in Seq(registered[p])
      BY <2>3, ListingsComplete
    <3>2. registered[p] \subseteq Subs
      BY <2>0
    <3> QED BY <3>1, <3>2
  <2>5. todo' \in [Threads -> Seq(Subs)]
    BY <2>2, <2>4
  <2>7. /\ content' \in Seq([topic : Topics, type : Types])
        /\ Len(content') = Len(content) + 1 /\ Len(content) \in Nat
    BY <2>0, <2>1
  <2>8. Len(content) < MaxMessages
    BY <1>4 DEF Publish
  <2>9. Len(content') <= MaxMessages /\ Len(content) + 1 \in Messages
    BY <2>7, <2>8, MessageBoundAssumption DEF Messages
  <2>10. msg' \in [Threads -> Messages \cup {0}] /\ call' \in [Threads -> Calls]
    BY <1>4, <2>9 DEF Publish, Goto, Calls
  <2> QED BY <1>4, <2>5, <2>7, <2>9, <2>10 DEF Publish, busVars, poolVars
<1>5. ASSUME NEW t \in Threads, LockDispatch(t) PROVE RuntimeTypes'
  BY <1>5 DEF LockDispatch, Goto, Calls, busVars, poolVars
<1>6. ASSUME NEW t \in Threads, FanoutEnqueue(t) PROVE RuntimeTypes'
  <2> DEFINE s == Head(todo[t])
  <2>1. s \in Subs /\ Tail(todo[t]) \in Seq(Subs)
    BY <1>0, <1>6 DEF FanoutEnqueue
  <2>2. msg[t] \in Messages
    <3>1. msg[t] \in 1..Len(content) /\ Len(content) \in Nat
      BY <1>6 DEF FanoutEnqueue, ContractInv, SnapshotsTyped, PublishCalls, FanoutCalls
    <3> QED BY <3>1, MessageBoundAssumption DEF Messages
  <2>3. Enqueued(blocks[s], msg[t]) \in Block
    BY <2>1, <2>2, BlockShape
  <2>4. blocks' \in [Subs -> Block]
    BY <1>6, <2>1, <2>3 DEF FanoutEnqueue
  <2>5. call' \in [Threads -> Calls] /\ todo' \in [Threads -> Seq(Subs)]
    BY <1>6, <2>1 DEF FanoutEnqueue, Goto, Calls
  <2> QED BY <1>6, <2>4, <2>5 DEF FanoutEnqueue, busVars, poolVars
<1>7. ASSUME NEW t \in Threads, FanoutExecute(t) PROVE RuntimeTypes'
  <2>1. Head(todo[t]) \in Subs /\ Tail(todo[t]) \in Seq(Subs)
    BY <1>0, <1>7 DEF FanoutExecute, Busy, PostCalls
  <2>2. call' \in [Threads -> Calls] /\ todo' \in [Threads -> Seq(Subs)]
    BY <1>7, <2>1 DEF FanoutExecute, Goto, Calls
  <2>3. drains' \in [Subs -> Nat]
    BY <1>7, <2>1 DEF FanoutExecute
  <2> QED BY <1>7, <2>2, <2>3 DEF FanoutExecute, busVars, poolVars
<1>8. ASSUME NEW t \in Threads, FanoutRefused(t) PROVE RuntimeTypes'
  <2>1. Head(todo[t]) \in Subs /\ Tail(todo[t]) \in Seq(Subs) /\ << >> \in Seq(Subs)
    BY <1>0, <1>8 DEF FanoutRefused, Busy, PostCalls
  <2>2. call' \in [Threads -> Calls] /\ todo' \in [Threads -> Seq(Subs)]
    BY <1>8, <2>1 DEF FanoutRefused, Goto, Calls
  <2>3. blocks' \in [Subs -> Block]
    BY <1>8, <2>1, BlockShape DEF FanoutRefused
  <2> QED BY <1>8, <2>2, <2>3 DEF FanoutRefused, busVars, poolVars
<1>9. ASSUME NEW t \in Threads, FanoutDone(t) PROVE RuntimeTypes'
  BY <1>9 DEF FanoutDone, Goto, Calls, busVars, poolVars
<1>10. ASSUME NEW t \in Threads, CancelHandle(t) PROVE RuntimeTypes'
  <2>1. PICK s \in Subs : /\ handle' = [handle EXCEPT ![s] = "closing"]
                          /\ blocks' = [blocks EXCEPT ![s] = Cancelled(blocks[s])]
                          /\ todo' = [todo EXCEPT ![t] = <<s>>]
    BY <1>10 DEF CancelHandle
  <2>2. blocks' \in [Subs -> Block]
    BY <2>1, BlockShape
  <2>3. <<s>> \in Seq(Subs)
    OBVIOUS
  <2>4. call' \in [Threads -> Calls] /\ todo' \in [Threads -> Seq(Subs)]
    BY <1>10, <2>1, <2>3 DEF CancelHandle, Goto, Calls
  <2> QED BY <1>10, <2>1, <2>2, <2>4 DEF CancelHandle, poolVars
<1>11. ASSUME NEW t \in Threads, CancelStep(t) PROVE RuntimeTypes'
  <2>1. Head(todo[t]) \in Subs /\ << >> \in Seq(Subs)
    BY <1>0, <1>11 DEF CancelStep, Unsubscribe, WaitIdle, Busy, CancelCalls
  <2>2. TopicOf[Head(todo[t])] \in Topics
    BY <2>1, HandlesAssumption
  <2>3. call' \in [Threads -> Calls] /\ todo' \in [Threads -> Seq(Subs)]
    <3>1. CASE Unsubscribe(t)
      BY <2>1, <3>1 DEF Unsubscribe, Goto, Calls
    <3>2. CASE WaitIdle(t)
      BY <2>1, <3>2 DEF WaitIdle, Goto, Calls
    <3> QED BY <1>11, <3>1, <3>2 DEF CancelStep
  <2>4. handle' \in [Subs -> {"new", "held", "closing", "kept", "closed"}]
    <3>1. CASE Unsubscribe(t)
      BY <2>1, <3>1 DEF Unsubscribe
    <3>2. CASE WaitIdle(t)
      BY <2>1, <3>2 DEF WaitIdle
    <3> QED BY <1>11, <3>1, <3>2 DEF CancelStep
  <2>5. registered' \in [Topics -> SUBSET Subs]
    <3>1. CASE Unsubscribe(t)
      BY <2>1, <2>2, <3>1 DEF Unsubscribe
    <3>2. CASE WaitIdle(t)
      BY <3>2 DEF WaitIdle
    <3> QED BY <1>11, <3>1, <3>2 DEF CancelStep
  <2>6. UNCHANGED <<accepting, topics, publishers, blocks, dispatch, pc, serving, msg, content,
                    drains, poolVars, begun>>
    BY <1>11 DEF CancelStep, Unsubscribe, WaitIdle
  <2> QED BY <2>3, <2>4, <2>5, <2>6 DEF poolVars
<1>12. ASSUME NEW t \in Threads, BusStop(t) PROVE RuntimeTypes'
  <2>1. todo' \in [Threads -> Seq(Subs)]
    <3>1. CASE accepting
      <4> DEFINE R == UNION {registered[p] : p \in Topics}
      <4>1. PICK order \in Listings(R) : todo' = [todo EXCEPT ![t] = order]
        BY <1>12, <3>1 DEF BusStop
      <4>2. R \in SUBSET {s \in Subs : handle[s] # "new"}
        BY DEF ContractInv, RecordsTyped
      <4>3. IsFiniteSet(R)
        BY <4>2, FS_Subset DEF Busy
      <4>4. order \in Seq(R)
        BY <4>3, ListingsComplete
      <4> HIDE DEF R
      <4>5. order \in Seq(Subs)
        BY <4>2, <4>4
      <4> QED BY <4>1, <4>5
    <3>2. CASE ~accepting
      BY <1>12, <3>2 DEF BusStop
    <3> QED BY <3>1, <3>2
  <2>2. call' \in [Threads -> Calls] /\ accepting' \in BOOLEAN
    BY <1>12 DEF BusStop, Goto, Calls
  <2>3. registered' \in [Topics -> SUBSET Subs]
    BY <1>12 DEF BusStop
  <2> QED BY <1>12, <2>1, <2>2, <2>3 DEF BusStop, poolVars
<1>13. ASSUME NEW t \in Threads, StopCancel(t) PROVE RuntimeTypes'
  <2>1. todo[t] # << >> => Head(todo[t]) \in Subs /\ Tail(todo[t]) \in Seq(Subs)
    BY <1>0
  <2>2. blocks' \in [Subs -> Block]
    <3>1. CASE todo[t] # << >>
      <4>1. blocks' = [blocks EXCEPT ![Head(todo[t])] = Cancelled(blocks[Head(todo[t])])]
        BY <1>13, <3>1 DEF StopCancel
      <4> QED BY <2>1, <3>1, <4>1, BlockShape
    <3>2. CASE todo[t] = << >>
      BY <1>13, <3>2 DEF StopCancel
    <3> QED BY <3>1, <3>2
  <2>3. call' \in [Threads -> Calls] /\ todo' \in [Threads -> Seq(Subs)]
    BY <1>13, <2>1 DEF StopCancel, Goto, Calls
  <2> QED BY <1>13, <2>2, <2>3 DEF StopCancel, busVars, poolVars
<1>14. ASSUME NEW t \in Threads,
              ExecutorClose(t) \/ ExecutorLock(t) \/ ExecutorJoin(t) \/ ExecutorWait(t)
       PROVE  RuntimeTypes'
  <2>1. executorOpen' \in BOOLEAN /\ executorDone' \in BOOLEAN
    BY <1>14 DEF ExecutorClose, ExecutorLock, ExecutorJoin, ExecutorWait, poolVars
  <2>2. call' \in [Threads -> Calls] /\ joiner' \in Threads \cup {NoThread}
    BY <1>14 DEF ExecutorClose, ExecutorLock, ExecutorJoin, ExecutorWait, poolVars, Goto, Calls
  <2> QED BY <1>14, <2>1, <2>2
          DEF ExecutorClose, ExecutorLock, ExecutorJoin, ExecutorWait, busVars
<1>15. ASSUME NEW w \in Workers, TakeDrain(w) PROVE RuntimeTypes'
  BY <1>15 DEF TakeDrain, busVars, poolVars
<1>16. ASSUME NEW w \in Workers, DrainEnd(w) PROVE RuntimeTypes'
  <2>1. serving[w] \in Subs
    BY <1>16 DEF DrainEnd, Busy
  <2>2. blocks' \in [Subs -> Block]
    BY <1>16, <2>1, BlockShape DEF DrainEnd
  <2> QED BY <1>16, <2>2 DEF DrainEnd, busVars, poolVars
<1>17. ASSUME NEW w \in Workers, BeginCallback(w) PROVE RuntimeTypes'
  <2> DEFINE s == serving[w]
  <2>1. s \in Subs /\ ~DrainEnds(blocks[s])
    BY <1>17 DEF BeginCallback, Busy
  <2>2. blocks' \in [Subs -> Block]
    BY <1>17, <2>1, BlockShape DEF BeginCallback
  <2>3. Head(blocks[s].pending) \in Messages
    BY <2>1, BlockShape DEF DrainEnds
  <2>4. begun' \in [Subs -> Seq(Messages)]
    BY <1>17, <2>1, <2>3 DEF BeginCallback
  <2> QED BY <1>17, <2>2, <2>4 DEF BeginCallback, busVars, poolVars
<1>18. ASSUME NEW w \in Workers, EndCallback(w) PROVE RuntimeTypes'
  <2>1. serving[w] \in Subs
    BY <1>18 DEF EndCallback, Busy
  <2>2. blocks' \in [Subs -> Block]
    BY <1>18, <2>1, BlockShape DEF EndCallback
  <2> QED BY <1>18, <2>2 DEF EndCallback, busVars, poolVars
<1> QED BY <1>1, <1>2, <1>3, <1>4, <1>5, <1>6, <1>7, <1>8, <1>9, <1>10, <1>11, <1>12,
           <1>13, <1>14, <1>15, <1>16, <1>17, <1>18
        DEF Next, CallStep, PublishStep, ShutdownStep, WorkerStep

LEMMA BusyStep ==
  ASSUME RuntimeTypes, Busy, BeingCancelled, [Next]_vars
  PROVE  Busy'
<1> USE DEF RuntimeTypes, Busy
<1> DEFINE Made == {s \in Subs : handle[s] # "new"}
           Serves == \A w \in Workers : pc[w] # "free" => serving[w] \in Subs
           Lists == \A t \in Threads : call[t] \in PostCalls \cup CancelCalls => todo[t] # << >>
<1>1. CASE UNCHANGED <<pc, serving, call, todo, handle>>
  BY <1>1
<1>2. ASSUME NEW t \in Threads, Subscribe(t) PROVE Busy'
  <2>1. PICK s \in Subs : handle' = [handle EXCEPT ![s] = "held"]
    BY <1>2 DEF Subscribe, NewHandle
  <2>2. Made' = Made \cup {s}
    BY <2>1
  <2>3. IsFiniteSet(Made')
    <3>1. IsFiniteSet(Made)
      OBVIOUS
    <3> HIDE DEF Made
    <3>2. IsFiniteSet(Made \cup {s})
      BY <3>1, FS_AddElement
    <3> QED BY <2>2, <3>2
  <2> QED BY <1>2, <2>3 DEF Subscribe
<1>3. ASSUME UNCHANGED <<pc, serving>>, Made' = Made, Lists' PROVE Busy'
  BY <1>3
<1>4. ASSUME UNCHANGED <<handle, call, todo>>, Serves' PROVE Busy'
  BY <1>4
<1>5. ASSUME NEW t \in Threads,
             Publish(t) \/ LockDispatch(t) \/ FanoutDone(t) \/ BusStop(t) \/ StopCancel(t)
               \/ ExecutorClose(t) \/ ExecutorLock(t) \/ ExecutorJoin(t) \/ ExecutorWait(t)
      PROVE  Busy'
  <2>1. UNCHANGED <<pc, serving, handle>>
    BY <1>5 DEF Publish, LockDispatch, FanoutDone, BusStop, StopCancel, ExecutorClose,
                ExecutorLock, ExecutorJoin, ExecutorWait, busVars
  <2>2. /\ call'[t] \notin PostCalls \cup CancelCalls
        /\ \A u \in Threads \ {t} : call'[u] = call[u] /\ todo'[u] = todo[u]
    BY <1>5 DEF Publish, LockDispatch, FanoutDone, BusStop, StopCancel, ExecutorClose,
                ExecutorLock, ExecutorJoin, ExecutorWait, Goto, PostCalls, CancelCalls
  <2> QED BY <1>3, <2>1, <2>2
<1>6. ASSUME NEW t \in Threads, FanoutEnqueue(t) PROVE Busy'
  <2>1. UNCHANGED <<pc, serving, handle>>
    BY <1>6 DEF FanoutEnqueue, busVars
  <2>2. /\ call'[t] \notin PostCalls \cup CancelCalls \/ todo'[t] # << >>
        /\ \A u \in Threads \ {t} : call'[u] = call[u] /\ todo'[u] = todo[u]
    BY <1>6 DEF FanoutEnqueue, Goto, PostCalls, CancelCalls
  <2> QED BY <1>3, <2>1, <2>2
<1>7. ASSUME NEW t \in Threads, FanoutExecute(t) \/ FanoutRefused(t) PROVE Busy'
  <2>1. UNCHANGED <<pc, serving, handle>>
    BY <1>7 DEF FanoutExecute, FanoutRefused, busVars
  <2>2. /\ call'[t] \notin PostCalls \cup CancelCalls \/ todo'[t] # << >>
        /\ \A u \in Threads \ {t} : call'[u] = call[u] /\ todo'[u] = todo[u]
    BY <1>7 DEF FanoutExecute, FanoutRefused, Goto, PostCalls, CancelCalls
  <2> QED BY <1>3, <2>1, <2>2
<1>8. ASSUME NEW t \in Threads, CancelHandle(t) PROVE Busy'
  <2>1. PICK s \in Subs : /\ handle[s] \in {"held", "kept"}
                          /\ handle' = [handle EXCEPT ![s] = "closing"]
                          /\ todo' = [todo EXCEPT ![t] = <<s>>]
    BY <1>8 DEF CancelHandle
  <2>2. Made' = Made /\ UNCHANGED <<pc, serving>> /\ <<s>> # << >>
    BY <1>8, <2>1 DEF CancelHandle
  <2>3. Lists'
    BY <1>8, <2>1, <2>2 DEF CancelHandle, Goto
  <2> QED BY <1>3, <2>2, <2>3
<1>9. ASSUME NEW t \in Threads, CancelStep(t) PROVE Busy'
  <2> DEFINE s == Head(todo[t])
  <2>1. s \in Subs /\ todo[t] # << >>
    BY <1>9 DEF CancelStep, Unsubscribe, WaitIdle, CancelCalls
  <2>2. handle[s] # "new"
    BY <1>9 DEF CancelStep, Unsubscribe, WaitIdle, CancelCalls, BeingCancelled
  <2>3. handle' = handle \/ \E h \in {"closed", "kept"} : handle' = [handle EXCEPT ![s] = h]
    BY <1>9 DEF CancelStep, Unsubscribe, WaitIdle
  <2>4. Made' = Made
    BY <2>1, <2>2, <2>3
  <2>5. /\ call'[t] \notin PostCalls \cup CancelCalls \/ todo'[t] # << >>
        /\ \A u \in Threads \ {t} : call'[u] = call[u] /\ todo'[u] = todo[u]
    BY <1>9, <2>1 DEF CancelStep, Unsubscribe, WaitIdle, Goto, PostCalls, CancelCalls
  <2> QED BY <1>3, <1>9, <2>4, <2>5 DEF CancelStep, Unsubscribe, WaitIdle
<1>10. ASSUME NEW w \in Workers, WorkerStep(w) \/ EndCallback(w) PROVE Busy'
  <2>1. UNCHANGED <<handle, call, todo>>
    BY <1>10 DEF WorkerStep, TakeDrain, DrainEnd, BeginCallback, EndCallback, busVars
  <2>2. Serves'
    BY <1>10 DEF WorkerStep, TakeDrain, DrainEnd, BeginCallback, EndCallback
  <2> QED BY <1>4, <2>1, <2>2
<1>11. ASSUME NEW t \in Threads, Advertise(t) PROVE Busy'
  BY <1>1, <1>11 DEF Advertise
<1>12. CASE UNCHANGED vars
  BY <1>1, <1>12 DEF vars, busVars
<1> QED BY <1>2, <1>5, <1>6, <1>7, <1>8, <1>9, <1>10, <1>11, <1>12
        DEF Next, CallStep, PublishStep, ShutdownStep

-----------------------------------------------------------------------------
\* An accepted message joins one stream; every other step at most thins them.
LEMMA StreamEnqueued ==
  ASSUME RuntimeTypes, ContractInv, NEW t \in Threads, FanoutEnqueue(t),
         NEW h, h = Head(todo[t]), Accepts(blocks[h], TRUE)
  PROVE  /\ h \in Subs
         /\ Extended(Stream(h)', Stream(h), msg[t])
         /\ \A s \in Subs : s # h => Stream(s)' = Stream(s)
         /\ \A s \in Subs : blocks'[s].active => blocks[s].active
<1> USE DEF RuntimeTypes
<1>1. h \in Subs
  BY DEF FanoutEnqueue
<1>2. msg[t] \in Messages
  <2>1. msg[t] \in 1..Len(content) /\ Len(content) \in Nat
    BY DEF FanoutEnqueue, ContractInv, SnapshotsTyped, PublishCalls, FanoutCalls
  <2> QED BY <2>1, MessageBoundAssumption DEF Messages
<1>3. blocks' = [blocks EXCEPT ![h] = Enqueued(blocks[h], msg[t])] /\ begun' = begun
  BY DEF FanoutEnqueue
<1>4. PICK b \in Block : b = blocks[h]
  BY <1>1
<1>5. /\ b.pending \in Seq(Messages) /\ begun[h] \in Seq(Messages)
      /\ \A s \in Subs : s # h => blocks'[s] = blocks[s]
      /\ blocks'[h] = Enqueued(b, msg[t])
  BY <1>1, <1>3, <1>4, BlockShape
<1>6. /\ blocks'[h].pending = Append(IF IsFull(b) THEN Tail(b.pending) ELSE b.pending, msg[t])
      /\ blocks'[h].active = b.active
  <2>1. /\ Enqueued(b, msg[t]).pending
             = Append(IF IsFull(b) THEN Tail(b.pending) ELSE b.pending, msg[t])
        /\ Enqueued(b, msg[t]).active = b.active
    BY <1>2, BlockFields
  <2> QED BY <1>5, <2>1, Zenon
<1>7. \A s \in Subs : s # h => Stream(s)' = Stream(s)
  BY <1>3, <1>5 DEF Stream
<1>8. \A s \in Subs : blocks'[s].active => blocks[s].active
  BY <1>4, <1>5, <1>6, Zenon
<1>9. Stream(h)' = begun[h] \o blocks'[h].pending /\ Stream(h) = begun[h] \o b.pending
  BY <1>3, <1>4 DEF Stream
<1>10. Extended(Stream(h)', Stream(h), msg[t])
  <2>1. CASE IsFull(b)
    <3>1. b.pending # << >>
      BY <1>5, <2>1, QueueDepthAssumption DEF IsFull
    <3>2. Extended(begun[h] \o Append(Tail(b.pending), msg[t]), begun[h] \o b.pending, msg[t])
      BY <1>2, <1>5, <3>1, StreamRolled
    <3> QED BY <1>6, <1>9, <2>1, <3>2
  <2>2. CASE ~IsFull(b)
    <3>1. Extended(begun[h] \o Append(b.pending, msg[t]), begun[h] \o b.pending, msg[t])
      BY <1>2, <1>5, StreamAppended
    <3> QED BY <1>6, <1>9, <2>2, <3>1
  <2> QED BY <2>1, <2>2
<1> QED BY <1>1, <1>7, <1>8, <1>10

\* One block changes: its mailbox is emptied or left as it is.
LEMMA StreamCut ==
  ASSUME RuntimeTypes, NEW r \in Subs, NEW e,
         e \in {Cancelled(blocks[r]), ExecutorRefused(blocks[r]), Drained(blocks[r]),
                CallbackEnded(blocks[r])},
         blocks' = [blocks EXCEPT ![r] = e], begun' = begun
  PROVE  \A s \in Subs : /\ Thinner(Stream(s)', Stream(s))
                         /\ blocks'[s].active => blocks[s].active
<1> USE DEF RuntimeTypes
<1>1. /\ blocks[r] \in Block /\ blocks[r].pending \in Seq(Messages)
      /\ begun[r] \in Seq(Messages)
  BY BlockShape
<1>2. /\ \A s \in Subs : s # r => blocks'[s] = blocks[s]
      /\ blocks'[r] = e
  OBVIOUS
<1>3. /\ e.pending = << >> \/ e.pending = blocks[r].pending
      /\ e.active => blocks[r].active
  BY <1>1, BlockFields
<1>4. \A s \in Subs : s # r => Thinner(Stream(s)', Stream(s))
  BY <1>2, StreamSame DEF Stream
<1>5. Thinner(Stream(r)', Stream(r))
  BY <1>1, <1>2, <1>3, StreamSame, StreamEmptied DEF Stream
<1> QED BY <1>2, <1>3, <1>4, <1>5

LEMMA StreamsThin ==
  ASSUME RuntimeTypes, Busy, [Next]_vars,
         \A t \in Threads : FanoutEnqueue(t) => ~Accepts(blocks[Head(todo[t])], TRUE)
  PROVE  \A s \in Subs : /\ Thinner(Stream(s)', Stream(s))
                         /\ blocks'[s].active => blocks[s].active
<1> DEFINE Thin == \A s \in Subs : /\ Thinner(Stream(s)', Stream(s))
                                   /\ blocks'[s].active => blocks[s].active
<1>1. ASSUME UNCHANGED <<blocks, begun>> PROVE Thin
  <2>1. \A s \in Subs : Stream(s)' = Stream(s)
    BY <1>1 DEF Stream
  <2> QED BY <1>1, <2>1, StreamSame
<1>2. ASSUME NEW t \in Threads,
             Advertise(t) \/ Subscribe(t) \/ Publish(t) \/ LockDispatch(t) \/ FanoutExecute(t)
               \/ FanoutDone(t) \/ CancelStep(t) \/ BusStop(t) \/ ExecutorClose(t)
               \/ ExecutorLock(t) \/ ExecutorJoin(t) \/ ExecutorWait(t)
      PROVE  Thin
  <2>1. UNCHANGED <<blocks, begun>>
    BY <1>2 DEF Advertise, Subscribe, Publish, LockDispatch, FanoutExecute, FanoutDone,
                CancelStep, Unsubscribe, WaitIdle, BusStop, ExecutorClose, ExecutorLock,
                ExecutorJoin, ExecutorWait
  <2> QED BY <1>1, <2>1
<1>3. ASSUME NEW t \in Threads, FanoutEnqueue(t) PROVE Thin
  <2>1. UNCHANGED <<blocks, begun>>
    BY <1>3 DEF FanoutEnqueue
  <2> QED BY <1>1, <2>1
<1>4. ASSUME NEW t \in Threads, FanoutRefused(t) PROVE Thin
  <2> DEFINE h == Head(todo[t])
  <2>1. h \in Subs
    BY <1>4 DEF FanoutRefused, RuntimeTypes, Busy, PostCalls
  <2>2. blocks' = [blocks EXCEPT ![h] = ExecutorRefused(blocks[h])] /\ begun' = begun
    BY <1>4 DEF FanoutRefused
  <2> HIDE DEF h
  <2> QED BY <2>1, <2>2, StreamCut
<1>5. ASSUME NEW t \in Threads, CancelHandle(t) PROVE Thin
  <2>1. PICK s \in Subs : blocks' = [blocks EXCEPT ![s] = Cancelled(blocks[s])]
    BY <1>5 DEF CancelHandle
  <2> QED BY <1>5, <2>1, StreamCut DEF CancelHandle
<1>6. ASSUME NEW t \in Threads, StopCancel(t) PROVE Thin
  <2>1. CASE todo[t] = << >>
    BY <1>1, <1>6, <2>1 DEF StopCancel
  <2>2. CASE todo[t] # << >>
    <3> DEFINE h == Head(todo[t])
    <3>1. h \in Subs
      BY <2>2 DEF RuntimeTypes
    <3>2. blocks' = [blocks EXCEPT ![h] = Cancelled(blocks[h])] /\ begun' = begun
      BY <1>6, <2>2 DEF StopCancel
    <3> HIDE DEF h
    <3> QED BY <3>1, <3>2, StreamCut
  <2> QED BY <2>1, <2>2
<1>7. ASSUME NEW w \in Workers, TakeDrain(w) PROVE Thin
  BY <1>1, <1>7 DEF TakeDrain
<1>8. ASSUME NEW w \in Workers, DrainEnd(w) PROVE Thin
  <2> DEFINE h == serving[w]
  <2>1. h \in Subs
    BY <1>8 DEF DrainEnd, Busy
  <2>2. blocks' = [blocks EXCEPT ![h] = Drained(blocks[h])] /\ begun' = begun
    BY <1>8 DEF DrainEnd
  <2> HIDE DEF h
  <2> QED BY <2>1, <2>2, StreamCut
<1>9. ASSUME NEW w \in Workers, EndCallback(w) PROVE Thin
  <2> DEFINE h == serving[w]
  <2>1. h \in Subs
    BY <1>9 DEF EndCallback, Busy
  <2>2. blocks' = [blocks EXCEPT ![h] = CallbackEnded(blocks[h])] /\ begun' = begun
    BY <1>9 DEF EndCallback
  <2> HIDE DEF h
  <2> QED BY <2>1, <2>2, StreamCut
<1>10. ASSUME NEW w \in Workers, BeginCallback(w) PROVE Thin
  <2>1. PICK h \in Subs : h = serving[w] /\ ~DrainEnds(blocks[h])
    BY <1>10 DEF BeginCallback, Busy
  <2>2. /\ blocks' = [blocks EXCEPT ![h] = CallbackBegun(blocks[h], w)]
        /\ begun' = [begun EXCEPT ![h] = Append(begun[h], Head(blocks[h].pending))]
    BY <1>10, <2>1 DEF BeginCallback
  <2>3. PICK b \in Block : b = blocks[h]
    BY DEF RuntimeTypes
  <2>4. /\ begun[h] \in Seq(Messages)
        /\ \A s \in Subs : s # h => blocks'[s] = blocks[s] /\ begun'[s] = begun[s]
        /\ blocks'[h] = CallbackBegun(b, w)
        /\ begun'[h] = Append(begun[h], Head(b.pending))
    BY <2>2, <2>3 DEF RuntimeTypes
  <2>5. b.pending \in Seq(Messages) /\ b.pending # << >>
    BY <2>1, <2>3, BlockShape DEF DrainEnds
  <2>6. blocks'[h].pending = Tail(b.pending) /\ blocks'[h].active = b.active
    BY <2>4, BlockFields, Zenon
  <2>7. /\ Stream(h)' = Append(begun[h], Head(b.pending)) \o Tail(b.pending)
        /\ Stream(h) = begun[h] \o b.pending
    BY <2>3, <2>4, <2>6 DEF Stream
  <2>8. Thinner(Stream(h)', Stream(h))
    BY <2>4, <2>5, <2>7, StreamBegun
  <2>9. \A s \in Subs : s # h => Thinner(Stream(s)', Stream(s))
    BY <2>4, StreamSame DEF Stream
  <2> QED BY <2>3, <2>4, <2>6, <2>8, <2>9, Zenon
<1>11. CASE UNCHANGED vars
  BY <1>1, <1>11 DEF vars
<1> QED BY <1>2, <1>3, <1>4, <1>5, <1>6, <1>7, <1>8, <1>9, <1>10, <1>11
        DEF Next, CallStep, PublishStep, ShutdownStep, WorkerStep

-----------------------------------------------------------------------------
LEMMA ContentFields ==
  ASSUME RuntimeTypes, NEW m \in 1..Len(content)
  PROVE  content[m].topic \in Topics /\ content[m].type \in Types
<1> DEFINE R == [topic : Topics, type : Types]
<1>1. content \in Seq(R)
  BY DEF RuntimeTypes
<1> HIDE DEF R
<1>2. content[m] \in R
  BY <1>1
<1> QED BY <1>2 DEF R

\* A publish call that goes on keeps its message, adds nothing to its list and
\* has the topic locked during its fan-out.
GoesOn(t) ==
  /\ call[t] \in PublishCalls /\ msg'[t] = msg[t]
  /\ call'[t] = "dispatch" => call[t] = "dispatch"
  /\ \A s \in Subs : Visits(t, s)' => Visits(t, s)
  /\ \A s \in Subs : Ahead(t, s)' => Ahead(t, s)
  /\ \A i, j \in 1..Len(todo'[t]) : todo'[t][i] = todo'[t][j] => i = j
  /\ call'[t] \in FanoutCalls => dispatch'[content[msg[t]].topic] = t

LEMMA OthersGoOn ==
  ASSUME RuntimeTypes, ContractInv, FanoutLocked, ListedOnce, NEW t,
         \A u \in Threads \ {t} : call'[u] = call[u] /\ todo'[u] = todo[u] /\ msg'[u] = msg[u],
         \A p \in Topics : dispatch[p] \in Threads \ {t} => dispatch'[p] = dispatch[p]
  PROVE  \A u \in Threads \ {t} : call'[u] \in PublishCalls => GoesOn(u)
<1> SUFFICES ASSUME NEW u \in Threads \ {t}, call'[u] \in PublishCalls PROVE GoesOn(u)
  OBVIOUS
<1>1. call'[u] = call[u] /\ todo'[u] = todo[u] /\ msg'[u] = msg[u]
  OBVIOUS
<1>2. \A s \in Subs : (Visits(u, s)' => Visits(u, s)) /\ (Ahead(u, s)' => Ahead(u, s))
  BY <1>1 DEF Visits, Ahead
<1>3. call[u] \in FanoutCalls => dispatch'[content[msg[u]].topic] = u
  <2> SUFFICES ASSUME call[u] \in FanoutCalls PROVE dispatch'[content[msg[u]].topic] = u
    OBVIOUS
  <2>1. msg[u] \in 1..Len(content) /\ dispatch[content[msg[u]].topic] = u
    BY DEF ContractInv, SnapshotsTyped, FanoutLocked, PublishCalls
  <2>2. content[msg[u]].topic \in Topics
    BY <2>1, ContentFields
  <2> QED BY <2>1, <2>2
<1> QED BY <1>1, <1>2, <1>3 DEF GoesOn, ListedOnce

\* What is left of a list after its head.
LEMMA TailEntries ==
  ASSUME NEW q \in Seq(Subs), q # << >>
  PROVE  /\ \A i \in 1..Len(Tail(q)) : i + 1 \in 1..Len(q) /\ Tail(q)[i] = q[i + 1] /\ i + 1 > 1
         /\ \A i, j \in 1..Len(Tail(q)) : i + 1 = j + 1 => i = j
         /\ 1 \in 1..Len(q) /\ Head(q) = q[1]
  OBVIOUS

\* The thread of a fan-out, when its list stays, loses its head or is dropped.
LEMMA FanoutGoesOn ==
  ASSUME RuntimeTypes, ListedOnce, NEW t \in Threads,
         call[t] \in FanoutCalls, call'[t] \in FanoutCalls, msg'[t] = msg[t],
         dispatch'[content[msg[t]].topic] = t,
         \/ todo'[t] = todo[t] /\ (call[t] \in PostCalls => call'[t] \in PostCalls)
         \/ todo[t] # << >> /\ todo'[t] = Tail(todo[t]) /\ call'[t] = "fanout"
         \/ todo'[t] = << >>
  PROVE  GoesOn(t)
<1>1. CASE todo'[t] = todo[t] /\ (call[t] \in PostCalls => call'[t] \in PostCalls)
  <2>1. \A s \in Subs : (Visits(t, s)' => Visits(t, s)) /\ (Ahead(t, s)' => Ahead(t, s))
    BY <1>1 DEF Visits, Ahead
  <2> QED BY <1>1, <2>1 DEF GoesOn, ListedOnce, PublishCalls, FanoutCalls
<1>2. CASE todo[t] # << >> /\ todo'[t] = Tail(todo[t]) /\ call'[t] = "fanout"
  <2> DEFINE q == todo[t]
  <2>1. /\ \A i \in 1..Len(todo'[t]) : i + 1 \in 1..Len(q) /\ todo'[t][i] = q[i + 1] /\ i + 1 > 1
        /\ \A i, j \in 1..Len(todo'[t]) : i + 1 = j + 1 => i = j
    BY <1>2, TailEntries DEF RuntimeTypes
  <2>2. \A s \in Subs : Visits(t, s)' => Visits(t, s)
    BY <2>1 DEF Visits
  <2>3. \A s \in Subs : Ahead(t, s)' => Ahead(t, s)
    BY <2>1 DEF Ahead
  <2>4. \A i, j \in 1..Len(todo'[t]) : todo'[t][i] = todo'[t][j] => i = j
    BY <2>1 DEF ListedOnce, PublishCalls
  <2> QED BY <1>2, <2>2, <2>3, <2>4 DEF GoesOn, PublishCalls, FanoutCalls
<1>3. CASE todo'[t] = << >>
  <2>1. Len(todo'[t]) = 0
    BY <1>3
  <2>2. \A i \in 1..Len(todo'[t]) : FALSE
    BY <2>1
  <2> QED BY <2>2 DEF GoesOn, Visits, Ahead, PublishCalls, FanoutCalls
<1> QED BY <1>1, <1>2, <1>3

LEMMA PublishersGoOn ==
  ASSUME RuntimeTypes, Busy, ContractInv, FanoutLocked, ListedOnce, [Next]_vars,
         \A t \in Threads : ~Publish(t)
  PROVE  content' = content /\ \A u \in Threads : call'[u] \in PublishCalls => GoesOn(u)
<1> DEFINE Goal == content' = content /\ \A u \in Threads : call'[u] \in PublishCalls => GoesOn(u)
<1>1. ASSUME NEW t \in Threads, content' = content,
             \A u \in Threads \ {t} :
                call'[u] = call[u] /\ todo'[u] = todo[u] /\ msg'[u] = msg[u],
             \A p \in Topics : dispatch[p] \in Threads \ {t} => dispatch'[p] = dispatch[p],
             call'[t] \in PublishCalls => GoesOn(t)
      PROVE  Goal
  BY <1>1, OthersGoOn
<1>2. CASE UNCHANGED <<content, call, todo, msg, dispatch>>
  <2>1. \A u \in Threads \ {NoThread} : call'[u] \in PublishCalls => GoesOn(u)
    BY <1>2, OthersGoOn
  <2> QED BY <1>2, <2>1, ThreadsAssumption
<1>3. ASSUME NEW t \in Threads,
             CancelHandle(t) \/ CancelStep(t) \/ BusStop(t) \/ ShutdownStep(t)
      PROVE  Goal
  <2>1. /\ UNCHANGED <<content, msg, dispatch>> /\ call'[t] \notin PublishCalls
        /\ \A u \in Threads \ {t} : call'[u] = call[u] /\ todo'[u] = todo[u]
    BY <1>3 DEF CancelHandle, CancelStep, Unsubscribe, WaitIdle, BusStop, ShutdownStep,
                StopCancel, ExecutorClose, ExecutorLock, ExecutorJoin, ExecutorWait, Goto,
                PublishCalls, FanoutCalls, RuntimeTypes
  <2> QED BY <1>1, <2>1
<1>4. ASSUME NEW t \in Threads, LockDispatch(t) PROVE Goal
  <2> DEFINE p == content[msg[t]].topic
  <2>1. /\ UNCHANGED <<content, msg, todo>> /\ call[t] = "dispatch"
        /\ dispatch[p] = NoThread /\ dispatch' = [dispatch EXCEPT ![p] = t]
        /\ call' = [call EXCEPT ![t] = "fanout"]
    BY <1>4 DEF LockDispatch, Goto
  <2>2. p \in Topics
    <3>1. msg[t] \in 1..Len(content)
      BY <2>1 DEF ContractInv, SnapshotsTyped, PublishCalls
    <3> QED BY <3>1, ContentFields
  <2>3. GoesOn(t)
    <3>1. \A s \in Subs : (Visits(t, s)' => Visits(t, s)) /\ (Ahead(t, s)' => Ahead(t, s))
      BY <2>1 DEF Visits, Ahead, PostCalls
    <3> QED BY <2>1, <2>2, <3>1 DEF GoesOn, ListedOnce, PublishCalls, RuntimeTypes
  <2> QED BY <1>1, <2>1, <2>2, <2>3, ThreadsAssumption DEF RuntimeTypes
<1>5. ASSUME NEW t \in Threads, FanoutEnqueue(t) \/ FanoutExecute(t) \/ FanoutRefused(t)
      PROVE  Goal
  <2>1. /\ UNCHANGED <<content, msg, dispatch>>
        /\ \A u \in Threads \ {t} : call'[u] = call[u] /\ todo'[u] = todo[u]
        /\ call[t] \in FanoutCalls /\ call'[t] \in FanoutCalls
    BY <1>5 DEF FanoutEnqueue, FanoutExecute, FanoutRefused, Goto, FanoutCalls, RuntimeTypes
  <2>2. \/ todo'[t] = todo[t] /\ (call[t] \in PostCalls => call'[t] \in PostCalls)
        \/ todo[t] # << >> /\ todo'[t] = Tail(todo[t]) /\ call'[t] = "fanout"
        \/ todo'[t] = << >>
    BY <1>5 DEF FanoutEnqueue, FanoutExecute, FanoutRefused, Goto, PostCalls, RuntimeTypes, Busy
  <2>3. GoesOn(t)
    BY <2>1, <2>2, FanoutGoesOn DEF FanoutLocked
  <2> QED BY <1>1, <2>1, <2>3
<1>6. ASSUME NEW t \in Threads, FanoutDone(t) PROVE Goal
  <2> DEFINE p == content[msg[t]].topic
  <2>1. /\ UNCHANGED <<content, todo>> /\ call[t] = "fanout"
        /\ dispatch' = [dispatch EXCEPT ![p] = NoThread]
        /\ msg' = [msg EXCEPT ![t] = 0] /\ call' = [call EXCEPT ![t] = "none"]
    BY <1>6 DEF FanoutDone, Goto
  <2>2. dispatch[p] = t
    BY <2>1 DEF FanoutLocked, FanoutCalls
  <2>3. call'[t] \notin PublishCalls
    BY <2>1 DEF PublishCalls, FanoutCalls, RuntimeTypes
  <2> QED BY <1>1, <2>1, <2>2, <2>3 DEF RuntimeTypes
<1>7. ASSUME NEW t \in Threads, Advertise(t) \/ Subscribe(t) PROVE Goal
  BY <1>2, <1>7 DEF Advertise, Subscribe
<1>8. ASSUME NEW w \in Workers, WorkerStep(w) \/ EndCallback(w) PROVE Goal
  BY <1>2, <1>8 DEF WorkerStep, TakeDrain, DrainEnd, BeginCallback, EndCallback
<1>9. CASE UNCHANGED vars
  BY <1>2, <1>9 DEF vars
<1> QED BY <1>3, <1>4, <1>5, <1>6, <1>7, <1>8, <1>9 DEF Next, CallStep, PublishStep

-----------------------------------------------------------------------------
\* Whatever joins a stream was on its way to that subscription.
Offered(s, x) == \E t \in Threads : call[t] \in PublishCalls /\ Visits(t, s) /\ x = msg[t]

LEMMA StreamsGain ==
  ASSUME RuntimeTypes, Busy, ContractInv, [Next]_vars
  PROVE  \A s \in Subs : \A x \in Messages :
            In(Stream(s), x)' => In(Stream(s), x) \/ Offered(s, x)
<1>1. CASE \A t \in Threads : FanoutEnqueue(t) => ~Accepts(blocks[Head(todo[t])], TRUE)
  BY <1>1, StreamsThin DEF Thinner
<1>2. ASSUME NEW t \in Threads, FanoutEnqueue(t), Accepts(blocks[Head(todo[t])], TRUE)
      PROVE  \A s \in Subs : \A x \in Messages :
                In(Stream(s), x)' => In(Stream(s), x) \/ Offered(s, x)
  <2>1. PICK h : h = Head(todo[t])
    OBVIOUS
  <2>2. /\ h \in Subs /\ Extended(Stream(h)', Stream(h), msg[t])
        /\ \A s \in Subs : s # h => Stream(s)' = Stream(s)
    BY <1>2, <2>1, StreamEnqueued
  <2>3. call[t] \in PublishCalls /\ Visits(t, h)
    <3>1. todo[t] \in Seq(Subs) /\ todo[t] # << >> /\ call[t] = "fanout"
      BY <1>2 DEF FanoutEnqueue, RuntimeTypes
    <3> QED BY <2>1, <3>1, TailEntries DEF Visits, PublishCalls, FanoutCalls
  <2>4. \A x \in Messages : In(Stream(h)', x) => In(Stream(h), x) \/ Offered(h, x)
    BY <2>2, <2>3 DEF Extended, Offered
  <2> QED BY <2>2, <2>4
<1> QED BY <1>1, <1>2

\* Steps that leave the registrations alone, but for removals.
LEMMA ContractKept ==
  ASSUME RuntimeTypes, RuntimeTypes', Busy, ContractInv, FanoutLocked, ListedOnce, [Next]_vars,
         \A t \in Threads : ~Publish(t),
         topics' = topics,
         \A s \in Subs : handle'[s] # "new" <=> handle[s] # "new",
         \A p \in Topics : registered'[p] \subseteq registered[p]
  PROVE  ContractInv'
<1>1. content' = content /\ \A u \in Threads : call'[u] \in PublishCalls => GoesOn(u)
  BY PublishersGoOn
<1>2. ContentTyped' /\ HandlesTyped' /\ RecordsTyped'
  <2>1. ContentTyped'
    BY <1>1, Zenon DEF ContractInv, ContentTyped
  <2>2. HandlesTyped'
    BY DEF ContractInv, HandlesTyped
  <2>3. RecordsTyped'
    BY DEF ContractInv, RecordsTyped, RuntimeTypes
  <2> QED BY <2>1, <2>2, <2>3
<1>3. SnapshotsTyped'
  BY <1>1 DEF ContractInv, SnapshotsTyped, GoesOn
<1>4. ASSUME NEW s \in Subs, NEW x \in Messages, Offered(s, x)
      PROVE  x \in 1..Len(content) /\ content[x].topic = TopicOf[s] /\ content[x].type = TypeOf[s]
  BY <1>4 DEF Offered, ContractInv, SnapshotsTyped, ContentTyped, HandlesTyped
<1>5. StreamsTyped'
  BY <1>1, <1>4, StreamsGain DEF ContractInv, StreamsTyped
<1> QED BY <1>2, <1>3, <1>5 DEF ContractInv

\* A registration gives a topic a type only when it has none.
LEMMA ContractRegistered ==
  ASSUME RuntimeTypes, RuntimeTypes', Busy, ContractInv, FanoutLocked, ListedOnce, [Next]_vars,
         \A t \in Threads : ~Publish(t),
         NEW p \in Topics, NEW type \in Types, TypeAllowed(p, type),
         topics' = [topics EXCEPT ![p] = type],
         \A s \in Subs : handle'[s] # "new" =>
            handle[s] # "new" \/ (TopicOf[s] = p /\ TypeOf[s] = type),
         \A s \in Subs : handle[s] # "new" => handle'[s] # "new",
         \A o \in Topics : \A s \in registered'[o] :
            s \in registered[o] \/ (TopicOf[s] = o /\ handle'[s] # "new")
  PROVE  ContractInv'
<1>1. content' = content /\ \A u \in Threads : call'[u] \in PublishCalls => GoesOn(u)
  BY PublishersGoOn
<1>2. \A o \in Topics : topics[o] \in Types => topics'[o] = topics[o]
  BY NoTypeAssumption DEF TypeAllowed, RuntimeTypes
<1>3. ContentTyped'
  <2> SUFFICES ASSUME NEW m \in 1..Len(content)
               PROVE  content[m].type = topics'[content[m].topic]
    BY <1>1 DEF ContentTyped
  <2>1. /\ content[m].type = topics[content[m].topic]
        /\ content[m].type \in Types /\ content[m].topic \in Topics
    BY ContentFields DEF ContractInv, ContentTyped
  <2> QED BY <1>2, <2>1
<1>4. HandlesTyped'
  <2> SUFFICES ASSUME NEW s \in Subs, handle'[s] # "new"
               PROVE  topics'[TopicOf[s]] = TypeOf[s]
    BY DEF HandlesTyped
  <2>1. TopicOf[s] \in Topics /\ TypeOf[s] \in Types
    BY HandlesAssumption
  <2>2. CASE handle[s] # "new"
    BY <1>2, <2>1, <2>2 DEF ContractInv, HandlesTyped
  <2>3. CASE TopicOf[s] = p /\ TypeOf[s] = type
    BY <2>3 DEF RuntimeTypes
  <2> QED BY <2>2, <2>3
<1>5. RecordsTyped'
  BY DEF ContractInv, RecordsTyped, RuntimeTypes
<1>6. SnapshotsTyped'
  BY <1>1 DEF ContractInv, SnapshotsTyped, GoesOn
<1>7. ASSUME NEW s \in Subs, NEW x \in Messages, Offered(s, x)
      PROVE  x \in 1..Len(content) /\ content[x].topic = TopicOf[s] /\ content[x].type = TypeOf[s]
  BY <1>7 DEF Offered, ContractInv, SnapshotsTyped, ContentTyped, HandlesTyped
<1>8. StreamsTyped'
  BY <1>1, <1>7, StreamsGain DEF ContractInv, StreamsTyped
<1> QED BY <1>3, <1>4, <1>5, <1>6, <1>8 DEF ContractInv

\* A publish call publishes with the type of its topic and lists subscriptions
\* of that topic.
LEMMA ContractPublish ==
  ASSUME RuntimeTypes, RuntimeTypes', Busy, ContractInv, [Next]_vars,
         NEW t \in Threads, Publish(t)
  PROVE  /\ ContractInv'
         /\ msg'[t] = Len(content) + 1 /\ call'[t] = "dispatch"
         /\ \A i, j \in 1..Len(todo'[t]) : todo'[t][i] = todo'[t][j] => i = j
         /\ \A m \in 1..Len(content) : content'[m] = content[m]
         /\ \A u \in Threads \ {t} : call'[u] = call[u] /\ todo'[u] = todo[u] /\ msg'[u] = msg[u]
<1>1. PICK publisher \in publishers :
         /\ topics[publisher.topic] = publisher.type
         /\ content' = Append(content, publisher)
         /\ \E order \in Listings(registered[publisher.topic]) :
               todo' = [todo EXCEPT ![t] = order]
  BY DEF Publish
<1> DEFINE p == publisher.topic
<1>0. p \in Topics /\ publisher \in [topic : Topics, type : Types]
  BY <1>1 DEF RuntimeTypes
<1>2. PICK order \in Listings(registered[p]) : todo' = [todo EXCEPT ![t] = order]
  BY <1>1
<1>5. publisher.topic = p /\ publisher.type = topics[p]
  BY <1>1
<1> HIDE DEF p
<1>3. order \in Seq(registered[p]) /\ \A i, j \in 1..Len(order) : order[i] = order[j] => i = j
  <2>1. registered[p] \in SUBSET {s \in Subs : handle[s] # "new"}
    BY <1>0 DEF ContractInv, RecordsTyped, RuntimeTypes
  <2>2. IsFiniteSet(registered[p])
    BY <2>1, FS_Subset DEF Busy
  <2> QED BY <2>2, ListingsComplete
<1>4. /\ todo'[t] = order
      /\ \A u \in Threads \ {t} : call'[u] = call[u] /\ todo'[u] = todo[u] /\ msg'[u] = msg[u]
      /\ msg'[t] = Len(content) + 1 /\ call'[t] = "dispatch"
      /\ UNCHANGED <<topics, registered, handle, blocks, begun>>
  BY <1>2 DEF Publish, Goto, RuntimeTypes, busVars
<1>6. /\ Len(content') = Len(content) + 1 /\ Len(content) \in Nat
      /\ \A m \in 1..Len(content) : content'[m] = content[m]
      /\ content'[Len(content) + 1].topic = p /\ content'[Len(content) + 1].type = topics[p]
  BY <1>0, <1>1, <1>5 DEF RuntimeTypes
<1>7. /\ 1..Len(content) \subseteq 1..Len(content')
      /\ \A m \in 1..Len(content') : m \in 1..Len(content) \/ m = Len(content) + 1
      /\ Len(content) + 1 \in 1..Len(content')
  BY <1>6
<1>8. ContentTyped'
  BY <1>4, <1>6, <1>7 DEF ContractInv, ContentTyped
<1>9. HandlesTyped' /\ RecordsTyped'
  BY <1>4 DEF ContractInv, HandlesTyped, RecordsTyped
<1>10. SnapshotsTyped'
  <2>1. ASSUME NEW u \in Threads \ {t}, call'[u] \in PublishCalls
        PROVE  /\ msg'[u] \in 1..Len(content')
               /\ \A s \in Subs : Visits(u, s)' =>
                     TopicOf[s] = content'[msg'[u]].topic /\ handle'[s] # "new"
    BY <1>4, <1>6, <1>7, <2>1 DEF ContractInv, SnapshotsTyped, Visits
  <2>2. \A s \in Subs : Visits(t, s)' => s \in registered[p]
    BY <1>3, <1>4 DEF Visits
  <2>3. \A s \in registered[p] : TopicOf[s] = p /\ handle[s] # "new"
    BY <1>0 DEF ContractInv, RecordsTyped
  <2>4. /\ msg'[t] \in 1..Len(content')
        /\ \A s \in Subs : Visits(t, s)' =>
              TopicOf[s] = content'[msg'[t]].topic /\ handle'[s] # "new"
    BY <1>4, <1>6, <1>7, <2>2, <2>3
  <2> QED BY <2>1, <2>4 DEF SnapshotsTyped
<1>11. StreamsTyped'
  <2>1. \A s \in Subs : Stream(s)' = Stream(s)
    BY <1>4 DEF Stream
  <2> QED BY <1>6, <1>7, <2>1 DEF ContractInv, StreamsTyped
<1> QED BY <1>3, <1>4, <1>6, <1>8, <1>9, <1>10, <1>11 DEF ContractInv

LEMMA ContractStep ==
  ASSUME RuntimeTypes, RuntimeTypes', Busy, ContractInv, FanoutLocked, ListedOnce,
         BeingCancelled, [Next]_vars
  PROVE  ContractInv'
<1> USE DEF RuntimeTypes
<1>1. ASSUME NEW t \in Threads, Publish(t) PROVE ContractInv'
  BY <1>1, ContractPublish
<1>2. ASSUME \A t \in Threads : ~Publish(t),
             topics' = topics,
             \A s \in Subs : handle'[s] # "new" <=> handle[s] # "new",
             \A p \in Topics : registered'[p] \subseteq registered[p]
      PROVE  ContractInv'
  BY <1>2, ContractKept
<1>3. SUFFICES ASSUME \A t \in Threads : ~Publish(t) PROVE ContractInv'
  BY <1>1
<1>4. ASSUME NEW t \in Threads, Advertise(t) PROVE ContractInv'
  <2>1. PICK p \in Topics, type \in Types :
           TypeAllowed(p, type) /\ topics' = [topics EXCEPT ![p] = type]
    BY <1>4 DEF Advertise
  <2>2. UNCHANGED <<registered, handle>>
    BY <1>4 DEF Advertise
  <2> QED BY <1>3, <2>1, <2>2, ContractRegistered
<1>5. ASSUME NEW t \in Threads, Subscribe(t) PROVE ContractInv'
  <2>1. PICK s \in Subs :
           /\ NewHandle(s) /\ TypeAllowed(TopicOf[s], TypeOf[s])
           /\ topics' = [topics EXCEPT ![TopicOf[s]] = TypeOf[s]]
           /\ registered' = [registered EXCEPT ![TopicOf[s]] = @ \cup {s}]
    BY <1>5 DEF Subscribe
  <2>2. PICK p \in Topics, type \in Types : p = TopicOf[s] /\ type = TypeOf[s]
    BY HandlesAssumption
  <2>3. /\ \A r \in Subs : handle'[r] # "new" =>
              handle[r] # "new" \/ (TopicOf[r] = p /\ TypeOf[r] = type)
        /\ \A r \in Subs : handle[r] # "new" => handle'[r] # "new"
        /\ handle'[s] # "new"
    BY <2>1, <2>2 DEF NewHandle
  <2>4. \A o \in Topics : \A r \in registered'[o] :
            r \in registered[o] \/ (TopicOf[r] = o /\ handle'[r] # "new")
    BY <2>1, <2>2, <2>3
  <2>5. TypeAllowed(p, type) /\ topics' = [topics EXCEPT ![p] = type]
    BY <2>1, <2>2
  <2> HIDE DEF RuntimeTypes
  <2> QED BY <1>3, <2>3, <2>4, <2>5, ContractRegistered, Zenon
<1>6. ASSUME NEW t \in Threads, CancelHandle(t) PROVE ContractInv'
  <2>1. /\ UNCHANGED <<topics, registered>>
        /\ \A s \in Subs : handle'[s] # "new" <=> handle[s] # "new"
    BY <1>6 DEF CancelHandle
  <2> QED BY <1>2, <1>3, <2>1
<1>7. ASSUME NEW t \in Threads, CancelStep(t) PROVE ContractInv'
  <2>1. Head(todo[t]) \in Subs /\ handle[Head(todo[t])] # "new"
    <3>1. call[t] \in CancelCalls
      BY <1>7 DEF CancelStep, Unsubscribe, WaitIdle, CancelCalls
    <3>2. todo[t] # << >> /\ todo[t] \in Seq(Subs)
      BY <3>1 DEF Busy, RuntimeTypes
    <3>3. handle[Head(todo[t])] \in {"closing", "kept", "closed"}
      BY <3>1 DEF BeingCancelled
    <3> QED BY <3>2, <3>3
  <2>2. /\ topics' = topics
        /\ \A s \in Subs : handle'[s] # "new" <=> handle[s] # "new"
    <3>1. \/ handle' = handle
          \/ \E h \in {"closed", "kept"} : handle' = [handle EXCEPT ![Head(todo[t])] = h]
      BY <1>7 DEF CancelStep, Unsubscribe, WaitIdle
    <3>2. topics' = topics
      BY <1>7 DEF CancelStep, Unsubscribe, WaitIdle
    <3> QED BY <2>1, <3>1, <3>2 DEF RuntimeTypes
  <2>3. \A p \in Topics : registered'[p] \subseteq registered[p]
    BY <1>7 DEF CancelStep, Unsubscribe, WaitIdle
  <2> QED BY <1>2, <1>3, <2>2, <2>3
<1>8. ASSUME NEW t \in Threads, BusStop(t) PROVE ContractInv'
  <2>1. UNCHANGED <<topics, handle>> /\ \A p \in Topics : registered'[p] \subseteq registered[p]
    BY <1>8 DEF BusStop
  <2> QED BY <1>2, <1>3, <2>1
<1>9. CASE UNCHANGED <<topics, handle, registered>>
  BY <1>2, <1>3, <1>9
<1>10. ASSUME NEW t \in Threads, PublishStep(t) \/ ShutdownStep(t) PROVE ContractInv'
  BY <1>9, <1>10 DEF PublishStep, LockDispatch, FanoutEnqueue, FanoutExecute, FanoutRefused,
                     FanoutDone, ShutdownStep, StopCancel, ExecutorClose, ExecutorLock,
                     ExecutorJoin, ExecutorWait, busVars
<1>11. ASSUME NEW w \in Workers, WorkerStep(w) \/ EndCallback(w) PROVE ContractInv'
  BY <1>9, <1>11 DEF WorkerStep, TakeDrain, DrainEnd, BeginCallback, EndCallback, busVars
<1>12. CASE UNCHANGED vars
  BY <1>9, <1>12 DEF vars, busVars
<1> QED BY <1>3, <1>4, <1>5, <1>6, <1>7, <1>8, <1>10, <1>11, <1>12
        DEF Next, CallStep

-----------------------------------------------------------------------------
LEMMA BeforeIn ==
  ASSUME NEW S, NEW x, NEW y, Before(S, x, y)
  PROVE  In(S, x) /\ In(S, y)
  BY DEF Before, In

LEMMA PublishedMessage ==
  ASSUME RuntimeTypes, ContractInv, NEW t \in Threads, call[t] \in PublishCalls
  PROVE  msg[t] \in Messages
<1>1. msg[t] \in 1..Len(content) /\ Len(content) \in Nat /\ Len(content) <= MaxMessages
  BY DEF ContractInv, SnapshotsTyped, RuntimeTypes
<1> QED BY <1>1, MessageBoundAssumption DEF Messages

\* The parts about who publishes what.
LEMMA PublishersKept ==
  ASSUME OrderInv, content' = content,
         \A t \in Threads : call'[t] \in PublishCalls => GoesOn(t)
  PROVE  FanoutLocked' /\ OwnMessage' /\ ListedOnce'
<1>1. FanoutLocked'
  <2> SUFFICES ASSUME NEW t \in Threads, call'[t] \in FanoutCalls
               PROVE  dispatch'[content[msg'[t]].topic] = t
    BY DEF FanoutLocked
  <2>1. GoesOn(t)
    BY DEF PublishCalls
  <2> QED BY <2>1 DEF GoesOn
<1>2. OwnMessage'
  BY DEF OrderInv, OwnMessage, GoesOn
<1>3. ListedOnce'
  BY DEF ListedOnce, GoesOn
<1> QED BY <1>1, <1>2, <1>3

LEMMA OrderThin ==
  ASSUME RuntimeTypes, ContractInv, OrderInv, content' = content,
         \A t \in Threads : call'[t] \in PublishCalls => GoesOn(t),
         \A s \in Subs : Thinner(Stream(s)', Stream(s))
  PROVE  OrderInv'
<1>1. FanoutLocked' /\ OwnMessage' /\ ListedOnce'
  BY PublishersKept
<1>2. NoInversion'
  BY DEF OrderInv, NoInversion, Thinner
<1>3. FanoutLast'
  <2> SUFFICES ASSUME NEW t \in Threads, call'[t] \in FanoutCalls, NEW s \in Subs,
                      NEW y \in Messages, Before(Stream(s)', msg'[t], y)
               PROVE  FALSE
    BY DEF FanoutLast
  <2>1. call[t] \in PublishCalls /\ msg'[t] = msg[t]
    BY DEF GoesOn, PublishCalls
  <2>2. msg[t] \in Messages
    BY <2>1, PublishedMessage
  <2>3. Before(Stream(s), msg[t], y)
    BY <2>1, <2>2 DEF Thinner
  <2>4. In(Stream(s), msg[t])
    BY <2>3, BeforeIn
  <2> QED BY <2>1, <2>3, <2>4 DEF OrderInv, FanoutLast, NotYetThere, PublishCalls
<1>4. NotYetThere'
  <2> SUFFICES ASSUME NEW t \in Threads, call'[t] \in PublishCalls, NEW s \in Subs,
                      call'[t] = "dispatch" \/ Ahead(t, s)', In(Stream(s)', msg'[t])
               PROVE  FALSE
    BY DEF NotYetThere
  <2>1. /\ call[t] \in PublishCalls /\ msg'[t] = msg[t]
        /\ call[t] = "dispatch" \/ Ahead(t, s)
    BY DEF GoesOn
  <2>2. msg[t] \in Messages
    BY <2>1, PublishedMessage
  <2>3. In(Stream(s), msg[t])
    BY <2>1, <2>2 DEF Thinner
  <2> QED BY <2>1, <2>3 DEF OrderInv, NotYetThere
<1> QED BY <1>1, <1>2, <1>3, <1>4 DEF OrderInv

\* A message joins a stream behind everything that was there, and it is the
\* last one in the streams it has joined before.
LEMMA OrderEnqueue ==
  ASSUME RuntimeTypes, ContractInv, OrderInv, content' = content,
         \A t \in Threads : call'[t] \in PublishCalls => GoesOn(t),
         NEW t \in Threads, FanoutEnqueue(t), NEW h, h = Head(todo[t]),
         Accepts(blocks[h], TRUE)
  PROVE  OrderInv'
<1>1. FanoutLocked' /\ OwnMessage' /\ ListedOnce'
  BY PublishersKept
<1>2. PICK m \in Messages : m = msg[t]
  BY PublishedMessage DEF FanoutEnqueue, PublishCalls, FanoutCalls
<1>3. /\ h \in Subs /\ Extended(Stream(h)', Stream(h), m)
      /\ \A s \in Subs : s # h => Stream(s)' = Stream(s)
  BY <1>2, StreamEnqueued
<1>4. call[t] = "fanout" /\ todo[t] \in Seq(Subs) /\ todo[t] # << >>
  BY DEF FanoutEnqueue, RuntimeTypes
<1>5. Visits(t, h) /\ Ahead(t, h)
  BY <1>4, TailEntries DEF Visits, Ahead, PostCalls
<1>6. call[t] \in FanoutCalls /\ call[t] \in PublishCalls
  BY <1>4 DEF PublishCalls, FanoutCalls
<1>7. ~In(Stream(h), m) /\ \A s \in Subs, y \in Messages : ~Before(Stream(s), m, y)
  BY <1>2, <1>3, <1>5, <1>6 DEF OrderInv, NotYetThere, FanoutLast
<1>8. \A s \in Subs : \A x, y \in Messages :
         Before(Stream(s)', x, y) => Before(Stream(s), x, y) \/ (s = h /\ In(Stream(h), x) /\ y = m)
  BY <1>3 DEF Extended
<1>9. \A s \in Subs : \A x \in Messages :
         In(Stream(s)', x) => In(Stream(s), x) \/ (s = h /\ x = m)
  BY <1>3 DEF Extended
<1>10. NoInversion'
  <2> SUFFICES ASSUME NEW s \in Subs, NEW r \in Subs, TopicOf[s] = TopicOf[r],
                      NEW x \in Messages, NEW y \in Messages,
                      Before(Stream(s)', x, y), Before(Stream(r)', y, x)
               PROVE  FALSE
    BY DEF NoInversion
  <2>1. ~(Before(Stream(s), x, y) /\ Before(Stream(r), y, x))
    BY DEF OrderInv, NoInversion
  <2> QED BY <1>7, <1>8, <2>1
<1>11. \A u \in Threads : call[u] \in FanoutCalls /\ In(Stream(h), msg[u]) => u = t
  <2> SUFFICES ASSUME NEW u \in Threads, call[u] \in FanoutCalls, In(Stream(h), msg[u])
               PROVE  u = t
    OBVIOUS
  <2>1. msg[u] \in Messages
    BY PublishedMessage DEF PublishCalls
  <2>2. content[msg[u]].topic = TopicOf[h]
    BY <1>3, <2>1 DEF ContractInv, StreamsTyped
  <2>3. content[msg[t]].topic = TopicOf[h]
    BY <1>3, <1>5, <1>6 DEF ContractInv, SnapshotsTyped
  <2> QED BY <1>6, <2>2, <2>3 DEF OrderInv, FanoutLocked
<1>12. FanoutLast'
  <2> SUFFICES ASSUME NEW u \in Threads, call'[u] \in FanoutCalls, NEW s \in Subs,
                      NEW y \in Messages, Before(Stream(s)', msg'[u], y)
               PROVE  FALSE
    BY DEF FanoutLast
  <2>1. call[u] \in PublishCalls /\ msg'[u] = msg[u]
    BY DEF GoesOn, PublishCalls
  <2>2. msg[u] \in Messages
    BY <2>1, PublishedMessage
  <2>3. call[u] \in FanoutCalls
    <3>1. call'[u] # "dispatch" /\ (u # t => call'[u] = call[u])
      BY DEF FanoutEnqueue, Goto, RuntimeTypes, FanoutCalls
    <3> QED BY <1>6, <3>1
  <2>4. ~Before(Stream(s), msg[u], y)
    BY <2>3 DEF OrderInv, FanoutLast
  <2> QED BY <1>2, <1>7, <1>8, <1>11, <2>1, <2>2, <2>3, <2>4
<1>13. NotYetThere'
  <2> SUFFICES ASSUME NEW u \in Threads, call'[u] \in PublishCalls, NEW s \in Subs,
                      call'[u] = "dispatch" \/ Ahead(u, s)', In(Stream(s)', msg'[u])
               PROVE  FALSE
    BY DEF NotYetThere
  <2>1. /\ call[u] \in PublishCalls /\ msg'[u] = msg[u]
        /\ call[u] = "dispatch" \/ Ahead(u, s)
    BY DEF GoesOn
  <2>2. msg[u] \in Messages
    BY <2>1, PublishedMessage
  <2>3. ~In(Stream(s), msg[u])
    BY <2>1 DEF OrderInv, NotYetThere
  <2>4. s = h /\ msg[u] = m
    BY <1>9, <2>1, <2>2, <2>3
  <2>5. u = t
    BY <1>2, <1>6, <2>1, <2>4 DEF OrderInv, OwnMessage
  <2>6. Ahead(t, h)' /\ call'[t] \in FanoutCalls
    <3>1. call'[t] # "dispatch"
      BY <1>4 DEF FanoutEnqueue, Goto, RuntimeTypes
    <3> QED BY <2>4, <2>5, <3>1 DEF PublishCalls
  <2>7. \/ call'[t] \in PostCalls /\ todo'[t] = todo[t]
        \/ todo'[t] = Tail(todo[t])
    BY <1>4 DEF FanoutEnqueue, Goto, RuntimeTypes, PostCalls
  <2>8. PICK i \in 1..Len(todo[t]) : todo[t][i] = h /\ i # 1
    <3>1. PICK j \in 1..Len(todo'[t]) : todo'[t][j] = h /\ (call'[t] \in PostCalls => j > 1)
      BY <2>6 DEF Ahead
    <3>2. CASE call'[t] \in PostCalls /\ todo'[t] = todo[t]
      BY <3>1, <3>2
    <3>3. CASE todo'[t] = Tail(todo[t])
      BY <1>4, <3>1, <3>3, TailEntries
    <3> QED BY <2>7, <3>2, <3>3
  <2>9. 1 \in 1..Len(todo[t]) /\ todo[t][1] = h
    BY <1>4, TailEntries
  <2> QED BY <1>6, <2>8, <2>9 DEF OrderInv, ListedOnce
<1> QED BY <1>1, <1>10, <1>12, <1>13 DEF OrderInv

\* A new message is in no stream and nobody else's.
LEMMA OrderPublish ==
  ASSUME RuntimeTypes, RuntimeTypes', Busy, ContractInv, OrderInv, [Next]_vars,
         NEW t \in Threads, Publish(t)
  PROVE  OrderInv'
<1>1. /\ msg'[t] = Len(content) + 1 /\ call'[t] = "dispatch"
      /\ \A i, j \in 1..Len(todo'[t]) : todo'[t][i] = todo'[t][j] => i = j
      /\ \A m \in 1..Len(content) : content'[m] = content[m]
      /\ \A u \in Threads \ {t} : call'[u] = call[u] /\ todo'[u] = todo[u] /\ msg'[u] = msg[u]
  BY ContractPublish
<1>2. UNCHANGED <<blocks, begun, dispatch>>
  BY DEF Publish
<1>3. \A s \in Subs : Stream(s)' = Stream(s)
  BY <1>2 DEF Stream
<1>4. /\ \A u \in Threads : call[u] \in PublishCalls => msg[u] \in 1..Len(content)
      /\ Len(content) \in Nat /\ Len(content) + 1 \notin 1..Len(content)
  BY DEF ContractInv, SnapshotsTyped, RuntimeTypes
<1>5. \A u \in Threads : call'[u] \in FanoutCalls => u # t /\ call[u] \in FanoutCalls
  BY <1>1 DEF FanoutCalls
<1>6. FanoutLocked'
  <2> SUFFICES ASSUME NEW u \in Threads, call'[u] \in FanoutCalls
               PROVE  dispatch'[content'[msg'[u]].topic] = u
    BY DEF FanoutLocked
  <2>1. u # t /\ call[u] \in FanoutCalls /\ msg'[u] = msg[u]
    BY <1>1, <1>5
  <2>2. content'[msg[u]] = content[msg[u]]
    BY <1>1, <1>4, <2>1 DEF PublishCalls
  <2> QED BY <1>2, <2>1, <2>2 DEF OrderInv, FanoutLocked
<1>7. OwnMessage' /\ ListedOnce'
  BY <1>1, <1>4 DEF OrderInv, OwnMessage, ListedOnce
<1>8. NoInversion'
  BY <1>3 DEF OrderInv, NoInversion
<1>9. FanoutLast'
  BY <1>1, <1>3, <1>5 DEF OrderInv, FanoutLast
<1>10. NotYetThere'
  <2> SUFFICES ASSUME NEW u \in Threads, call'[u] \in PublishCalls, NEW s \in Subs,
                      call'[u] = "dispatch" \/ Ahead(u, s)', In(Stream(s)', msg'[u])
               PROVE  FALSE
    BY DEF NotYetThere
  <2>1. CASE u = t
    <3>1. Len(content) + 1 \in Messages
      BY <1>4, MessageBoundAssumption DEF Publish, Messages
    <3> QED BY <1>1, <1>3, <1>4, <2>1, <3>1 DEF ContractInv, StreamsTyped
  <2>2. CASE u # t
    <3>1. call[u] \in PublishCalls /\ (call[u] = "dispatch" \/ Ahead(u, s))
      BY <1>1, <2>2 DEF Ahead
    <3>2. In(Stream(s), msg[u])
      BY <1>1, <1>3, <2>2
    <3> QED BY <3>1, <3>2 DEF OrderInv, NotYetThere
  <2> QED BY <2>1, <2>2
<1> QED BY <1>6, <1>7, <1>8, <1>9, <1>10 DEF OrderInv

LEMMA OrderStep ==
  ASSUME RuntimeTypes, RuntimeTypes', Busy, ContractInv, OrderInv, [Next]_vars
  PROVE  OrderInv'
<1>1. CASE \E t \in Threads : Publish(t)
  BY <1>1, OrderPublish
<1>2. CASE \A t \in Threads : ~Publish(t)
  <2>1. content' = content /\ \A u \in Threads : call'[u] \in PublishCalls => GoesOn(u)
    BY <1>2, PublishersGoOn DEF OrderInv
  <2>2. CASE \A t \in Threads : FanoutEnqueue(t) => ~Accepts(blocks[Head(todo[t])], TRUE)
    <3>1. \A s \in Subs : Thinner(Stream(s)', Stream(s))
      BY <2>2, StreamsThin
    <3> QED BY <2>1, <3>1, OrderThin
  <2>3. ASSUME NEW t \in Threads, FanoutEnqueue(t), Accepts(blocks[Head(todo[t])], TRUE)
        PROVE  OrderInv'
    BY <2>1, <2>3, OrderEnqueue
  <2> QED BY <2>2, <2>3
<1> QED BY <1>1, <1>2

-----------------------------------------------------------------------------
LEMMA NeverActiveAgain ==
  ASSUME RuntimeTypes, Busy, ContractInv, [Next]_vars
  PROVE  \A s \in Subs : blocks'[s].active => blocks[s].active
<1>1. CASE \A t \in Threads : FanoutEnqueue(t) => ~Accepts(blocks[Head(todo[t])], TRUE)
  BY <1>1, StreamsThin
<1>2. ASSUME NEW t \in Threads, FanoutEnqueue(t), Accepts(blocks[Head(todo[t])], TRUE)
      PROVE  \A s \in Subs : blocks'[s].active => blocks[s].active
  BY <1>2, StreamEnqueued
<1> QED BY <1>1, <1>2

\* A subscription that is cancelled in the step is inactive after it.
LEMMA CancelledNow ==
  ASSUME RuntimeTypes, NEW s \in Subs, blocks' = [blocks EXCEPT ![s] = Cancelled(blocks[s])]
  PROVE  ~blocks'[s].active
<1>1. blocks[s] \in Block /\ blocks'[s] = Cancelled(blocks[s])
  BY DEF RuntimeTypes
<1> QED BY <1>1, BlockFields

LEMMA StopStep ==
  ASSUME RuntimeTypes, RuntimeTypes', Busy, ContractInv, StopInv, [Next]_vars
  PROVE  CancelledInactive' /\ BeingCancelled' /\ LiveKnown'
<1> DEFINE Goal == CancelledInactive' /\ BeingCancelled' /\ LiveKnown'
<1>0. \A s \in Subs : blocks'[s].active => blocks[s].active
  BY NeverActiveAgain
\* Most steps: handles stay, no registration is lost, and the calls that are
\* about to cancel keep their lists.
<1>1. ASSUME handle' = handle,
             accepting => accepting' /\ \A p \in Topics : registered[p] \subseteq registered'[p],
             \A t \in Threads : call'[t] \in CancelCalls =>
                call[t] \in CancelCalls /\ todo'[t] = todo[t],
             \A t \in Threads : call[t] = "stop_cancel" =>
                call'[t] = "stop_cancel" /\ todo'[t] = todo[t]
      PROVE  Goal
  <2>1. CancelledInactive'
    BY <1>0, <1>1 DEF StopInv, CancelledInactive
  <2>2. BeingCancelled'
    BY <1>1 DEF StopInv, BeingCancelled
  <2>3. \A t \in Threads, s \in Subs :
           call[t] = "stop_cancel" /\ Visits(t, s) => call'[t] = "stop_cancel" /\ Visits(t, s)'
    BY <1>1 DEF Visits
  <2>4. LiveKnown'
    BY <1>0, <1>1, <2>3, HandlesAssumption DEF StopInv, LiveKnown
  <2> QED BY <2>1, <2>2, <2>4
<1>2. ASSUME UNCHANGED <<accepting, registered, handle, call, todo>> PROVE Goal
  BY <1>1, <1>2
<1>3. ASSUME NEW t \in Threads, Subscribe(t) PROVE Goal
  <2>1. PICK s \in Subs :
           /\ handle[s] = "new" /\ handle' = [handle EXCEPT ![s] = "held"]
           /\ registered' = [registered EXCEPT ![TopicOf[s]] = @ \cup {s}]
    BY <1>3 DEF Subscribe, NewHandle
  <2>2. accepting /\ UNCHANGED <<accepting, call, todo>>
    BY <1>3 DEF Subscribe
  <2>3. TopicOf \in [Subs -> Topics]
    BY HandlesAssumption
  <2>4. /\ \A r \in Subs : r # s => handle'[r] = handle[r]
        /\ handle'[s] = "held" /\ s \in registered'[TopicOf[s]]
        /\ \A p \in Topics : registered[p] \subseteq registered'[p]
    BY <2>1, <2>3 DEF RuntimeTypes
  <2>5. CancelledInactive'
    BY <1>0, <2>4 DEF StopInv, CancelledInactive
  <2>6. BeingCancelled'
    BY <2>1, <2>2 DEF StopInv, BeingCancelled, RuntimeTypes
  <2>7. LiveKnown'
    <3> SUFFICES ASSUME NEW r \in Subs, handle'[r] # "new", blocks'[r].active
                 PROVE  \/ accepting' /\ r \in registered'[TopicOf[r]]
                        \/ \E u \in Threads : call'[u] = "stop_cancel" /\ Visits(u, r)'
      BY DEF LiveKnown
    <3>1. CASE r = s
      BY <2>2, <2>4, <3>1
    <3>2. CASE r # s
      BY <1>0, <2>2, <2>3, <2>4, <3>2 DEF StopInv, LiveKnown, Visits
    <3> QED BY <3>1, <3>2
  <2> QED BY <2>5, <2>6, <2>7
<1>4. ASSUME NEW t \in Threads, CancelHandle(t) PROVE Goal
  <2>1. PICK s \in Subs : /\ handle[s] \in {"held", "kept"}
                          /\ handle' = [handle EXCEPT ![s] = "closing"]
                          /\ blocks' = [blocks EXCEPT ![s] = Cancelled(blocks[s])]
                          /\ todo' = [todo EXCEPT ![t] = <<s>>]
    BY <1>4 DEF CancelHandle
  <2>2. ~blocks'[s].active
    BY <2>1, CancelledNow
  <2>3. /\ call[t] = "none" /\ call' = [call EXCEPT ![t] = "unsubscribe"]
        /\ UNCHANGED <<accepting, registered>>
    BY <1>4 DEF CancelHandle, CanCall, Goto
  <2>4. CancelledInactive'
    BY <1>0, <2>1, <2>2 DEF StopInv, CancelledInactive, RuntimeTypes
  <2>5. BeingCancelled'
    <3> SUFFICES ASSUME NEW u \in Threads, call'[u] \in CancelCalls
                 PROVE  handle'[Head(todo'[u])] \in {"closing", "kept", "closed"}
      BY DEF BeingCancelled
    <3>1. CASE u = t
      <4>1. todo'[u] = <<s>>
        BY <2>1, <3>1 DEF RuntimeTypes
      <4>2. Head(todo'[u]) = s
        BY <4>1
      <4> QED BY <2>1, <4>2 DEF RuntimeTypes
    <3>2. CASE u # t
      <4>1. todo'[u] = todo[u] /\ call'[u] = call[u]
        BY <2>1, <2>3, <3>2 DEF RuntimeTypes
      <4>2. todo[u] # << >> /\ todo[u] \in Seq(Subs)
        BY <4>1 DEF Busy, RuntimeTypes
      <4>3. Head(todo[u]) \in Subs /\ handle[Head(todo[u])] \in {"closing", "kept", "closed"}
        BY <4>1, <4>2 DEF StopInv, BeingCancelled
      <4> QED BY <2>1, <4>1, <4>3 DEF RuntimeTypes
    <3> QED BY <3>1, <3>2
  <2>6. \A u \in Threads, r \in Subs :
           call[u] = "stop_cancel" /\ Visits(u, r) => call'[u] = "stop_cancel" /\ Visits(u, r)'
    BY <2>1, <2>3 DEF Visits, RuntimeTypes
  <2>7. \A r \in Subs : handle'[r] # "new" => handle[r] # "new"
    BY <2>1 DEF RuntimeTypes
  <2>8. LiveKnown'
    BY <1>0, <2>3, <2>6, <2>7 DEF StopInv, LiveKnown
  <2> QED BY <2>4, <2>5, <2>8
<1>5. ASSUME NEW t \in Threads, CancelStep(t) PROVE Goal
  <2>1. PICK s \in Subs : s = Head(todo[t]) /\ handle[s] \in {"closing", "kept", "closed"}
    BY <1>5 DEF CancelStep, Unsubscribe, WaitIdle, CancelCalls, StopInv, BeingCancelled,
                Busy, RuntimeTypes
  <2>2. /\ handle' = handle \/ \E h \in {"closed", "kept"} : handle' = [handle EXCEPT ![s] = h]
        /\ accepting' = accepting
        /\ \A p \in Topics : \A r \in registered[p] : r \in registered'[p] \/ r = s
        /\ \A u \in Threads \ {t} : call'[u] = call[u] /\ todo'[u] = todo[u]
        /\ call[t] \in CancelCalls
        /\ call'[t] \in CancelCalls => todo'[t] = todo[t]
    <3>1. CASE Unsubscribe(t)
      <4>1. registered' = [registered EXCEPT ![TopicOf[s]] = @ \ {s}]
        BY <2>1, <3>1 DEF Unsubscribe
      <4>2. \A p \in Topics : \A r \in registered[p] : r \in registered'[p] \/ r = s
        BY <4>1 DEF RuntimeTypes
      <4> QED BY <2>1, <3>1, <4>2 DEF Unsubscribe, Goto, CancelCalls, RuntimeTypes
    <3>2. CASE WaitIdle(t)
      BY <2>1, <3>2 DEF WaitIdle, Goto, CancelCalls, RuntimeTypes
    <3> QED BY <1>5, <3>1, <3>2 DEF CancelStep
  <2>3. ~blocks[s].active
    BY <2>1 DEF StopInv, CancelledInactive
  <2>4. \A r \in Subs : /\ handle'[r] # "new" => handle[r] # "new"
                        /\ handle[r] \in {"closing", "kept", "closed"}
                              <=> handle'[r] \in {"closing", "kept", "closed"}
    BY <2>1, <2>2 DEF RuntimeTypes
  <2>5. CancelledInactive'
    BY <1>0, <2>4 DEF StopInv, CancelledInactive
  <2>6. BeingCancelled'
    <3> SUFFICES ASSUME NEW u \in Threads, call'[u] \in CancelCalls
                 PROVE  handle'[Head(todo'[u])] \in {"closing", "kept", "closed"}
      BY DEF BeingCancelled
    <3>1. todo'[u] = todo[u] /\ call[u] \in CancelCalls
      BY <2>2
    <3>2. Head(todo[u]) \in Subs
      BY <3>1 DEF Busy, RuntimeTypes
    <3> QED BY <2>4, <3>1, <3>2 DEF StopInv, BeingCancelled
  <2>7. \A u \in Threads, r \in Subs :
           call[u] = "stop_cancel" /\ Visits(u, r) => call'[u] = "stop_cancel" /\ Visits(u, r)'
    BY <2>2 DEF Visits, CancelCalls
  <2>8. LiveKnown'
    <3> SUFFICES ASSUME NEW r \in Subs, handle'[r] # "new", blocks'[r].active
                 PROVE  \/ accepting' /\ r \in registered'[TopicOf[r]]
                        \/ \E u \in Threads : call'[u] = "stop_cancel" /\ Visits(u, r)'
      BY DEF LiveKnown
    <3>1. blocks[r].active /\ r # s /\ handle[r] # "new" /\ TopicOf[r] \in Topics
      BY <1>0, <2>3, <2>4, HandlesAssumption
    <3> QED BY <2>2, <2>7, <3>1 DEF StopInv, LiveKnown
  <2> QED BY <2>5, <2>6, <2>8
<1>6. ASSUME NEW t \in Threads, BusStop(t) PROVE Goal
  <2>1. /\ handle' = handle /\ call[t] = "none" /\ call'[t] \in {"ex_close", "stop_cancel"}
        /\ \A u \in Threads \ {t} : call'[u] = call[u] /\ todo'[u] = todo[u]
    BY <1>6 DEF BusStop, CanCall, Goto, RuntimeTypes
  <2>2. CASE ~accepting
    BY <1>1, <1>6, <2>1, <2>2 DEF BusStop, CancelCalls
  <2>3. CASE accepting
    <3> DEFINE R == UNION {registered[p] : p \in Topics}
    <3>1. PICK order \in Listings(R) : todo' = [todo EXCEPT ![t] = order]
      BY <1>6, <2>3 DEF BusStop
    <3>2. R \in SUBSET {s \in Subs : handle[s] # "new"}
      BY DEF ContractInv, RecordsTyped, RuntimeTypes
    <3>3. IsFiniteSet(R)
      BY <3>2, FS_Subset DEF Busy
    <3>4. \A s \in R : \E i \in 1..Len(order) : order[i] = s
      <4> HIDE DEF R
      <4> QED BY <3>3, ListingsComplete
    <3>5. todo'[t] = order /\ call'[t] = "stop_cancel"
      BY <1>6, <2>3, <3>1 DEF BusStop, Goto, RuntimeTypes
    <3>6. \A s \in Subs : s \in registered[TopicOf[s]] => Visits(t, s)'
      BY <3>4, <3>5, HandlesAssumption DEF Visits
    <3>7. \A u \in Threads, r \in Subs :
             call[u] = "stop_cancel" /\ Visits(u, r) => call'[u] = "stop_cancel" /\ Visits(u, r)'
      BY <2>1 DEF Visits
    <3>8. LiveKnown'
      BY <1>0, <2>1, <3>5, <3>6, <3>7 DEF StopInv, LiveKnown
    <3>9. CancelledInactive'
      BY <1>0, <2>1 DEF StopInv, CancelledInactive
    <3>10. BeingCancelled'
      BY <2>1 DEF StopInv, BeingCancelled, CancelCalls
    <3> QED BY <3>8, <3>9, <3>10
  <2> QED BY <2>2, <2>3
<1>7. ASSUME NEW t \in Threads, StopCancel(t) PROVE Goal
  <2>1. /\ UNCHANGED <<handle, accepting, registered>>
        /\ call[t] = "stop_cancel" /\ call'[t] \notin CancelCalls
        /\ \A u \in Threads \ {t} : call'[u] = call[u] /\ todo'[u] = todo[u]
    BY <1>7 DEF StopCancel, Goto, busVars, CancelCalls, RuntimeTypes
  <2>2. CancelledInactive'
    BY <1>0, <2>1 DEF StopInv, CancelledInactive
  <2>3. BeingCancelled'
    BY <2>1 DEF StopInv, BeingCancelled
  <2>4. \A r \in Subs : blocks'[r].active /\ Visits(t, r) => call'[t] = "stop_cancel" /\ Visits(t, r)'
    <3> SUFFICES ASSUME NEW r \in Subs, blocks'[r].active, Visits(t, r)
                 PROVE  call'[t] = "stop_cancel" /\ Visits(t, r)'
      OBVIOUS
    <3>1. PICK i \in 1..Len(todo[t]) : todo[t][i] = r
      BY DEF Visits
    <3>2. todo[t] \in Seq(Subs) /\ todo[t] # << >>
      BY <3>1 DEF RuntimeTypes
    <3>3. PICK h \in Subs : h = Head(todo[t])
      BY <3>2
    <3>4. /\ blocks' = [blocks EXCEPT ![h] = Cancelled(blocks[h])]
          /\ todo'[t] = Tail(todo[t]) /\ call' = call
      BY <1>7, <3>2, <3>3 DEF StopCancel, RuntimeTypes
    <3>5. r # h
      BY <3>4, CancelledNow
    <3>6. i # 1
      BY <3>1, <3>2, <3>3, <3>5
    <3>7. i - 1 \in 1..Len(Tail(todo[t])) /\ Tail(todo[t])[i - 1] = r
      BY <3>1, <3>2, <3>6
    <3> QED BY <2>1, <3>4, <3>7 DEF Visits
  <2>5. \A u \in Threads \ {t}, r \in Subs :
           call[u] = "stop_cancel" /\ Visits(u, r) => call'[u] = "stop_cancel" /\ Visits(u, r)'
    BY <2>1 DEF Visits
  <2>6. LiveKnown'
    BY <1>0, <2>1, <2>4, <2>5 DEF StopInv, LiveKnown
  <2> QED BY <2>2, <2>3, <2>6
<1>8. ASSUME NEW t \in Threads,
             Advertise(t) \/ Publish(t) \/ PublishStep(t) \/ ExecutorClose(t)
               \/ ExecutorLock(t) \/ ExecutorJoin(t) \/ ExecutorWait(t)
      PROVE  Goal
  <2>1. UNCHANGED <<handle, accepting, registered>>
    BY <1>8 DEF Advertise, Publish, PublishStep, LockDispatch, FanoutEnqueue, FanoutExecute,
                FanoutRefused, FanoutDone, ExecutorClose, ExecutorLock, ExecutorJoin,
                ExecutorWait, busVars
  <2>2. call[t] # "stop_cancel" /\ call'[t] \notin CancelCalls
    BY <1>8 DEF Advertise, Publish, PublishStep, LockDispatch, FanoutEnqueue, FanoutExecute,
                FanoutRefused, FanoutDone, ExecutorClose, ExecutorLock, ExecutorJoin,
                ExecutorWait, CanCall, Goto, CancelCalls, RuntimeTypes
  <2>3. \A u \in Threads \ {t} : call'[u] = call[u]
    BY <1>8 DEF Advertise, Publish, PublishStep, LockDispatch, FanoutEnqueue, FanoutExecute,
                FanoutRefused, FanoutDone, ExecutorClose, ExecutorLock, ExecutorJoin,
                ExecutorWait, Goto, RuntimeTypes
  <2>4. \A u \in Threads \ {t} : todo'[u] = todo[u]
    BY <1>8 DEF Advertise, Publish, PublishStep, LockDispatch, FanoutEnqueue, FanoutExecute,
                FanoutRefused, FanoutDone, ExecutorClose, ExecutorLock, ExecutorJoin,
                ExecutorWait, RuntimeTypes
  <2> QED BY <1>1, <2>1, <2>2, <2>3, <2>4
<1>9. ASSUME NEW w \in Workers, WorkerStep(w) \/ EndCallback(w) PROVE Goal
  BY <1>2, <1>9 DEF WorkerStep, TakeDrain, DrainEnd, BeginCallback, EndCallback, busVars
<1>10. CASE UNCHANGED vars
  BY <1>2, <1>10 DEF vars, busVars
<1> QED BY <1>3, <1>4, <1>5, <1>6, <1>7, <1>8, <1>9, <1>10 DEF Next, CallStep, ShutdownStep

LEMMA JoinStep ==
  ASSUME RuntimeTypes, Busy, StopInv, [Next]_vars
  PROVE  Joining' /\ Joined'
<1> USE DEF RuntimeTypes
<1> DEFINE Goal == Joining' /\ Joined'
<1>1. ASSUME NEW t \in Threads, \A u \in Threads \ {t} : call'[u] = call[u],
             call'[t] \notin {"ex_lock", "ex_join"}, UNCHANGED <<poolVars, pc>>,
             executorDone => \A s \in Subs : drains'[s] = drains[s]
      PROVE  Goal
  BY <1>1 DEF StopInv, Joining, Joined, poolVars
<1>2. ASSUME NEW t \in Threads,
             Advertise(t) \/ Subscribe(t) \/ Publish(t) \/ CancelHandle(t) \/ CancelStep(t)
               \/ BusStop(t) \/ StopCancel(t)
      PROVE  Goal
  <2>1. UNCHANGED <<poolVars, pc, drains>>
    BY <1>2 DEF Advertise, Subscribe, Publish, CancelHandle, CancelStep, Unsubscribe, WaitIdle,
                BusStop, StopCancel
  <2>2. /\ \A u \in Threads \ {t} : call'[u] = call[u]
        /\ call'[t] \notin {"ex_lock", "ex_join"}
    BY <1>2 DEF Advertise, Subscribe, Publish, CancelHandle, CancelStep, Unsubscribe, WaitIdle,
                BusStop, StopCancel, CanCall, Goto
  <2> QED BY <1>1, <2>1, <2>2
<1>3. ASSUME NEW t \in Threads, PublishStep(t) PROVE Goal
  <2>1. /\ UNCHANGED <<poolVars, pc>>
        /\ ~executorOpen => drains' = drains
    BY <1>3 DEF PublishStep, LockDispatch, FanoutEnqueue, FanoutExecute, FanoutRefused,
                FanoutDone
  <2>2. /\ \A u \in Threads \ {t} : call'[u] = call[u]
        /\ call'[t] \notin {"ex_lock", "ex_join"}
    BY <1>3 DEF PublishStep, LockDispatch, FanoutEnqueue, FanoutExecute, FanoutRefused,
                FanoutDone, Goto
  <2>3. executorDone => ~executorOpen
    BY DEF StopInv, Joined
  <2> QED BY <1>1, <2>1, <2>2, <2>3
<1>4. ASSUME NEW t \in Threads, ExecutorClose(t) PROVE Goal
  BY <1>4 DEF ExecutorClose, Goto, StopInv, Joining, Joined
<1>5. ASSUME NEW t \in Threads, ExecutorLock(t) PROVE Goal
  BY <1>5, ThreadsAssumption DEF ExecutorLock, Goto, StopInv, Joining, Joined
<1>6. ASSUME NEW t \in Threads, ExecutorJoin(t) PROVE Goal
  BY <1>6 DEF ExecutorJoin, Goto, StopInv, Joining, Joined
<1>7. ASSUME NEW t \in Threads, ExecutorWait(t) PROVE Goal
  BY <1>1, <1>7 DEF ExecutorWait, Goto
<1>8. ASSUME NEW w \in Workers, TakeDrain(w) PROVE Goal
  <2>1. UNCHANGED <<poolVars, call>>
    BY <1>8 DEF TakeDrain
  <2>2. Joining'
    BY <2>1 DEF StopInv, Joining, poolVars
  <2>3. ASSUME executorDone PROVE Joined'
    <3>1. PICK s \in Subs : drains[s] > 0
      BY <1>8 DEF TakeDrain
    <3>2. Workers = {joiner}
      BY <2>3, <3>1 DEF StopInv, Joined
    <3> QED BY <2>1, <2>3, <3>2 DEF StopInv, Joined, poolVars
  <2>4. ~executorDone => Joined'
    BY <2>1 DEF Joined, poolVars
  <2> QED BY <2>2, <2>3, <2>4
<1>9. ASSUME NEW w \in Workers, DrainEnd(w) \/ BeginCallback(w) \/ EndCallback(w) PROVE Goal
  <2>1. UNCHANGED <<poolVars, call, drains>>
    BY <1>9 DEF DrainEnd, BeginCallback, EndCallback
  <2>2. Joining'
    BY <2>1 DEF StopInv, Joining, poolVars
  <2>3. pc[w] # "free" /\ \A v \in Workers : v # w => pc'[v] = pc[v]
    BY <1>9 DEF DrainEnd, BeginCallback, EndCallback
  <2>4. Joined'
    BY <2>1, <2>3 DEF StopInv, Joined, poolVars
  <2> QED BY <2>2, <2>4
<1>10. CASE UNCHANGED vars
  BY <1>10 DEF vars, poolVars, StopInv, Joining, Joined
<1> QED BY <1>2, <1>3, <1>4, <1>5, <1>6, <1>7, <1>8, <1>9, <1>10
        DEF Next, CallStep, ShutdownStep, WorkerStep

-----------------------------------------------------------------------------
LEMMA InvInitially == Init => RuntimeInv
<1> SUFFICES ASSUME Init PROVE RuntimeInv
  OBVIOUS
<1>1. RuntimeTypes /\ Busy
  BY TypesInitially
<1>2. \A t \in Threads : call[t] = "none"
  BY DEF Init
<1>3. \A s \in Subs : Stream(s) = << >>
  <2> SUFFICES ASSUME NEW s \in Subs PROVE Stream(s) = << >>
    OBVIOUS
  <2>1. begun[s] = << >> /\ blocks[s].pending = << >>
    BY DEF Init, NewBlocks
  <2> QED BY <2>1 DEF Stream
<1>4. \A s \in Subs, x, y \in Messages : ~In(Stream(s), x) /\ ~Before(Stream(s), x, y)
  <2>1. Len(<< >>) = 0
    OBVIOUS
  <2> QED BY <1>3, <2>1 DEF In, Before
<1>5. ContractInv
  <2>1. content = << >> /\ Len(content) = 0
    BY DEF Init
  <2>2. ContentTyped
    BY <2>1 DEF ContentTyped
  <2> QED BY <1>2, <1>4, <2>2
          DEF Init, ContractInv, HandlesTyped, RecordsTyped, SnapshotsTyped, StreamsTyped,
              PublishCalls, FanoutCalls
<1>6. OrderInv
  BY <1>2, <1>4 DEF OrderInv, FanoutLocked, OwnMessage, ListedOnce, NoInversion, FanoutLast,
                    NotYetThere, PublishCalls, FanoutCalls
<1>7. StopInv
  BY <1>2 DEF Init, StopInv, CancelledInactive, BeingCancelled, LiveKnown, Joining, Joined,
              CancelCalls
<1> QED BY <1>1, <1>5, <1>6, <1>7 DEF RuntimeInv

LEMMA InvStep == RuntimeInv /\ [Next]_vars => RuntimeInv'
<1> SUFFICES ASSUME RuntimeInv, [Next]_vars PROVE RuntimeInv'
  OBVIOUS
<1>1. /\ RuntimeTypes /\ Busy /\ ContractInv /\ OrderInv /\ StopInv
      /\ FanoutLocked /\ ListedOnce /\ BeingCancelled
  BY DEF RuntimeInv, OrderInv, StopInv
<1>2. RuntimeTypes'
  BY <1>1, TypesStep
<1>3. Busy' /\ ContractInv'
  BY <1>1, <1>2, BusyStep, ContractStep
<1>4. OrderInv'
  BY <1>1, <1>2, OrderStep
<1>5. StopInv'
  BY <1>1, <1>2, StopStep, JoinStep DEF StopInv
<1> QED BY <1>2, <1>3, <1>4, <1>5 DEF RuntimeInv

LEMMA Invariant == Spec => []RuntimeInv
  BY InvInitially, InvStep, PTL DEF Spec

LEMMA StreamIndexed ==
  ASSUME RuntimeTypes, NEW s \in Subs
  PROVE  /\ Stream(s) \in Seq(Messages) /\ DOMAIN Stream(s) = 1..Len(Stream(s))
         /\ Len(Stream(s)) \in Nat
<1>1. begun[s] \in Seq(Messages) /\ blocks[s].pending \in Seq(Messages)
  BY BlockShape DEF RuntimeTypes
<1>2. Stream(s) \in Seq(Messages)
  BY <1>1 DEF Stream
<1> QED BY <1>2

(***************************************************************************)
(* All subscriptions of a topic agree on the order of the messages they    *)
(* share: TopicBus::publish takes its snapshot before dispatch_mutex, but  *)
(* holds the mutex for the whole fan-out.                                  *)
(***************************************************************************)
THEOREM OrderShared == Spec => []TopicOrder
<1>1. RuntimeInv => TopicOrder
  <2> SUFFICES ASSUME RuntimeInv,
                      NEW s \in Subs, NEW r \in Subs, TopicOf[s] = TopicOf[r],
                      NEW i \in DOMAIN Stream(s), NEW j \in DOMAIN Stream(s),
                      NEW k \in DOMAIN Stream(r), NEW l \in DOMAIN Stream(r),
                      i < j, Stream(s)[i] = Stream(r)[k], Stream(s)[j] = Stream(r)[l],
                      ~(k < l)
               PROVE  FALSE
    BY DEF TopicOrder
  <2>1. /\ i \in 1..Len(Stream(s)) /\ j \in 1..Len(Stream(s))
        /\ k \in 1..Len(Stream(r)) /\ l \in 1..Len(Stream(r))
        /\ Stream(s) \in Seq(Messages) /\ Len(Stream(s)) \in Nat /\ Len(Stream(r)) \in Nat
    BY StreamIndexed DEF RuntimeInv
  <2>2. PICK x \in Messages, y \in Messages : x = Stream(s)[i] /\ y = Stream(s)[j]
    BY <2>1
  <2>3. Before(Stream(s), x, y)
    BY <2>1, <2>2 DEF Before
  <2>4. CASE k = l
    BY <2>2, <2>3, <2>4 DEF RuntimeInv, OrderInv, NoInversion
  <2>5. CASE l < k
    <3>1. Before(Stream(r), y, x)
      BY <2>1, <2>2, <2>5 DEF Before
    <3> QED BY <2>3, <3>1 DEF RuntimeInv, OrderInv, NoInversion
  <2> QED BY <2>1, <2>4, <2>5
<1> QED BY <1>1, Invariant, PTL

(***************************************************************************)
(* The static_pointer_cast of an erased message is always right: whatever  *)
(* a subscription has been given has its topic and its type.               *)
(***************************************************************************)
THEOREM CastsSafe == Spec => []TypeContract
<1>1. RuntimeInv => TypeContract
  <2> SUFFICES ASSUME RuntimeInv, NEW s \in Subs, NEW i \in DOMAIN Stream(s)
               PROVE  content[Stream(s)[i]] = [topic |-> TopicOf[s], type |-> TypeOf[s]]
    BY DEF TypeContract
  <2>1. i \in 1..Len(Stream(s)) /\ Stream(s) \in Seq(Messages)
    BY StreamIndexed DEF RuntimeInv
  <2>2. PICK x \in Messages : x = Stream(s)[i]
    BY <2>1
  <2>3. /\ x \in 1..Len(content)
        /\ content[x].topic = TopicOf[s] /\ content[x].type = TypeOf[s]
    BY <2>1, <2>2 DEF In, RuntimeInv, ContractInv, StreamsTyped
  <2> DEFINE R == [topic : Topics, type : Types]
  <2>4. content \in Seq(R)
    BY DEF RuntimeInv, RuntimeTypes
  <2> HIDE DEF R
  <2>5. content[x] \in R
    BY <2>3, <2>4
  <2> QED BY <2>2, <2>3, <2>5 DEF R
<1> QED BY <1>1, Invariant, PTL

(***************************************************************************)
(* stop() cancels every subscription although subscribe and publish race   *)
(* with it, and when the executor's shutdown has completed no worker is in *)
(* a callback, but for one that called Runtime::shutdown itself.           *)
(***************************************************************************)
THEOREM ShutdownQuiets == Spec => []QuietAfterShutdown
<1>1. RuntimeInv => QuietAfterShutdown
  <2> SUFFICES ASSUME RuntimeInv PROVE QuietAfterShutdown
    OBVIOUS
  <2>1. StopCancelsAll
    BY DEF RuntimeInv, StopInv, LiveKnown, StopCancelsAll
  <2> QED BY <2>1 DEF RuntimeInv, StopInv, Joined, QuietAfterShutdown
<1> QED BY <1>1, Invariant, PTL

(***************************************************************************)
(* Once Subscription::cancel has begun, no further callback of that        *)
(* subscription begins, whatever publish or drain is under way.            *)
(***************************************************************************)
THEOREM CancelFinal == Spec => NoCallbackBeginsAfterCancel
<1> DEFINE Quiet == \A s \in Subs : handle[s] \in {"closing", "kept", "closed"} => begun'[s] = begun[s]
<1>1. RuntimeInv /\ [Next]_vars => [Quiet]_vars
  <2> SUFFICES ASSUME RuntimeInv, Next PROVE Quiet
    BY DEF vars
  <2>1. ASSUME NEW w \in Workers, BeginCallback(w) PROVE Quiet
    <3>1. blocks[serving[w]].active
      BY <2>1 DEF BeginCallback, DrainEnds
    <3>2. begun \in [Subs -> Seq(Messages)]
      BY DEF RuntimeInv, RuntimeTypes
    <3>3. \A s \in Subs : s # serving[w] => begun'[s] = begun[s]
      BY <2>1, <3>2 DEF BeginCallback
    <3> QED BY <3>1, <3>3 DEF RuntimeInv, StopInv, CancelledInactive
  <2>2. CASE begun' = begun
    BY <2>2
  <2>3. ASSUME NEW t \in Threads,
               Advertise(t) \/ Subscribe(t) \/ Publish(t) \/ PublishStep(t) \/ CancelHandle(t)
                 \/ CancelStep(t) \/ BusStop(t) \/ ShutdownStep(t)
        PROVE  Quiet
    BY <2>2, <2>3
    DEF Advertise, Subscribe, Publish, PublishStep, LockDispatch, FanoutEnqueue, FanoutExecute,
        FanoutRefused, FanoutDone, CancelHandle, CancelStep, Unsubscribe, WaitIdle, BusStop,
        ShutdownStep, StopCancel, ExecutorClose, ExecutorLock, ExecutorJoin, ExecutorWait
  <2>4. ASSUME NEW w \in Workers, TakeDrain(w) \/ DrainEnd(w) \/ EndCallback(w) PROVE Quiet
    BY <2>2, <2>4 DEF TakeDrain, DrainEnd, EndCallback
  <2> QED BY <2>1, <2>3, <2>4 DEF Next, CallStep, WorkerStep
<1> QED BY <1>1, Invariant, PTL DEF Spec, NoCallbackBeginsAfterCancel
=============================================================================

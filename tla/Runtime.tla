------------------------------ MODULE Runtime ------------------------------
(***************************************************************************)
(* The in-process publish/subscribe runtime (src/core/runtime.cpp): the    *)
(* TopicBus registry, its fan-out, the control blocks of its subscriptions *)
(* (ControlBlock), the workers that drain them and Runtime::shutdown.      *)
(*                                                                         *)
(* A step is a critical section of the registry mutex, of one control      *)
(* block, or the acquisition of a topic's dispatch_mutex.  The executor    *)
(* appears through what ThreadPool shows of it: execute() is refused once  *)
(* shutdown has begun, accepted drains are run, and shutdown() returns     *)
(* when every worker other than the one that called it is idle.  Callbacks *)
(* make every call that other threads make: they may register, publish,    *)
(* cancel any subscription, their own included, and shut the runtime down. *)
(***************************************************************************)
EXTENDS ControlBlock, FiniteSets

CONSTANTS
    Clients, Workers,   \* threads outside and inside the executor
    Topics, Types,      \* topic names; (type_id, schema_hash, local_type)
    Subs,               \* subscription handles (Subscription<T>)
    TopicOf, TypeOf,    \* what each handle subscribes to
    MaxMessages,        \* bound: publish calls
    NoType

ASSUME HandlesAssumption == TopicOf \in [Subs -> Topics] /\ TypeOf \in [Subs -> Types]
ASSUME NoTypeAssumption == NoType \notin Types
ASSUME MessageBoundAssumption == MaxMessages \in Nat

Threads == Clients \cup Workers
ASSUME ThreadsAssumption == NoThread \notin Threads
Messages == 1..MaxMessages

VARIABLES
    accepting,      \* of the bus
    topics,         \* type contract of each topic, NoType before registration
    registered,     \* subscriptions of each topic's record
    publishers,     \* the Publisher objects: the topic and type of each
    handle,         \* of each Subscription: "new", "held", "closing", "closed",
                    \* or "kept" when its cancel_and_wait threw
    blocks,         \* the control block of each subscription
    dispatch,       \* owner of each topic's dispatch_mutex
    pc,             \* of each worker: "free", "drain" or "callback"
    serving,        \* the subscription a worker drains
    call,           \* the call a thread is in
    todo,           \* the subscriptions that call has still to visit
    msg,            \* the message being published by it
    content,        \* topic and type of every message published so far
    drains,         \* drain tasks queued in the executor, per subscription
    executorOpen,
    joiner,         \* the thread that shuts the executor down
    executorDone,
    begun           \* history: messages whose callback began, per subscription

busVars == <<accepting, topics, registered, publishers, handle>>
poolVars == <<executorOpen, joiner, executorDone>>
vars == <<busVars, blocks, dispatch, pc, serving, call, todo, msg, content, drains,
          poolVars, begun>>

Calls == {"none", "dispatch", "fanout", "execute", "refused", "threw", "unsubscribe",
          "wait_idle", "stop_cancel", "ex_close", "ex_lock", "ex_join", "ex_wait"}

NoSub == "no subscription"

Init ==
    /\ accepting = TRUE
    /\ topics = [p \in Topics |-> NoType]
    /\ registered = [p \in Topics |-> {}]
    /\ publishers = {}
    /\ handle = [s \in Subs |-> "new"]
    /\ blocks \in [Subs -> NewBlocks]
    /\ dispatch = [p \in Topics |-> NoThread]
    /\ pc = [w \in Workers |-> "free"]
    /\ serving = [w \in Workers |-> NoSub]
    /\ call = [t \in Threads |-> "none"]
    /\ todo = [t \in Threads |-> << >>]
    /\ msg = [t \in Threads |-> 0]
    /\ content = << >>
    /\ drains = [s \in Subs |-> 0]
    /\ executorOpen = TRUE
    /\ joiner = NoThread
    /\ executorDone = FALSE
    /\ begun = [s \in Subs |-> << >>]

CanCall(t) == call[t] = "none" /\ (t \in Workers => pc[t] = "callback")

Goto(t, label) == call' = [call EXCEPT ![t] = label]

\* The orders in which unordered_map may list a set.
Listings(S) == {l \in [1..Cardinality(S) -> S] :
                  \A i, j \in 1..Cardinality(S) : l[i] = l[j] => i = j}

TypeAllowed(p, type) == topics[p] \in {NoType, type}

-----------------------------------------------------------------------------
(* Registration *)

\* Node::create_publisher / TopicBus::advertise; a conflict throws and no
\* Publisher is made.
Advertise(t) ==
    /\ CanCall(t) /\ accepting
    /\ \E p \in Topics, type \in Types :
          /\ TypeAllowed(p, type)
          /\ topics' = [topics EXCEPT ![p] = type]
          /\ publishers' = publishers \cup {[topic |-> p, type |-> type]}
    /\ UNCHANGED <<accepting, registered, handle, blocks, dispatch, pc, serving, call,
                   todo, msg, content, drains, poolVars, begun>>

\* The typed callback and its Subscription handle, made once for each s.
NewHandle(s) ==
    /\ handle[s] = "new"
    /\ handle' = [handle EXCEPT ![s] = "held"]

\* Mutant: a subscription does not have to agree with the topic.
Subscribe_any_type(t) ==
    /\ CanCall(t) /\ accepting
    /\ \E s \in Subs : LET p == TopicOf[s] IN
          /\ NewHandle(s)
          /\ topics' = [topics EXCEPT ![p] = IF @ = NoType THEN TypeOf[s] ELSE @]
          /\ registered' = [registered EXCEPT ![p] = @ \cup {s}]
    /\ UNCHANGED <<accepting, publishers, blocks, dispatch, pc, serving, call, todo, msg,
                   content, drains, poolVars, begun>>

\* Node::create_subscription / TopicBus::subscribe.
Subscribe(t) ==
    /\ CanCall(t) /\ accepting
    /\ \E s \in Subs : LET p == TopicOf[s] IN
          /\ NewHandle(s)
          /\ TypeAllowed(p, TypeOf[s])
          /\ topics' = [topics EXCEPT ![p] = TypeOf[s]]
          /\ registered' = [registered EXCEPT ![p] = @ \cup {s}]
    /\ UNCHANGED <<accepting, publishers, blocks, dispatch, pc, serving, call, todo, msg,
                   content, drains, poolVars, begun>>

-----------------------------------------------------------------------------
(* TopicBus::publish *)

\* The snapshot, under the registry mutex.  A topic that is not registered,
\* or whose record has another type than the publisher, throws.
Publish(t) ==
    /\ CanCall(t) /\ accepting
    /\ Len(content) < MaxMessages
    /\ \E publisher \in publishers :
          /\ topics[publisher.topic] = publisher.type
          /\ content' = Append(content, publisher)
          /\ \E order \in Listings(registered[publisher.topic]) :
                todo' = [todo EXCEPT ![t] = order]
    /\ msg' = [msg EXCEPT ![t] = Len(content) + 1]
    /\ Goto(t, "dispatch")
    /\ UNCHANGED <<busVars, blocks, dispatch, pc, serving, drains, poolVars, begun>>

\* Mutant: the fan-outs of one topic may interleave.
LockDispatch_skipped(t) ==
    /\ call[t] = "dispatch"
    /\ Goto(t, "fanout")
    /\ UNCHANGED <<busVars, blocks, dispatch, pc, serving, todo, msg, content, drains,
                   poolVars, begun>>

LockDispatch(t) ==
    LET p == content[msg[t]].topic IN
    /\ call[t] = "dispatch"
    /\ dispatch[p] = NoThread
    /\ dispatch' = [dispatch EXCEPT ![p] = t]
    /\ Goto(t, "fanout")
    /\ UNCHANGED <<busVars, blocks, pc, serving, todo, msg, content, drains, poolVars,
                   begun>>

\* enqueue on the next subscription of the snapshot.
FanoutEnqueue(t) ==
    /\ call[t] = "fanout"
    /\ todo[t] # << >>
    /\ LET s == Head(todo[t]) b == blocks[s] IN
          \/ /\ Accepts(b, TRUE)
             /\ blocks' = [blocks EXCEPT ![s] = Enqueued(b, msg[t])]
             /\ \/ MustSchedule(b) /\ Goto(t, "execute") /\ UNCHANGED todo
                \/ /\ ~MustSchedule(b)
                   /\ todo' = [todo EXCEPT ![t] = Tail(@)]
                   /\ UNCHANGED call
          \/ /\ ~Accepts(b, TRUE)
             /\ todo' = [todo EXCEPT ![t] = Tail(@)]
             /\ UNCHANGED <<blocks, call>>
    /\ UNCHANGED <<busVars, dispatch, pc, serving, msg, content, drains, poolVars, begun>>

FanoutExecute(t) ==
    /\ call[t] = "execute"
    /\ \/ /\ executorOpen
          /\ drains' = [drains EXCEPT ![Head(todo[t])] = @ + 1]
          /\ todo' = [todo EXCEPT ![t] = Tail(@)]
          /\ Goto(t, "fanout")
       \/ /\ ~executorOpen
          /\ Goto(t, "refused")
          /\ UNCHANGED <<drains, todo>>
       \/ /\ Goto(t, "threw")
          /\ UNCHANGED <<drains, todo>>
    /\ UNCHANGED <<busVars, blocks, dispatch, pc, serving, msg, content, poolVars, begun>>

\* execute() returned false: the mailbox is given up, the fan-out goes on.
\* It threw: the exception ends the whole publish.
FanoutRefused(t) ==
    /\ call[t] \in {"refused", "threw"}
    /\ blocks' = [blocks EXCEPT ![Head(todo[t])] = ExecutorRefused(@)]
    /\ todo' = [todo EXCEPT ![t] = IF call[t] = "threw" THEN << >> ELSE Tail(@)]
    /\ Goto(t, "fanout")
    /\ UNCHANGED <<busVars, dispatch, pc, serving, msg, content, drains, poolVars, begun>>

\* Mutant: an exception that ends the fan-out leaves the topic locked.
FanoutDone_left_locked(t) ==
    /\ call[t] = "fanout"
    /\ todo[t] = << >>
    /\ msg' = [msg EXCEPT ![t] = 0]
    /\ Goto(t, "none")
    /\ UNCHANGED <<busVars, blocks, dispatch, pc, serving, todo, content, drains,
                   poolVars, begun>>

FanoutDone(t) ==
    LET p == content[msg[t]].topic IN
    /\ call[t] = "fanout"
    /\ todo[t] = << >>
    /\ dispatch' = [dispatch EXCEPT ![p] = NoThread]
    /\ msg' = [msg EXCEPT ![t] = 0]
    /\ Goto(t, "none")
    /\ UNCHANGED <<busVars, blocks, pc, serving, todo, content, drains, poolVars, begun>>

-----------------------------------------------------------------------------
(* Subscription::cancel and cancel_and_wait: by a client or in a callback, *)
(* of any subscription.  Calls on one handle do not overlap, which is the  *)
(* users' part; a handle already closed does nothing.                      *)

CancelHandle(t) ==
    /\ CanCall(t)
    /\ \E s \in Subs :
          /\ handle[s] \in {"held", "kept"}
          /\ handle' = [handle EXCEPT ![s] = "closing"]
          /\ blocks' = [blocks EXCEPT ![s] = Cancelled(@)]
          /\ todo' = [todo EXCEPT ![t] = <<s>>]
    /\ Goto(t, "unsubscribe")
    /\ UNCHANGED <<accepting, topics, registered, publishers, dispatch, pc, serving, msg,
                   content, drains, poolVars, begun>>

Unsubscribe(t) ==
    LET s == Head(todo[t]) IN
    /\ call[t] = "unsubscribe"
    /\ registered' = [registered EXCEPT ![TopicOf[s]] = @ \ {s}]
    /\ \/ /\ Goto(t, "none")                    \* cancel
          /\ todo' = [todo EXCEPT ![t] = << >>]
          /\ handle' = [handle EXCEPT ![s] = "closed"]
       \/ /\ Goto(t, "wait_idle")               \* cancel_and_wait
          /\ UNCHANGED <<todo, handle>>
    /\ UNCHANGED <<accepting, topics, publishers, blocks, dispatch, pc, serving, msg,
                   content, drains, poolVars, begun>>

\* The wait for the callback that runs, refused to the callback's thread:
\* the exception leaves the handle as it is.
WaitIdle(t) ==
    LET s == Head(todo[t]) IN
    /\ call[t] = "wait_idle"
    /\ \/ /\ blocks[s].in_flight = 0
          /\ handle' = [handle EXCEPT ![s] = "closed"]
       \/ /\ blocks[s].in_flight # 0 /\ blocks[s].callback_thread = t
          /\ handle' = [handle EXCEPT ![s] = "kept"]
    /\ todo' = [todo EXCEPT ![t] = << >>]
    /\ Goto(t, "none")
    /\ UNCHANGED <<accepting, topics, registered, publishers, blocks, dispatch, pc,
                   serving, msg, content, drains, poolVars, begun>>

-----------------------------------------------------------------------------
(* Runtime::shutdown: TopicBus::stop, then Executor::shutdown *)

BusStop(t) ==
    /\ CanCall(t)
    /\ \/ /\ ~accepting
          /\ Goto(t, "ex_close")
          /\ UNCHANGED <<accepting, registered, todo>>
       \/ /\ accepting
          /\ accepting' = FALSE
          /\ registered' = [p \in Topics |-> {}]
          /\ \E order \in Listings(UNION {registered[p] : p \in Topics}) :
                todo' = [todo EXCEPT ![t] = order]
          /\ Goto(t, "stop_cancel")
    /\ UNCHANGED <<topics, publishers, handle, blocks, dispatch, pc, serving, msg, content,
                   drains, poolVars, begun>>

StopCancel(t) ==
    /\ call[t] = "stop_cancel"
    /\ \/ /\ todo[t] # << >>
          /\ blocks' = [blocks EXCEPT ![Head(todo[t])] = Cancelled(@)]
          /\ todo' = [todo EXCEPT ![t] = Tail(@)]
          /\ UNCHANGED call
       \/ /\ todo[t] = << >>
          /\ Goto(t, "ex_close")
          /\ UNCHANGED <<blocks, todo>>
    /\ UNCHANGED <<busVars, dispatch, pc, serving, msg, content, drains, poolVars, begun>>

ExecutorClose(t) ==
    /\ call[t] = "ex_close"
    /\ executorOpen' = FALSE
    /\ Goto(t, "ex_lock")
    /\ UNCHANGED <<busVars, blocks, dispatch, pc, serving, todo, msg, content, drains,
                   joiner, executorDone, begun>>

\* The first caller joins the workers; the others wait for it, unless they
\* are workers.
ExecutorLock(t) ==
    /\ call[t] = "ex_lock"
    /\ \/ /\ joiner = NoThread
          /\ joiner' = t
          /\ Goto(t, "ex_join")
       \/ /\ joiner # NoThread
          /\ Goto(t, IF executorDone \/ t \in Workers THEN "none" ELSE "ex_wait")
          /\ UNCHANGED joiner
    /\ UNCHANGED <<busVars, blocks, dispatch, pc, serving, todo, msg, content, drains,
                   executorOpen, executorDone, begun>>

\* Mutant: shutdown returns without joining.
ExecutorJoin_skipped(t) ==
    /\ call[t] = "ex_join"
    /\ executorDone' = TRUE
    /\ Goto(t, "none")
    /\ UNCHANGED <<busVars, blocks, dispatch, pc, serving, todo, msg, content, drains,
                   executorOpen, joiner, begun>>

\* Joining waits for the workers other than the caller, which leave when no
\* drain is queued.
ExecutorJoin(t) ==
    /\ call[t] = "ex_join"
    /\ \A w \in Workers \ {t} : pc[w] = "free"
    /\ Workers # {t} => \A s \in Subs : drains[s] = 0
    /\ executorDone' = TRUE
    /\ Goto(t, "none")
    /\ UNCHANGED <<busVars, blocks, dispatch, pc, serving, todo, msg, content, drains,
                   executorOpen, joiner, begun>>

ExecutorWait(t) ==
    /\ call[t] = "ex_wait"
    /\ executorDone
    /\ Goto(t, "none")
    /\ UNCHANGED <<busVars, blocks, dispatch, pc, serving, todo, msg, content, drains,
                   poolVars, begun>>

-----------------------------------------------------------------------------
(* The workers *)

TakeDrain(w) ==
    /\ pc[w] = "free"
    /\ \E s \in Subs :
          /\ drains[s] > 0
          /\ drains' = [drains EXCEPT ![s] = @ - 1]
          /\ serving' = [serving EXCEPT ![w] = s]
    /\ pc' = [pc EXCEPT ![w] = "drain"]
    /\ UNCHANGED <<busVars, blocks, dispatch, call, todo, msg, content, poolVars, begun>>

DrainEnd(w) ==
    LET s == serving[w] IN
    /\ pc[w] = "drain"
    /\ DrainEnds(blocks[s])
    /\ blocks' = [blocks EXCEPT ![s] = Drained(@)]
    /\ pc' = [pc EXCEPT ![w] = "free"]
    /\ serving' = [serving EXCEPT ![w] = NoSub]
    /\ UNCHANGED <<busVars, dispatch, call, todo, msg, content, drains, poolVars, begun>>

BeginCallback(w) ==
    LET s == serving[w] IN
    /\ pc[w] = "drain"
    /\ ~DrainEnds(blocks[s])
    /\ begun' = [begun EXCEPT ![s] = Append(@, Head(blocks[s].pending))]
    /\ blocks' = [blocks EXCEPT ![s] = CallbackBegun(@, w)]
    /\ pc' = [pc EXCEPT ![w] = "callback"]
    /\ UNCHANGED <<busVars, dispatch, serving, call, todo, msg, content, drains, poolVars>>

EndCallback(w) ==
    /\ pc[w] = "callback" /\ call[w] = "none"
    /\ blocks' = [blocks EXCEPT ![serving[w]] = CallbackEnded(@)]
    /\ pc' = [pc EXCEPT ![w] = "drain"]
    /\ UNCHANGED <<busVars, dispatch, serving, call, todo, msg, content, drains, poolVars,
                   begun>>

-----------------------------------------------------------------------------
PublishStep(t) ==
    LockDispatch(t) \/ FanoutEnqueue(t) \/ FanoutExecute(t) \/ FanoutRefused(t) \/ FanoutDone(t)
ShutdownStep(t) ==
    StopCancel(t) \/ ExecutorClose(t) \/ ExecutorLock(t) \/ ExecutorJoin(t) \/ ExecutorWait(t)
CancelStep(t) == Unsubscribe(t) \/ WaitIdle(t)
CallStep(t) == PublishStep(t) \/ ShutdownStep(t) \/ CancelStep(t)
WorkerStep(w) == TakeDrain(w) \/ DrainEnd(w) \/ BeginCallback(w)

Next ==
    \/ \E t \in Threads :
          \/ Advertise(t) \/ Subscribe(t)
          \/ Publish(t) \/ CancelHandle(t) \/ BusStop(t)
          \/ CallStep(t)
    \/ \E w \in Workers : WorkerStep(w) \/ EndCallback(w)

Spec == Init /\ [][Next]_vars

(***************************************************************************)
(* Fairness: calls in progress go on, workers take queued drains, user     *)
(* callbacks end (strongly fair: they may call into the runtime meanwhile).*)
(* Weak fairness is enough for dispatch_mutex, because the number of       *)
(* publish calls that contend for it is bounded.                           *)
(***************************************************************************)
FairSpec ==
    /\ Spec
    /\ \A t \in Threads : WF_vars(CallStep(t))
    /\ \A w \in Workers : WF_vars(WorkerStep(w)) /\ SF_vars(EndCallback(w))

-----------------------------------------------------------------------------
TypeOK ==
    /\ accepting \in BOOLEAN
    /\ topics \in [Topics -> Types \cup {NoType}]
    /\ registered \in [Topics -> SUBSET Subs]
    /\ publishers \in SUBSET [topic : Topics, type : Types]
    /\ handle \in [Subs -> {"new", "held", "closing", "kept", "closed"}]
    /\ blocks \in [Subs -> BlockType(Messages, Workers)]
    /\ dispatch \in [Topics -> Threads \cup {NoThread}]
    /\ pc \in [Workers -> {"free", "drain", "callback"}]
    /\ serving \in [Workers -> Subs \cup {NoSub}]
    /\ call \in [Threads -> Calls]
    /\ todo \in [Threads -> Seq(Subs)]
    /\ msg \in [Threads -> Messages \cup {0}]
    /\ content \in Seq([topic : Topics, type : Types])
    /\ drains \in [Subs -> Nat]
    /\ executorOpen \in BOOLEAN /\ executorDone \in BOOLEAN
    /\ joiner \in Threads \cup {NoThread}
    /\ begun \in [Subs -> Seq(Messages)]

\* Everything a subscription has been given and has not lost, in order.
Stream(s) == begun[s] \o blocks[s].pending

(***************************************************************************)
(* All subscriptions of a topic agree on the order of the messages they    *)
(* share, whatever publishers race: dispatch_mutex covers a whole fan-out  *)
(* although the snapshot is taken before it.                               *)
(***************************************************************************)
TopicOrder ==
    \A s, r \in Subs : TopicOf[s] = TopicOf[r] =>
       \A i, j \in DOMAIN Stream(s) : \A k, l \in DOMAIN Stream(r) :
          (i < j /\ Stream(s)[i] = Stream(r)[k] /\ Stream(s)[j] = Stream(r)[l]) => k < l

(***************************************************************************)
(* A callback is only ever handed messages of the type it was registered   *)
(* with: the static_pointer_cast of the erased message is always right.    *)
(***************************************************************************)
TypeContract ==
    \A s \in Subs : \A i \in DOMAIN Stream(s) :
       content[Stream(s)[i]] = [topic |-> TopicOf[s], type |-> TypeOf[s]]

(***************************************************************************)
(* When the thread that stopped the bus has visited its snapshot, no live  *)
(* subscription is left, although subscribe and publish race with stop.    *)
(***************************************************************************)
StopCancelsAll ==
    ~accepting /\ (\A t \in Threads : call[t] # "stop_cancel") =>
       \A s \in Subs : handle[s] # "new" => ~blocks[s].active

(***************************************************************************)
(* stop() cancels every subscription, and when the executor's shutdown has *)
(* completed no callback runs, except the one that itself called           *)
(* Runtime::shutdown.                                                      *)
(***************************************************************************)
QuietAfterShutdown ==
    /\ StopCancelsAll
    /\ executorDone => \A w \in Workers \ {joiner} : pc[w] = "free"

(***************************************************************************)
(* Once Subscription::cancel has begun, no further callback of that        *)
(* subscription begins, although a publish whose snapshot still holds the  *)
(* subscription may be under way and a drain may be queued.                *)
(***************************************************************************)
NoCallbackBeginsAfterCancel ==
    [][\A s \in Subs :
          handle[s] \in {"closing", "kept", "closed"} => begun'[s] = begun[s]]_vars

\* The threads whose progress a thread needs: cancel_and_wait the one that
\* runs a callback of the subscription, a join every worker that is not
\* free, a second shutdown of a client the first one.
WaitsFor(t) ==
    CASE call[t] = "wait_idle" ->
            {w \in Workers : pc[w] = "callback" /\ serving[w] = Head(todo[t])}
      [] call[t] = "ex_join" -> {w \in Workers \ {t} : pc[w] # "free"}
      [] call[t] = "ex_wait" -> {joiner}
      [] OTHER -> {}

\* The threads that wait for one another in a ring, and those that wait for
\* one of these: the largest set each of which waits for another of it.
Knotted == UNION {K \in SUBSET Threads : \A t \in K : WaitsFor(t) \cap K # {}}

(***************************************************************************)
(* publish, cancel, cancel_and_wait and shutdown return, unless callbacks  *)
(* wait for one another: each in cancel_and_wait on a subscription whose   *)
(* callback is such a one, or in the shutdown that joins their workers.    *)
(* A publish and a cancel return even then.                                *)
(***************************************************************************)
CallsReturn == \A t \in Threads : []<>(call[t] = "none" \/ t \in Knotted)
=============================================================================

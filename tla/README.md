# Robot-Middleware-Lite: a TLA+ model

This directory holds TLA+ modules that model the concurrent core of
Robot-Middleware-Lite, TLC configurations that check them on small instances,
and TLAPS proofs of the properties that matter most. Paths such as
`runtime.cpp:338` are relative to `src/src/...` or
`src/include/robot_middleware/...`. `PROJECT.json` maps every definition to
the lines it models and lists runs, mutants, hazards, findings and theorems.

## 1. The system

Robot-Middleware-Lite is a C++ publish/subscribe middleware for one process,
plus a bridge that carries topics between processes over TCP and a transport
of single frames over UDP.

| Component | State | Operations | Interacts with |
|---|---|---|---|
| `ThreadSafeQueue` (`core/thread_safe_queue.hpp`) | deque, `closed_`, one mutex, two condition variables | `push`, `try_push`, `emplace`, `try_pop`, `wait_pop`, `wait_pop_for`, `close` | holds the pool's tasks and the bridge's outbound frames |
| `ThreadPool`, `Executor` (`executor/`) | worker handles, task queue, counters, two shutdown flags | constructor, `post`, `submit`, `shutdown`, worker loop | runs the drains of subscriptions; tasks may call back into the pool |
| `SubscriptionControlBlock` (`core/runtime.cpp`) | bounded mailbox, `active`, `scheduled`, `in_flight`, `callback_thread`, statistics | `enqueue`, `cancel`, `cancel_and_wait`, `drain` | called by the bus, posts drains to the executor, runs user callbacks |
| `TopicBus`, `Runtime`, `Node`, `Publisher`, `Subscription` (`core/runtime.*`) | topic records with type contract, subscribers and `dispatch_mutex`; `accepting` | `advertise`, `subscribe`, `publish`, `unsubscribe`, `stop`, `shutdown` | fans out to control blocks, shuts the executor down |
| `NetworkBridge`, import side (`bridge/network_bridge.*`) | import routes, duplicate table, counters | `import_topic`, `receive_frame` | called by session threads or the client's I/O thread, publishes into the runtime |
| `NetworkBridge`, export side and client loop | mode, stop flags, outbound queue, connection, back-off, statistics | `export_topic`, export callback, `set_frame_sender`, `start_tcp_client`, client loop, manual sender loop, `stop` | a runtime subscription feeds it; the socket drains it |
| `TcpSessionManager` (`transport/session_manager.*`) | `running`, session list, one thread per session and one to accept, counters | accept loop, session loop, reaping, `start`, `stop`, `send_to`, `broadcast` | calls the user's frame handler (the bridge's `receive_frame`), which may call back |
| `TcpConnection`, `TcpServer`, `TcpClient` (`transport/tcp_transport.*`) | descriptor, receive buffer, `send_mutex_`, `receive_mutex_`, `descriptor_mutex_` | constructor, `accept`, `connect`, `send_frame`, `receive_frame`, `set_send_timeout`, `interrupt`, `close` | carries the frames of sessions and bridges; several threads share a connection |
| Frame codec (`transport/frame.*`), heartbeat | – | `encode_frame`, `frame_size_from_header`, `decode_frame`, `make_heartbeat_frame` | bytes below frames, for TCP and UDP |
| `UdpSender`, `UdpReceiver` (`transport/udp_transport.*`) and the UDP demo | descriptor | `send_frame`, `receive_frame`; the sensor's and the control process's loops | the network between them |
| `SequenceTracker`, `LatencyRecorder` (`benchmark/statistics.*`) | numbers seen, highest, counters; samples | `observe`, `record`, `summary` | fed by the receiving programs |
| Serialization, message traits, process metrics, other demos | – | pure functions, I/O | – |

What is hard about it:

* **Concurrency.** Notifications are sent after the unlock
  (`thread_safe_queue.hpp:68`), drains are posted outside the mailbox mutex
  (`runtime.cpp:90`), subscriber snapshots are taken before `dispatch_mutex`
  (`runtime.cpp:338`), routes are read long before they are used
  (`network_bridge.cpp:245`), and `stop()` races with everything.
* **Re-entrance.** Tasks shut their own pool down, callbacks publish, cancel
  subscriptions, their own among them, and shut the runtime down, a frame
  sender stops its own bridge.
* **Failure.** Thread creation fails half-way, the executor refuses or throws,
  handlers throw after part of their effect, every socket call may fail, a
  send stops in the middle of a frame, a receive times out in the middle of one,
  a value of the queue throws when it is copied or moved.
* **Delivery.** Frames arrive late, repeated, out of order, through several
  sessions; publishers restart and count from 0 again; datagrams are lost,
  repeated, changed and mixed with foreign ones.
* **Limits.** Queue capacity, mailbox depth with two overflow policies, the
  bounded outbound queue, the bounded duplicate table, the back-off limit.

What makes each component correct is stated as the properties of section 4;
`PROJECT.json` lists the hazards behind them, each at its line.

## 2. Modules

| Module | Models | Grain of a step |
|---|---|---|
| `ThreadSafeQueue` | every operation of the queue | a critical section, or a notification after it |
| `ThreadPool` | constructor (with its failure path), worker loop, `post`/`submit`, `shutdown` | an atomic access, a critical section, a join |
| `ControlBlock` | the record of one control block and what each critical section does to it (operators only) | – |
| `ClosableQueue` | the **abstract specification** of the queue: a bounded FIFO that can be closed, and when a call may give up | – |
| `Mailbox` | the **abstract specification** of a subscription: a bounded FIFO with an overflow policy, a serial callback, a cancellation | – |
| `SubscriptionControlBlock` | one control block, its publishers, cancellers and workers; implements `Mailbox` | a critical section, a call of the executor |
| `Runtime` | the bus, several control blocks, the workers and shutdown; **composes** `ControlBlock` with the executor | a critical section of the registry or a block, taking `dispatch_mutex` |
| `BridgeImport` | `receive_frame`, routes, duplicate table; exporting peers and an unreliable network | reads up to the next mutex, a critical section, the handler |
| `BridgeClient` | exports, outbound queue, both background loops, back-off, `stop()` | an atomic access, a critical section, a socket call, the predicate and the sleep of a wait |
| `TcpSessionManager` | accept loop, session loop, reaping, `start`, `stop`, `send_to`, `broadcast`, calls inside frame handlers | a critical section of `sessions_mutex`, an atomic others react to, a join, a socket call |
| `FrameCodec` | the wire format: limits, header, CRC (operators only) | – |
| `TcpSetup` | how both ends come by their sockets: the address loops of `TcpServer` and `TcpClient::connect`, `accept`, the descriptors they hold | a system call |
| `TcpConnection` | one direction of a connection: sending threads, the receiver, time-outs, `interrupt`, `close`, the network; **composes** `FrameCodec` and `TcpSetup`; implements `FrameStream` | a system call with the bookkeeping around it |
| `FrameStream` | the **abstract specification** of a connection: whole frames, in order, at most once, and when one may be missing | – |
| `UdpControl` | sensors, a bad network, the control process with its sequence and latency statistics; composes with `FrameCodec` | one round of a loop, a fault of the network |
| `ThreadSafeQueueProofs`, `ThreadPoolProofs`, `SubscriptionProofs`, `RuntimeProofs`, `DeliveryProofs`, `BridgeClientProofs`, `TcpSessionManagerProofs`, `TcpConnectionProofs` | the proofs about the module each extends, `SubscriptionProofs` about `SubscriptionControlBlock`, `DeliveryProofs` about `BridgeImport` and `UdpControl` | |
| `MC*` | model values and structured constants for TLC | |

### How the state corresponds

* **Condition variables.** In `ThreadSafeQueue` a waiting thread is in a wait
  set, shown by its program counter (`await_pop`, `await_pop_for`,
  `await_push`). `notify_one` moves any one of them back to its predicate,
  `notify_all` all of them; `wait_for` may time out; a spurious wake-up is
  always possible. The insertion and the removal of a value run `T`'s own code
  and may throw (`EmplaceThrows`, `PopThrows`): the thread leaves with the queue
  unchanged and notifies nobody. In `BridgeClient`, `wait_backoff` is split into
  predicate (`WaitCheck`), going to sleep (`WaitBlock`) and time-out, because
  `stop()` changes the predicate and notifies without `wait_mutex`.
* **Layers.** `ThreadPool` uses the queue by its contract (`ClosableQueue`,
  which `ThreadSafeQueue` implements): `try_push` fails exactly when closed,
  `wait_pop` gives the oldest task or nothing once closed and empty. `Runtime`
  uses the pool by its contract (what `ThreadPool` establishes): `execute` is
  refused once shutdown has begun, accepted drains run, `shutdown` returns when
  every other worker is idle. `BridgeClient` and `TcpSessionManager` use the
  socket through its outcomes: every call may fail, a wait ends after its poll
  interval, and after `interrupt` sending and receiving fail.
* **Sessions.** A session is its id, and the id also names its worker thread.
  `live` is `session->active`; `worker` is the worker's place in `session_loop`
  (and, before there is one, how far the accept thread has set the session up);
  `todo` holds the list a call has still to go through: the sessions swapped
  out by `stop`, or the snapshot a send works on.
* **Handles.** `handle[s]` is the user's `Subscription`: `new` before it is
  made, `held`, `closing` while a call of `cancel` or `cancel_and_wait` uses it,
  `closed` when that call has reset it, `kept` when the exception of a
  `cancel_and_wait` in its own callback has left it as it was. Any thread may
  cancel any subscription; that calls on one handle do not overlap is the
  users' part. `publishers` are the `Publisher` objects, each with a type of
  its own, which `publish` compares with the record of the topic.
* **Exports.** Each call of `export_topic` is a member of `Exports`.
  `emitter[e]` says how far its callback is between taking a number
  (`MakeFrame`), the stop flag, the push and the counter, and `numbered` who
  took which number; `next_sequence_` is its length. `stop()` cancels one
  export after another and waits for each callback (`StopCancel`, `StopQuiet`).
* **Data.** Messages are numbers in publication order, types and topics are
  model values, a frame is a record of topic, type, publisher, sequence and
  send time. Names, payloads, encodings and logging are left out. `std::chrono`
  appears as steps that may happen at any time (time-out, silence, heartbeat
  due) and, in `BridgeImport`, as a counter that orders send times.
* **Bytes.** In `FrameCodec` an encoded frame is a sequence of cells
  `[frame, at]`, each the bytes of one region of one frame: two for the header
  (magic, version, flags and header size; sizes, fields and CRC) and one for
  each unit of topic and payload. A cell met at another offset than `at` shows
  other fields than it was written for: no magic number in the first place,
  any size within or beyond the limits in the second. The CRC covers topic and
  payload, as in the code, and is taken to be injective. A changed cell has
  `at = 0`. Streams are cut between cells, so both header and body can be cut.
  Header fields other than magic, version and sizes are covered by nothing
  (`frame.cpp:177-180`): a datagram in which one of them is changed consists of
  the bytes of another frame with the same body (`Altered`, `Rewritten`).
* **Connections.** `open` is the set of open descriptor numbers of a process;
  numbers are reused, lowest first, as the kernel does. `descriptor_mutex_`
  guards single statements and is the atomicity of a step; `send_mutex_` and
  `receive_mutex_` (`reading`) are held across many. `shut` is `shutdown()` at
  an end, `broken` a reset; `unsent` and `receive_buffer_` are what a call has
  still to send and what the receiver has of the next frame, and `declared` the
  size its header declares. `send_timeout` is chosen at the start: both users
  set it before the first send, a bare `TcpConnection` need not.
* **User code.** Callbacks, tasks, handlers and senders are steps that may end
  normally or throw and that may make the calls the code foresees on the way.
* **Histories.** `taken`, `begun`, `handled`, `refused`, `sent`, `returned`,
  `quiesced`, `quiet`, `fate`, `accepted`, `delivered`, `spoilt`, `torn`,
  `leaked`, `observed`, `altered`, `push_throws`, `pop_throws`, `thrown` record
  what happened; no guard that models code reads them (`fate` bounds the tasks,
  `accepted` and `numbered` number and bound the frames, `push_throws` and
  `pop_throws` bound the exceptions).

## 3. Plan

1. *(done)* `ThreadSafeQueue`, `ThreadPool`, the control block with its
   abstract `Mailbox`, `Runtime`, the two halves of `NetworkBridge`; runs,
   mutants; proofs for the queue and for duplicate suppression.
2. *(done)* `TcpSessionManager`.
3. *(done)* Framing and connections: `FrameCodec`, `TcpSetup`, `TcpConnection`
   against the abstract `FrameStream`; UDP and the statistics in `UdpControl`.
4. Composition of bridge, session manager and runtime: a `receive_frame` call
   past the stop flag and an export callback of a refused subscription must not
   outlive the bridge (lifetimes).
5. *(done)* Proofs of the safety invariants of the queue, the pool, the control
   block, the runtime, both halves of the bridge, the session manager and the
   connection; the safety half of `Mailbox`, and `FrameStream`.
6. *(done)* Proofs of `SequenceReport` and `LatencyReport` of `UdpControl`; the
   queue against the abstract `ClosableQueue`.
7. Further action properties in the modules of item 5.

## 4. What the runs check

Every property has a mutant in `PROJECT.json`: a plausible bug in the modelled
code (defined next to the definition it replaces) under which TLC finds the
property violated.

| Run | Instance | Shows |
|---|---|---|
| `Queue` | 3 threads in any role, capacity 2, 4 values, 2 of them of one producer, 1 insertion or removal that throws | values leave exactly once and in each producer's order (`FifoExactlyOnce`), the queue implements `ClosableQueue` (`ImplementsQueue`): the capacity holds, and a call gives up only when it may, whatever deadlines and spurious wake-ups do; no wake-up is lost but the one that a throwing call had been given (`NoLostWakeup`); `WaitersReleased`: `close()` releases everybody, and a value and a sleeping consumer, or room and a sleeping producer, do not coexist for ever, but for one value per removal and one place per insertion that threw |
| `Pool` | 2 workers, 2 clients, 2 tasks | counters account for every task (`Accounting`); a client's `shutdown()` returns only when it is finished, and then the pool is drained, and a failed constructor leaves no thread (`FinishedMeansDrained`); accepted tasks run (`AcceptedTasksRun`); every `shutdown()` returns (`ShutdownReturns`) |
| `Subscription` | 2 clients, 2 workers, depth 2, 3 messages, both overflow policies, local and remote messages | the `scheduled` flag stands for exactly one drain (`OneDrain`), so callbacks are serial and in order (`SerialCallbacks`), statistics add up (`Conservation`), quiet after `cancel_and_wait`, which returns; the whole implements `Mailbox` with its fairness (`ImplementsMailbox`) |
| `RuntimeBus` | 1 client and 2 workers, whose callbacks make every call a client can, on any subscription, 1 topic, 2 types, publishers of either, 2 subscriptions of depth 1, 2 messages | subscribers agree on the order (`TopicOrder`), the unchecked cast is right (`TypeContract`), stop cancels every subscription and nothing runs after shutdown (`QuietAfterShutdown`), no callback begins after `cancel`; `publish`, `cancel_and_wait` and `shutdown` return (`CallsReturn`), although `execute` may throw during a fan-out, except to threads that wait for one another (`Knotted`) |
| `Import` | 2 sessions, 2 publishers, 1 topic, 2 types, 3 frames, 3 calls, 1 restart each | at-most-once import and "only late frames are refused" for publishers in their first run, frame 0 of a restarted publisher is refused only when it is late (`RestartRecognised`), handlers get their own type (`HandlerTypes`) |
| `Client` | outbound queue of 2, batches of 1; over TCP two stops with 1 export, 1 frame and 2 connections, or 2 exports, 2 frames and 2 connections without a stop; with a frame sender 2 exports, 2 frames and a stop | after `stop()` nothing is left (`StopQuiesces`), `is_connected` and the statistics agree but for the one atomic step still to come (`ConnectionAccounting`), frames leave once and those of an export in order (`SendOnceInOrder`), `stop()` returns (`StopReturns`), a lost connection is followed by an attempt (`Reconnects`) |
| `Sessions` | limits 1 and 2, 2 sessions, 1 application thread and the handlers of both sessions | the limit holds (`ClientLimit`), each session is counted in and out once (`SessionAccounting`), each worker is joined by one thread (`WorkersJoined`), `stop()` leaves nothing (`StopQuiesces`), every call returns (`CallsReturn`), a request from a handler is enough to end the threads (`WindsDown`) |
| `Connection` | up to 2 addresses at each end, any system call failing; a sender and the session worker, 2 frames of 3 or 4 cells and heartbeats, 3 cells in flight, a client that accepts 3 cells only, 1 corrupted cell | whole frames travel as `FrameStream` promises (`ImplementsFrameStream`): in order, unchanged, at most once, missed only when spoilt or behind a torn one; descriptors are neither lost nor shared nor used after `close` (`DescriptorsOwned`); `close()` and sends with a time-out return (`CallsReturn`) |
| `Udp` | sensors of 3 and 1 frames, 3 body sizes (one the receiver truncates, one the sender refuses), 3 frames expected, 1 fault besides loss and reordering | `SequenceReport`: each frame counted was sent or has a header that the network changed, and as long as the frames counted show one publisher, repeated, late and lost frames are counted as they were; `LatencyReport`: the median and the 95th and 99th percentile are nearest-rank percentiles |

Three runs expect a violation; each is a finding in `PROJECT.json`:

* `ImportTableCleared` – `docs/PROTOCOL.md:85` promises at-most-once import.
  A new publisher/topic pair that meets a full table empties it
  (`network_bridge.cpp:276`), and a repeated frame is handled again.
* `ClientSelfStop` – a frame sender that calls `stop()` on the background
  thread blocks on `stop_mutex_` while the application's `stop()` holds it and
  joins that thread (`network_bridge.cpp:417`, `:451`).

* `ConnectionTornFrame` – `docs/PROTOCOL.md:61` says that sends lock the whole
  frame so that the bytes of two frames never mix. A send that times out in the
  middle of a frame throws and frees `send_mutex_` (`tcp_transport.cpp:237`)
  before its caller interrupts the connection; a thread that waited for the
  mutex may write its frame behind the torn one. `ImplementsFrameStream` shows
  how far the harm goes: frames after the torn one may be swallowed, none is
  delivered wrong or twice.

Also met while modelling, without a run of their own:

* When a task of the **only** worker calls `shutdown()` first, it detaches its
  handle and finishes the shutdown; a client's `shutdown()` then returns while
  tasks are queued (`thread_pool.cpp:126`), hence the last clause of
  `FinishedMeansDrained`.
* The bridge's `stop()` changes the predicate of the back-off wait and notifies
  without `wait_mutex` (`network_bridge.cpp:437`). The notification may fall
  between predicate and sleep (`WaitCheck`, `WaitBlock`), and `stop()` then
  lasts as long as the back-off, although `docs/SOURCE_GUIDE.md:950` says that
  it interrupts the wait. It still returns (run `Client`).
* A second concurrent `Runtime::shutdown()` passes the bus at once and closes
  the executor while the first is still cancelling (`runtime.cpp:363`).
* A queue whose `T` throws when it is moved or copied can lose a wake-up: a
  producer (consumer) that was given the only `notify_one` and throws in
  `emplace_back` (the removal) passes nothing on
  (`thread_safe_queue.hpp:148`, `:80`), and another one sleeps on beside a free
  place (a value) until the next notification. `NoLostWakeup` says that each
  such call costs at most one. The two queues of the repository hold
  `std::function` and `Frame`, whose moves do not throw; copying or allocating
  for a push may.
* Callbacks may wait for one another: each in `cancel_and_wait` on the
  subscription of the other, or one in `Runtime::shutdown`, which joins the
  worker of a callback that is in `cancel_and_wait` on the subscription of the
  first. None of them returns, nor does a thread that waits for them. The
  library refuses only the subscription's own callback (`runtime.cpp:132`).
  `CallsReturn` therefore excepts the threads of such a ring and those that
  wait for it, and the run checks no deadlock.
* The callbacks of several exports take their numbers and push their frames in
  separate steps (`network_bridge.hpp:96`, `network_bridge.cpp:188`): frames
  leave in another order than that of their numbers. Each export is in order,
  and the importer's table is by topic, so nothing is refused, unless two
  exports have the same remote topic: the second call throws
  (`network_bridge.cpp:93`), but its callback runs until then, and the importer
  takes the lower number that comes later for a duplicate.
* `exported` may lag behind by one frame for each callback
  (`network_bridge.cpp:189`), and `is_connected()` and the counters of
  connections by the step that the loop has still to take (`:316-321`,
  `:389-391`).
* The CRC covers topic and payload only (`frame.cpp:177-180`): a datagram whose
  sequence number, publisher, type or flags were changed on the way is decoded,
  and if type and flags fit it is counted under what it shows.
* After a restart has been recognised, a late frame of the previous run with a
  higher number is imported again; and a restarted publisher whose frame 0 went
  to another topic stays refused on this one until its numbers pass the old
  ones (`network_bridge.cpp:263`). `FirstRun` in `AtMostOnce` and
  `OnlyLateFramesRefused` is there for this.
* With several sessions the handlers of two frames may run in reverse order,
  because the handler runs after `duplicate_mutex_` is released.
* The back-off is reset by the first valid frame received, not by the
  connection (`network_bridge.cpp:355`; `docs/SOURCE_GUIDE.md:947`).

* `TcpClient::connect` closes its candidate on every path but one: when
  `poll` fails, `poll_socket` throws past it (`tcp_transport.cpp:551`). The
  variable `leaked` holds it, and `NoDescriptorLost` names it as the exception.
* `docs/PROTOCOL.md:52` counts losses and repetitions by publisher and
  sequence; `SequenceTracker` knows sequence numbers only. With two sensors the
  frames of the second count as duplicates, or as out of order after a higher
  number of the first, hence the proviso of `SequenceReport`: what it says of
  the counters it says of frames that show a single publisher.
* The control process counts duplicates towards the frames it waits for
  (`udp_control.cpp:70`), and so may stop, and report as lost, frames still on
  their way.

### Bounds

Threads: two of each kind that races, three where roles are free. Two suffice
for a race between two calls of the same operation; in the queue the third
thread lets a value be stolen between a notification and the woken thread's
return. Capacities and depths are 1 or 2, so that full, empty and in-between all
occur; the number of messages exceeds or meets the depth so that both overflow
policies act. One throwing insertion or removal gives a consumed notification
that is not passed on. Two connections give one reconnection, with any number of
failed attempts before and after it; `initial_backoff` 1 and `maximum_backoff` 2
are the value and its limit. Two exports number and push their frames in either
order, two frames fill the outbound queue of two, and a batch of one makes the
loop receive between them; `Uses` keeps what need not meet apart: two stops race
with one export, and two exports with each other, with the connection, and with
one stop. Two sessions with limits 1 and 2 give both a client turned away and
two handlers at once; with limit 1 the second is admitted while the first is
still being reaped. On a connection, two frames are enough for one to be torn
and another to follow it, a window of three cells is smaller than the larger
frame and as large as the smaller, so that sends block and receives are cut in
header and body, and the client's limit refuses the larger one. The sensor's
three frames can arrive in every order, and with a repetition they exceed what
the control process waits for. A changed number (`Numbers`) is one in use or one
beyond every number in use. `MaxPush`, `MaxThrows`, `MaxTasks`, `MaxMessages`,
`MaxFrames`, `MaxCalls`, `MaxRestarts`, `MaxSessions`, `MaxCorrupted`,
`MaxAddresses`, `MaxFaults` and the `frames` and `connections` of `Uses` only
cap how often the environment acts; the theorems hold for every value of those
in their modules. Symmetry is used in `Import`, a safety run, only. `TypeOK` is
checked by the runs `Queue` and `Import` and proved for the queue, the import
side, the pool and the control block; the other proofs use type invariants of
their own, with the bounds on the environment left out.

### Fairness

* A thread inside an operation keeps running: weak fairness of its steps. This
  is what an operating system's scheduler gives. Nobody is forced to make a
  call.
* User callbacks, tasks and senders end: strong fairness, because they are
  disabled while they are inside a call of their own. The documented contract
  of `shutdown` and `cancel_and_wait` needs it: code that never returns blocks
  them by design.
* Time-outs happen (weak fairness of the background thread, `ClientLoop` or
  `ManualLoop`, whose receive and back-off are timed). Time-outs of
  `wait_pop_for` and spurious wake-ups are **not** fair: the queue must work
  without them.
* `stop_mutex_` is granted to a thread that asks again and again (strong
  fairness of `StopStep`), and so is `lifecycle_mutex` (`CallStep` of
  `TcpSessionManager`); `dispatch_mutex` needs weak fairness only (`CallStep` of
  `Runtime`), since publish calls are bounded. Export callbacks go on (weak
  fairness of their steps together, which are bounded by the frames).

* On a connection, a thread inside `send_frame`, `receive_frame` or `close`
  goes on: weak fairness, which includes that the kernel answers each system
  call and that a receive, which is timed, ends. A send without a time-out to a
  peer that does not read blocks for ever, and `CallsReturn` claims nothing
  else. `UdpControl` states no fairness and makes no liveness claim; its
  programs end (`CHECK_DEADLOCK FALSE`).

## 5. What is proved

All proofs are checked by TLAPS, for every value of the constants that meets
the named assumptions of the modules: any number of threads, workers, clients,
sessions, topics, publishers and messages, any capacity, depth, limit and
window. Almost no property below is inductive as it stands; each module of
proofs states the inductive invariant first, as a conjunction of named parts.
TLC checked these invariants on the instances of section 4 as well, but for
`FlowInv`, which speaks of infinite numberings. Each module has one lemma per
part of its invariant (or per kind of step), with one step per action under it.

**`ThreadSafeQueueProofs`** (`ThreadsAssumption`, `CapacityAssumption`,
`MaxPushAssumption`, `MaxThrowsAssumption`)

* `TypeCorrect`: `Spec => []TypeOK`.
* `CapacityRespected`: `Spec => []CapacityBound`.
* `WakeupsNotLost`: `Spec => []NoLostWakeup`. The invariant is inductive
  together with `TypeOK`. It is a counting argument: while a consumer sleeps,
  each stored value, but for one per removal that threw, has a thread that will
  look at the queue or that still owes a `notify_one`. `MoveOne` and
  `GotoCounts` say how the number of threads in a set of labels changes when one
  thread moves; one lemma per kind of step (`EmplaceBackAwake`, `PopFrontAwake`,
  `ThrowAwake`, `ReturnAwake`, `SleepAwake`, `NotifyAwake`, `WokenAwake`, the
  closing ones) does the rest. It is why `notify_one` after the unlock is
  enough.
* `FifoDelivery`: `Spec => []FifoExactlyOnce`, from what popping and pushing do
  to `taken \o queue_`.
* `RefinesQueue`: `Spec => ImplementsQueue`. `call` maps a thread's place to
  what its caller knows of it: a thread that sleeps, wakes or was timed out is
  still in its call (`ResumeCall`, `UnseenMove`), one that has still to notify
  was answered, one whose value threw has failed (`ThrowPromised`). Type
  correctness is enough: the predicates that the code evaluates again after
  every wake-up are the guards of the promise.

**`ThreadPoolProofs`** (`WorkerCountAssumption`, `MaxTasksAssumption`,
`ClientsAssumption`)

* `TypeCorrect`; `TasksAccounted`: `Spec => []Accounting`; `ShutdownDrains`:
  `Spec => []FinishedMeansDrained`.
* The inductive invariant is `PoolInv`. For `FinishedMeansDrained` it follows
  the thread handles: while the constructor runs they are exactly the workers
  started, a shutdown takes them all (`Handles`), the thread that took them has
  left no worker out (`Joins`), and a worker leaves its loop only when the
  queue is closed and empty, and so it stays (`Drained`). For `Accounting` it
  follows the tasks: who holds one (`Holds`), and that those offered, queued and
  running are different ones whose fates say so (`Fated`); the counters are
  then cardinalities that change by one.

**`SubscriptionProofs`** (`ThreadsAssumption`, `MaxMessagesAssumption`,
`QueueDepthAssumption`, `OverflowPolicyAssumption`)

* `TypeCorrect`; `CallbacksSerial`: `Spec => []SerialCallbacks`;
  `MessagesConserved`: `Spec => []Conservation`; `QuietAfterWait`:
  `Spec => []QuietAfterCancelAndWait`.
* `RefinesMailbox`: `Spec => Promise!Spec`, the safety half of
  `ImplementsMailbox`: each step is one of `Mailbox` or a stutter.
* The inductive invariant is `BlockInv`. `DrainPlace` is its heart: `scheduled`
  stands for exactly one drain, which is being posted, queued or running. That
  is why the flag, given up only in the critical section that finds the mailbox
  empty, makes callbacks serial. `NotStranded` says that a message never waits
  without a drain, `InFlight` that `in_flight` and `callback_thread` describe
  the callback that runs, `Ordered` that messages begun precede those waiting,
  `Waiting` that a thread waits only after it has cancelled.

**`RuntimeProofs`** (`HandlesAssumption`, `NoTypeAssumption`,
`MessageBoundAssumption`, `ThreadsAssumption`, `QueueDepthAssumption`)

* `OrderShared`: `Spec => []TopicOrder`; `CastsSafe`: `Spec => []TypeContract`;
  `ShutdownQuiets`: `Spec => []QuietAfterShutdown`; `CancelFinal`:
  `Spec => NoCallbackBeginsAfterCancel`, an action property.
* The inductive invariant is `RuntimeInv`. `OrderInv` is about the stream of a
  subscription, the messages begun followed by those waiting: no two
  subscriptions of a topic hold two messages in opposite orders (`NoInversion`),
  because a message in its fan-out is the last one wherever it is (`FanoutLast`)
  and has not reached the subscriptions ahead (`NotYetThere`), because the
  thread that fans out owns `dispatch_mutex` (`FanoutLocked`). That the snapshot
  is older than the mutex does not matter to the order. `ContractInv` carries
  the type of a topic through publishers, records, snapshots and streams.
  `StopInv` says where a live subscription is known: in a record while the bus
  accepts, or on the list of the thread inside `stop()` (`LiveKnown`), and that
  a handle in a call of `cancel`, kept or closed has an inactive block
  (`CancelledInactive`, `BeingCancelled`).

**`DeliveryProofs`**, the import side (`DedupAssumption`, `FiniteAssumption`,
`NoTypeAssumption`, `BoundsAssumption`)

* `TypeCorrect`: `Spec => []TypeOK`.
* `RefusalsAreLate`: `Spec => []OnlyLateFramesRefused`; `RestartsHeard`:
  `Spec => []RestartRecognised`. Both hold for any size of the duplicate table,
  whether or not it is emptied. `SoundInv` adds that sequence numbers of a
  publisher in its first run are unique and ordered like send times
  (`WireBelow`, `WireOrder`), that carried and taken frames were sent, and that
  every table entry is the entry of a taken frame (`TableTaken`).
* `AtMostOnceImport`: under `Cardinality(Keys) <= max_dedup_entries`,
  `Spec => []AtMostOnce`. That a frame about to be handled was not handled
  before follows from the table: `OnceInv` adds that no taken frame is above
  its entry (`TakenBelow`), and that the frames being handled differ from each
  other and from those handled (`HandledOnce`). `NeverCleared` is where the
  proviso enters: a table with room for every pair is never emptied. Run
  `ImportTableCleared` shows that it cannot be dropped.
* `HandlersTyped`: `Spec => []HandlerTypes`, with `RouteInv`: past the look-up a
  frame still fits the route it was checked against, since routes are never
  replaced.

**`DeliveryProofs`**, the control process (`CountsAssumption`,
`BodiesAssumption`, `LatenciesAssumption`)

* `SequenceReported`: `UdpSpec => []SequenceReport`, for any sensors, sizes,
  limits and faults. The inductive invariant is `ReportInv`. `OneFrame` says
  that all cells of a datagram were written for one frame, or were made another
  one's together by a changed header (`HeaderRewritten`), so that what
  `decode_frame` accepts is a frame that was in flight, flags included;
  `KnownSent` that the frames in flight or counted were sent or altered.
  `Tracked` ties the tracker to the frames counted: its set is their numbers,
  `highest_` the greatest, `out_of_order_` the number of places where a first
  copy follows a higher number (`OneMore`, `LateAppended`), and every frame
  counted is a new number or a duplicate. When one publisher is shown there are
  as many pairs of publisher and number as numbers (`NumbersOfOne`). A sensor
  never numbers beyond its `count`, so the lost ones are the missing numbers
  below it (`LostNumbers`), provided all those counted were sent.
* `PercentilesReported`: `UdpSpec => []LatencyReport`. That the samples can be
  sorted at all is an invariant of the run (`SamplesInv`): a sample more goes
  before the first that exceeds it (`SortInsert`). In the sorted samples at
  least `r` are up to the `r`-th and fewer than `r` are below it
  (`RankCounts`, by counting along the arrangement), and the rank the code
  computes is the least number that is the share (`RankOfShare`).

**`BridgeClientProofs`** (`ThreadAssumption`, `ExportsAssumption`,
`UsesAssumption`, `DepthAssumption`, `BackoffAssumption`)

* `StopFinal`: `Spec => []StopQuiesces`; `ConnectionsCounted`:
  `Spec => []ConnectionAccounting`; `FramesOnceInOrder`:
  `Spec => []SendOnceInOrder`.
* The inductive invariant is `ClientInv`. `Linked` ties the connection,
  `is_connected` and each counter to the place of the client loop, between the
  atomic steps too. `Stopping` says what a `stop()` that has got so far has done
  for good, that the owner of `stop_mutex_` is inside `stop()`, and that a
  bridge stopped once stays stopped, closed and without exports; `Cancelling`
  that a cancelled export's callback is over, and that an export is being
  cancelled only by the thread in that part of `stop()`. `Lined` is about the
  frames sent, in hand and waiting. Each callback holds at most one number, its
  own last one, which is not in this line until it pushes it (`Numbering`,
  `NumberingStep`); so the numbers of one export ascend along the line whatever
  the others do (`LinePushed`, `LineAscends`), and the length of the line and
  the frames lost are those exported and those about to be counted
  (`Uncounted`, `UncountedMoves`).

**`TcpSessionManagerProofs`** (`LimitAssumption`, `BoundAssumption`,
`CallersAssumption`)

* `LimitKept`: `Spec => []ClientLimit`; `SessionsCounted`:
  `Spec => []SessionAccounting`; `WorkersNotLost`: `Spec => []WorkersJoined`;
  `StopFinal`: `Spec => []StopQuiesces`.
* The inductive invariant is `ManagerInv`. `Staged` says where the worker of a
  session is, given how far the accept thread is with it; `Registered` who is to
  join each joinable worker: it is in the session list, on the list being
  reaped, or on the list swapped out by the owner of `lifecycle_mutex`.
  `Lifecycle` says what that owner has done so far, `Counts` that
  `stats.active` is the number of sessions counted, below the limit while the
  accept thread admits one: only that thread increments it, so the workers that
  end meanwhile can only help. That thread ids are not session ids became part
  of `CallersAssumption` when a proof needed it.

**`TcpConnectionProofs`** (`ThreadsAssumption`, `BodiesAssumption`,
`LimitsAssumption`, `ConnectionBoundsAssumption`, `NoFrameAssumption`,
`MaxAddressesAssumption`)

* `DescriptorsSafe`: `Spec => []DescriptorsOwned`, with `DescriptorInv`: which
  descriptors an end holds follows from the stage it has reached
  (`HeldByStage`), so every failing system call leaves what it should, and
  a thread inside `::send` holds `send_mutex_` (`MutexHeld`), so `close()`, which
  takes it, cannot give the descriptor back under it.
* `FramesTravel`: `Spec => ImplementsFrameStream`. Here the receive buffer, the
  cells in flight and the rest of the frame being sent are one row of cells.
  `StreamInv` says (`FlowInv`, `UnderWay`) that there is a numbering of this row
  by frame and offset, `Flow`, such that numbers and offsets ascend
  (`Ascending`); a frame at or after no torn one begins with its first cell and
  has no gap (`Begun`, `Whole`); only cells of spoilt frames show something else
  (`Placed`); whatever can still be read as written is unharmed (`Unharmed`);
  and every frame newer than the newest delivered is in the row, or has an
  excuse, or is cut off by a reset (`Complete`). The lemmas on `Flow` say what
  remains true when a cell is added, moved, corrupted or lost, when the header
  and the body at the front are read, and when what is at the front is thrown
  away: a decoded frame is the next one that could be delivered, and a refused
  one was spoilt, too large, or behind a torn one.

**Only model-checked**

* Liveness (`WaitersReleased`, `AcceptedTasksRun`, `ShutdownReturns`,
  `CancelAndWaitReturns`, `CallsReturn`, `StopReturns`, `Reconnects`,
  `WindsDown`) and the fairness half of `ImplementsMailbox`: fairness and
  `ENABLED` are out of this prover's reach.
* That a layer below behaves as its user assumes (section 2, "Layers"): it is
  what the runs and theorems of the layer state,
  read as a contract, not a mapping between modules.


## 6. What is not modelled

* In `BridgeClient` and `TcpSessionManager` the socket stays an oracle of
  outcomes; `TcpConnection` models it by itself.
* The UDP constructors: their address loops have the shape of those in
  `TcpSetup` and close every candidate they drop.
* Moved-from `TcpConnection`, `TcpServer` and UDP objects: moves are not
  synchronised and happen before an object is shared.
* Bytes that happen to look like a header after a torn frame, and CRC
  collisions; the rounding of `percentile * n` in floating point (exact
  fractions are used; the doubles of 0.50, 0.95 and 0.99 do not exceed them, and
  so `ceil` gives the same rank for any number of samples a run can hold), the
  mean, throughput and unit conversions.
* `TcpSessionManager`'s counters of frames, heartbeats, rejected clients and
  errors: each is incremented where it is and read by `stats()` only.
* Object lifetimes (a callback or session that outlives the bridge it uses):
  needs the composition of step 4 of the plan.
* Torn statistics snapshots: `stats()` reads atomics one by one; only the
  counters themselves are covered.
* `PublishResult`, topic-name validation, option validation and error texts:
  pure functions of their arguments.
* Overlapping calls on one `Subscription` handle: `cancel` is not synchronised
  with itself, and the user has to see to it.
* A move of `T` that leaves its source changed when it throws (the model leaves
  the front of the queue as it was), and exceptions of a `T` inside the pool's
  queue, whose moves do not throw.
* Failed allocations where the code puts back what it had changed and passes
  the exception on (`add_export`, `advertise`, `subscribe`).
* In `BridgeClient`, heartbeats, `connect_attempts_` and `transport_errors_`
  (each counted where it is and read by `stats()` only), and exceptions of
  `make_frame` in an export callback: they use up a number, and nothing else.
* Changed header fields on a TCP stream: `Corrupt` of `TcpConnection` changes
  cells of a body, which the CRC covers. What a changed field does to the frame
  above, `UdpControl` shows; `ImplementsFrameStream` is about streams without.
* Serialization, message traits, process metrics, the other demos and
  benchmarks: pure encoders, compile-time constants, I/O and examples.

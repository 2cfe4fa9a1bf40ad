---------------------------- MODULE BridgeClient ----------------------------
(***************************************************************************)
(* The export side and the background thread of NetworkBridge              *)
(* (src/bridge/network_bridge.cpp): export_topic and the export callback,  *)
(* the bounded outbound queue, the TCP client loop with reconnection and   *)
(* back-off, the manual sender loop, and stop().                           *)
(*                                                                         *)
(* The socket is used through what TcpConnection shows of it: any call may *)
(* fail, a receive is bounded by its poll interval, and interrupt() ends   *)
(* it.  Time appears as steps that may happen at any moment: a heartbeat   *)
(* falls due, the peer has been silent too long, the back-off is over.     *)
(* configuration_mutex_ is only held for short sections, one step each.    *)
(***************************************************************************)
EXTENDS Integers, Sequences, FiniteSets

CONSTANTS
    Callers,            \* threads of the application
    io,                 \* the background thread, client_->worker
    Exports,            \* the calls of export_topic, and the callbacks they register
    Uses,               \* what the application may do with the bridge: see UsesAssumption
    outbound_depth,     \* NetworkBridgeOptions::outbound_queue_depth
    batch,              \* frames sent per round of the client loop (64)
    initial_backoff, maximum_backoff,
    NoThread

ASSUME ThreadAssumption == io \notin Callers /\ NoThread \notin Callers \cup {io}
ASSUME ExportsAssumption == IsFiniteSet(Exports)
\* How the transport is configured, which exports are made, who calls stop()
\* and two bounds: how many messages are exported and connections made.
ASSUME UsesAssumption ==
    \A u \in Uses : /\ u.mode \in {"Manual", "TcpClient"}
                   /\ u.exports \subseteq Exports
                   /\ u.stoppers \subseteq Callers \cup {io}
                   /\ u.frames \in Nat /\ u.connections \in Nat
ASSUME DepthAssumption == outbound_depth \in Nat \ {0} /\ batch \in Nat \ {0}
ASSUME BackoffAssumption ==
    initial_backoff \in Nat \ {0} /\ maximum_backoff \in Nat
      /\ maximum_backoff >= initial_backoff

Threads == Callers \cup {io}

VARIABLES
    use,                \* what this application does; it does not change
    mode, stopped, running,
    stop_mutex,         \* its owner
    exports,            \* of each: "absent", "subscribed", "registered", "refused", and
                        \*   in stop() "taken", "quieting", "cancelled"
    emitter,            \* of its callback: "idle", "check", "push" or "count"
    number,             \* the number its callback took last, or 0
    numbered,           \* who took number n is numbered[n]; next_sequence_ is its length
    outbound, outboundClosed,
    connection,         \* client_->connection is set
    connected,
    connected_before,
    pc,                 \* of the background thread; "none" before it is started
    healthy,            \* healthy_connection
    sentInRound,
    inHand,             \* the frame taken from outbound, or 0
    backoff,
    joinable,           \* client_->worker is joinable
    call,               \* of each thread: the call it is in
    stats,
    sent,               \* history: the frames written to the transport, in order
    returned            \* history: a stop() of an application thread has returned

flagVars == <<use, mode, stopped, running, stop_mutex>>
emitVars == <<emitter, number, numbered>>
exportVars == <<exports, emitVars>>
linkVars == <<connection, connected, connected_before>>
roundVars == <<healthy, sentInRound>>
vars == <<flagVars, exportVars, outbound, outboundClosed, linkVars, pc, roundVars,
          inHand, backoff, joinable, call, stats, sent, returned>>

NoStats == [exported |-> 0, outbound_dropped |-> 0, lost |-> 0,
            successful_connections |-> 0, reconnects |-> 0, disconnects |-> 0]

Init ==
    /\ use \in Uses
    /\ mode = "Unconfigured" /\ stopped = FALSE /\ running = FALSE
    /\ stop_mutex = NoThread
    /\ exports = [e \in Exports |-> "absent"] /\ emitter = [e \in Exports |-> "idle"]
    /\ number = [e \in Exports |-> 0] /\ numbered = << >>
    /\ outbound = << >> /\ outboundClosed = FALSE
    /\ connection = FALSE /\ connected = FALSE /\ connected_before = FALSE
    /\ pc = "none"
    /\ healthy = FALSE /\ sentInRound = 0
    /\ inHand = 0
    /\ backoff = initial_backoff
    /\ joinable = FALSE
    /\ call = [t \in Threads |-> "none"]
    /\ stats = NoStats
    /\ sent = << >>
    /\ returned = FALSE

Count(counter) == stats' = [stats EXCEPT ![counter] = @ + 1]
Enter(t, label) == call' = [call EXCEPT ![t] = label]

\* The loops of the background thread go on.
GoesOn == running /\ ~stopped

-----------------------------------------------------------------------------
(* export_topic: it creates the subscription, then registers it.  It waits *)
(* for no one, so which thread calls it makes no difference.               *)

Export(e, state) == exports' = [exports EXCEPT ![e] = state]

ExportTopic(e) ==
    /\ e \in use.exports
    /\ ~stopped /\ exports[e] = "absent"
    /\ Export(e, "subscribed")
    /\ UNCHANGED <<flagVars, emitVars, outbound, outboundClosed, linkVars, pc, roundVars,
                   inHand, backoff, joinable, call, stats, sent, returned>>

\* Mutant: the stop flag is not read again under the mutex.
AddExport_unchecked(e) ==
    /\ exports[e] = "subscribed"
    /\ Export(e, "registered")
    /\ UNCHANGED <<flagVars, emitVars, outbound, outboundClosed, linkVars, pc, roundVars,
                   inHand, backoff, joinable, call, stats, sent, returned>>

\* A stopped bridge throws, and so does one where another export has the same
\* remote topic; then the subscription dies with its handle.
AddExport(e) ==
    /\ exports[e] = "subscribed"
    /\ \/ ~stopped /\ Export(e, "registered")
       \/ stopped /\ Export(e, "refused")
       \/ (\E f \in Exports : exports[f] = "registered") /\ Export(e, "refused")
    /\ UNCHANGED <<flagVars, emitVars, outbound, outboundClosed, linkVars, pc, roundVars,
                   inHand, backoff, joinable, call, stats, sent, returned>>

-----------------------------------------------------------------------------
(* The callback of an export.  The calls of one subscription follow one    *)
(* another; those of different exports run at the same time.               *)

At(e, label) == emitter' = [emitter EXCEPT ![e] = label]
Subscribed == {"subscribed", "registered", "taken"}

\* The message becomes a frame with the next number (here from 1 on).
MakeFrame(e) ==
    /\ emitter[e] = "idle" /\ exports[e] \in Subscribed
    /\ Len(numbered) < use.frames
    /\ numbered' = Append(numbered, e)
    /\ number' = [number EXCEPT ![e] = Len(numbered) + 1]
    /\ At(e, "check")
    /\ UNCHANGED <<flagVars, exports, outbound, outboundClosed, linkVars, pc, roundVars,
                   inHand, backoff, joinable, call, stats, sent, returned>>

\* emit_frame
EmitCheck(e) ==
    /\ emitter[e] = "check"
    /\ \/ stopped /\ Count("outbound_dropped") /\ At(e, "idle")
       \/ ~stopped /\ At(e, "push") /\ UNCHANGED stats
    /\ UNCHANGED <<flagVars, exports, number, numbered, outbound, outboundClosed,
                   linkVars, pc, roundVars, inHand, backoff, joinable, call, sent,
                   returned>>

\* try_push refuses the frame when the queue is closed or full, and may throw
\* at any time, which counts as a refusal.
EmitPush(e) ==
    /\ emitter[e] = "push"
    /\ \/ /\ Count("outbound_dropped")
          /\ At(e, "idle")
          /\ UNCHANGED outbound
       \/ /\ ~outboundClosed /\ Len(outbound) < outbound_depth
          /\ outbound' = Append(outbound, number[e])
          /\ At(e, "count")
          /\ UNCHANGED stats
    /\ UNCHANGED <<flagVars, exports, number, numbered, outboundClosed, linkVars, pc,
                   roundVars, inHand, backoff, joinable, call, sent, returned>>

\* The frame may be on its way before it is counted.
EmitCount(e) ==
    /\ emitter[e] = "count"
    /\ At(e, "idle")
    /\ Count("exported")
    /\ UNCHANGED <<flagVars, exports, number, numbered, outbound, outboundClosed,
                   linkVars, pc, roundVars, inHand, backoff, joinable, call, sent,
                   returned>>

-----------------------------------------------------------------------------
(* set_frame_sender and start_tcp_client, under stop_mutex_; when the      *)
(* thread cannot be created everything is put back.                        *)

StartWorker(t) ==
    /\ t \in Callers /\ call[t] = "none"
    /\ stop_mutex = NoThread /\ ~stopped /\ mode = "Unconfigured"
    /\ mode' = use.mode
    /\ running' = TRUE
    /\ joinable' = TRUE
    /\ pc' = IF mode' = "Manual" THEN "m_check" ELSE "check"
    /\ UNCHANGED <<use, stopped, stop_mutex, exportVars, outbound, outboundClosed,
                   linkVars, roundVars, inHand, backoff, call, stats, sent, returned>>

-----------------------------------------------------------------------------
(* manual_sender_loop *)

ManualCheck ==
    /\ pc = "m_check"
    /\ pc' = IF GoesOn THEN "m_pop" ELSE "exit"
    /\ UNCHANGED <<flagVars, exportVars, outbound, outboundClosed, linkVars, roundVars,
                   inHand, backoff, joinable, call, stats, sent, returned>>

\* wait_pop_for: a frame, or nothing after 25 ms or on a closed empty queue.
ManualPop ==
    /\ pc = "m_pop"
    /\ \/ /\ outbound # << >>
          /\ inHand' = Head(outbound)
          /\ outbound' = Tail(outbound)
          /\ pc' = "m_send"
       \/ /\ outbound = << >>
          /\ pc' = "m_check"
          /\ UNCHANGED <<inHand, outbound>>
    /\ UNCHANGED <<flagVars, exportVars, outboundClosed, linkVars, roundVars, backoff,
                   joinable, call, stats, sent, returned>>

\* The user's sender, which may call stop() and may throw.
ManualSend ==
    /\ pc = "m_send" /\ call[io] = "none"
    /\ \/ sent' = Append(sent, inHand) /\ UNCHANGED stats
       \/ Count("lost") /\ UNCHANGED sent
    /\ inHand' = 0
    /\ pc' = "m_check"
    /\ UNCHANGED <<flagVars, exportVars, outbound, outboundClosed, linkVars, roundVars,
                   backoff, joinable, call, returned>>

-----------------------------------------------------------------------------
(* client_loop *)

Attempt ==
    /\ pc = "check"
    /\ \/ GoesOn /\ pc' = "connect" /\ UNCHANGED connected
       \/ ~GoesOn /\ pc' = "exit" /\ connected' = FALSE
    /\ UNCHANGED <<flagVars, exportVars, outbound, outboundClosed, connection,
                   connected_before, roundVars, inHand, backoff, joinable, call, stats,
                   sent, returned>>

Connect ==
    /\ pc = "connect"
    /\ \/ stats.successful_connections < use.connections
          /\ connection' = TRUE /\ pc' = "announce"
       \/ pc' = "cleanup" /\ UNCHANGED connection
    /\ UNCHANGED <<flagVars, exportVars, outbound, outboundClosed, connected,
                   connected_before, roundVars, inHand, backoff, joinable, call, stats,
                   sent, returned>>

\* The flag and the counters are atomic variables of their own: another thread
\* may read them in between.
Announce ==
    /\ pc = "announce"
    /\ connected' = TRUE
    /\ pc' = "count_success"
    /\ UNCHANGED <<flagVars, exportVars, outbound, outboundClosed, connection,
                   connected_before, roundVars, inHand, backoff, joinable, call, stats,
                   sent, returned>>

CountSuccess ==
    /\ pc = "count_success"
    /\ Count("successful_connections")
    /\ pc' = "count_again"
    /\ UNCHANGED <<flagVars, exportVars, outbound, outboundClosed, linkVars, roundVars,
                   inHand, backoff, joinable, call, sent, returned>>

CountReconnect ==
    /\ pc = "count_again"
    /\ \/ connected_before /\ Count("reconnects")
       \/ ~connected_before /\ UNCHANGED stats
    /\ connected_before' = TRUE
    /\ pc' = "serve"
    /\ UNCHANGED <<flagVars, exportVars, outbound, outboundClosed, connection, connected,
                   roundVars, inHand, backoff, joinable, call, sent, returned>>

ServeCheck ==
    /\ pc = "serve"
    /\ pc' = IF GoesOn THEN "send" ELSE "cleanup"
    /\ UNCHANGED <<flagVars, exportVars, outbound, outboundClosed, linkVars, roundVars,
                   inHand, backoff, joinable, call, stats, sent, returned>>

\* Mutant: a frame is removed after its write only, and one whose write failed
\* although its bytes went out is written again on the next connection.
Send_repeated ==
    /\ pc = "send"
    /\ \/ /\ sentInRound < batch /\ outbound # << >>
          /\ sent' = Append(sent, Head(outbound))
          /\ \/ /\ sentInRound' = sentInRound + 1
                /\ outbound' = Tail(outbound)
                /\ UNCHANGED pc
             \/ /\ pc' = "cleanup" /\ sentInRound' = 0
                /\ UNCHANGED outbound
       \/ /\ sentInRound = batch \/ outbound = << >>
          /\ pc' = "receive" /\ sentInRound' = 0
          /\ UNCHANGED <<outbound, sent>>
    /\ UNCHANGED <<flagVars, exportVars, outboundClosed, linkVars, healthy,
                   inHand, backoff, joinable, call, returned, stats>>

\* A frame whose write fails is lost with the connection.
Send ==
    /\ pc = "send"
    /\ \/ /\ sentInRound < batch /\ outbound # << >>
          /\ outbound' = Tail(outbound)
          /\ \/ /\ sent' = Append(sent, Head(outbound))
                /\ sentInRound' = sentInRound + 1
                /\ UNCHANGED <<pc, stats>>
             \/ /\ Count("lost")
                /\ pc' = "cleanup" /\ sentInRound' = 0
                /\ UNCHANGED sent
       \/ /\ sentInRound = batch \/ outbound = << >>
          /\ pc' = "receive" /\ sentInRound' = 0
          /\ UNCHANGED <<outbound, sent, stats>>
    /\ UNCHANGED <<flagVars, exportVars, outboundClosed, linkVars, healthy,
                   inHand, backoff, joinable, call, returned>>

\* Nothing within the poll interval; a valid frame; or an error.
Receive ==
    /\ pc = "receive"
    /\ \/ pc' = "timers" /\ UNCHANGED <<healthy, backoff>>
       \/ /\ pc' = "timers"
          /\ healthy' = TRUE
          /\ backoff' = IF healthy THEN backoff ELSE initial_backoff
       \/ pc' = "cleanup" /\ UNCHANGED <<healthy, backoff>>
    /\ UNCHANGED <<flagVars, exportVars, outbound, outboundClosed, linkVars, sentInRound,
                   inHand, joinable, call, stats, sent, returned>>

\* The heartbeat goes out or fails; the peer has been silent for too long.
Timers ==
    /\ pc = "timers"
    /\ pc' \in {"serve", "cleanup"}
    /\ UNCHANGED <<flagVars, exportVars, outbound, outboundClosed, linkVars, roundVars,
                   inHand, backoff, joinable, call, stats, sent, returned>>

Cleanup ==
    /\ pc = "cleanup"
    /\ connection' = FALSE /\ healthy' = FALSE
    /\ pc' = "disconnect"
    /\ UNCHANGED <<flagVars, exportVars, outbound, outboundClosed, connected,
                   connected_before, sentInRound, inHand, backoff, joinable, call, stats,
                   sent, returned>>

\* Mutant: a failed attempt counts as a disconnection.
Disconnect_always ==
    /\ pc = "disconnect"
    /\ connected' = FALSE
    /\ pc' = "count_end"
    /\ UNCHANGED <<flagVars, exportVars, outbound, outboundClosed, connection,
                   connected_before, roundVars, inHand, backoff, joinable, call, stats,
                   sent, returned>>

\* connected is exchanged for false; only who was connected counts the end.
Disconnect ==
    /\ pc = "disconnect"
    /\ connected' = FALSE
    /\ pc' = IF connected THEN "count_end" ELSE "retry"
    /\ UNCHANGED <<flagVars, exportVars, outbound, outboundClosed, connection,
                   connected_before, roundVars, inHand, backoff, joinable, call, stats,
                   sent, returned>>

CountDisconnect ==
    /\ pc = "count_end"
    /\ Count("disconnects")
    /\ pc' = "retry"
    /\ UNCHANGED <<flagVars, exportVars, outbound, outboundClosed, linkVars, roundVars,
                   inHand, backoff, joinable, call, sent, returned>>

\* Mutant: the loop gives up after a failure.
Retry_gives_up ==
    /\ pc = "retry"
    /\ pc' = "exit"
    /\ UNCHANGED <<flagVars, exportVars, outbound, outboundClosed, linkVars, roundVars,
                   inHand, backoff, joinable, call, stats, sent, returned>>

Retry ==
    /\ pc = "retry"
    /\ pc' = IF GoesOn THEN "wait_check" ELSE "check"
    /\ UNCHANGED <<flagVars, exportVars, outbound, outboundClosed, linkVars, roundVars,
                   inHand, backoff, joinable, call, stats, sent, returned>>

\* wait_backoff: the predicate, read without the lock of who changes it, ...
WaitCheck ==
    /\ pc = "wait_check"
    /\ pc' = IF GoesOn THEN "wait_block" ELSE "waited"
    /\ UNCHANGED <<flagVars, exportVars, outbound, outboundClosed, linkVars, roundVars,
                   inHand, backoff, joinable, call, stats, sent, returned>>

\* ... then sleep, until notified or timed out.
WaitBlock ==
    /\ pc = "wait_block"
    /\ pc' = "wait_sleep"
    /\ UNCHANGED <<flagVars, exportVars, outbound, outboundClosed, linkVars, roundVars,
                   inHand, backoff, joinable, call, stats, sent, returned>>

\* Mutant: wait() for wait_for(): the sleep only ends when notified.
WaitTimeout_untimed == pc = "wait_sleep" /\ pc' = "wait_sleep" /\ UNCHANGED vars

WaitTimeout ==
    /\ pc = "wait_sleep"
    /\ pc' = "waited"
    /\ UNCHANGED <<flagVars, exportVars, outbound, outboundClosed, linkVars, roundVars,
                   inHand, backoff, joinable, call, stats, sent, returned>>

\* (The code's test against overflow yields the same limit.)
doubled_backoff(current) ==
    IF 2 * current >= maximum_backoff THEN maximum_backoff ELSE 2 * current

WaitOver ==
    /\ pc = "waited"
    /\ backoff' = doubled_backoff(backoff)
    /\ pc' = "check"
    /\ UNCHANGED <<flagVars, exportVars, outbound, outboundClosed, linkVars, roundVars,
                   inHand, joinable, call, stats, sent, returned>>

-----------------------------------------------------------------------------
(* stop() *)

Stop(t) ==
    /\ t \in use.stoppers /\ call[t] = "none"
    /\ t = io => pc = "m_send"
    /\ Enter(t, "st_lock")
    /\ UNCHANGED <<flagVars, exportVars, outbound, outboundClosed, linkVars, pc,
                   roundVars, inHand, backoff, joinable, stats, sent, returned>>

StopLock(t) ==
    /\ call[t] = "st_lock" /\ stop_mutex = NoThread
    /\ stop_mutex' = t
    /\ stopped' = TRUE
    /\ Enter(t, IF stopped THEN "st_join" ELSE "st_exports")
    /\ UNCHANGED <<use, mode, running, exportVars, outbound, outboundClosed, linkVars, pc,
                   roundVars, inHand, backoff, joinable, stats, sent, returned>>

\* The cancellers are taken at once, under configuration_mutex_, ...
StopExports(t) ==
    /\ call[t] = "st_exports"
    /\ mode' = "Stopped"
    /\ exports' = [e \in Exports |-> IF exports[e] = "registered" THEN "taken"
                                     ELSE exports[e]]
    /\ Enter(t, "st_cancel")
    /\ UNCHANGED <<use, stopped, running, stop_mutex, emitVars, outbound, outboundClosed,
                   linkVars, pc, roundVars, inHand, backoff, joinable, stats, sent,
                   returned>>

\* ... and called one after another: cancel_and_wait, whose first half ...
StopCancel(t) ==
    /\ call[t] = "st_cancel"
    /\ \/ \E e \in Exports : exports[e] = "taken" /\ Export(e, "quieting")
          /\ Enter(t, "st_quiet")
       \/ /\ \A e \in Exports : exports[e] # "taken"
          /\ Enter(t, "st_notify")
          /\ UNCHANGED exports
    /\ UNCHANGED <<flagVars, emitVars, outbound, outboundClosed, linkVars, pc, roundVars,
                   inHand, backoff, joinable, stats, sent, returned>>

\* ... is followed by the wait for a running callback.
StopQuiet(t) ==
    /\ call[t] = "st_quiet"
    /\ \E e \in Exports :
          exports[e] = "quieting" /\ emitter[e] = "idle" /\ Export(e, "cancelled")
    /\ Enter(t, "st_cancel")
    /\ UNCHANGED <<flagVars, emitVars, outbound, outboundClosed, linkVars, pc, roundVars,
                   inHand, backoff, joinable, stats, sent, returned>>

\* running is cleared and the condition notified, without wait_mutex.
StopNotify(t) ==
    /\ call[t] = "st_notify"
    /\ running' = FALSE
    /\ pc' = IF pc = "wait_sleep" THEN "wait_check" ELSE pc
    /\ Enter(t, "st_close")
    /\ UNCHANGED <<use, mode, stopped, stop_mutex, exportVars, outbound, outboundClosed,
                   linkVars, roundVars, inHand, backoff, joinable, stats, sent, returned>>

\* The queue is closed; interrupt() on the connection, if any, makes the
\* receive in progress end, which it may do at any time.
StopClose(t) ==
    /\ call[t] = "st_close"
    /\ outboundClosed' = TRUE
    /\ Enter(t, "st_join")
    /\ UNCHANGED <<flagVars, exportVars, outbound, linkVars, pc, roundVars, inHand,
                   backoff, joinable, stats, sent, returned>>

\* The background thread does not join itself.
StopJoin(t) ==
    /\ call[t] = "st_join"
    /\ joinable /\ t # io => pc = "exit"
    /\ joinable' = (joinable /\ t = io)
    /\ stop_mutex' = NoThread
    /\ returned' = (returned \/ t # io)
    /\ Enter(t, "none")
    /\ UNCHANGED <<use, mode, stopped, running, exportVars, outbound, outboundClosed,
                   linkVars, pc, roundVars, inHand, backoff, stats, sent>>

-----------------------------------------------------------------------------
ClientLoop ==
    \/ Attempt \/ Connect \/ Announce \/ CountSuccess \/ CountReconnect
    \/ ServeCheck \/ Send \/ Receive \/ Timers
    \/ Cleanup \/ Disconnect \/ CountDisconnect \/ Retry
    \/ WaitCheck \/ WaitBlock \/ WaitTimeout \/ WaitOver
ManualLoop == ManualCheck \/ ManualPop
StopStep(t) ==
    \/ StopLock(t) \/ StopExports(t) \/ StopCancel(t) \/ StopQuiet(t) \/ StopNotify(t)
    \/ StopClose(t) \/ StopJoin(t)
EmitStep(e) == EmitCheck(e) \/ EmitPush(e) \/ EmitCount(e)

Next ==
    \/ \E e \in Exports :
          ExportTopic(e) \/ AddExport(e) \/ MakeFrame(e) \/ EmitStep(e)
    \/ \E t \in Threads : StartWorker(t) \/ Stop(t) \/ StopStep(t)
    \/ ClientLoop \/ ManualLoop \/ ManualSend

Spec == Init /\ [][Next]_vars

(***************************************************************************)
(* Fairness: the background thread runs, waits and polls time out, the     *)
(* user's sender returns (strongly fair: it may call stop meanwhile), and  *)
(* stop() and the export callbacks go on. stop_mutex_ is granted again and *)
(* again to whoever waits for it.                                          *)
(***************************************************************************)
FairSpec ==
    /\ Spec
    /\ WF_vars(ClientLoop \/ ManualLoop) /\ SF_vars(ManualSend)
    /\ WF_vars(\E e \in Exports : EmitStep(e))
    /\ \A t \in Threads : SF_vars(StopStep(t))

-----------------------------------------------------------------------------
StopLabels ==
    {"st_lock", "st_exports", "st_cancel", "st_quiet", "st_notify", "st_close", "st_join"}

TypeOK ==
    /\ use \in Uses
    /\ mode \in {"Unconfigured", "Manual", "TcpClient", "Stopped"}
    /\ stopped \in BOOLEAN /\ running \in BOOLEAN
    /\ stop_mutex \in Threads \cup {NoThread}
    /\ exports \in [Exports -> {"absent", "subscribed", "registered", "refused",
                                "taken", "quieting", "cancelled"}]
    /\ emitter \in [Exports -> {"idle", "check", "push", "count"}]
    /\ number \in [Exports -> 0..use.frames] /\ numbered \in Seq(Exports)
    /\ outbound \in Seq(1..use.frames) /\ Len(outbound) <= outbound_depth
    /\ outboundClosed \in BOOLEAN /\ connection \in BOOLEAN /\ connected \in BOOLEAN
    /\ connected_before \in BOOLEAN
    /\ pc \in {"none", "m_check", "m_pop", "m_send", "check", "connect", "announce",
               "count_success", "count_again", "serve", "send", "receive", "timers",
               "cleanup", "disconnect", "count_end", "retry", "wait_check",
               "wait_block", "wait_sleep", "waited", "exit"}
    /\ healthy \in BOOLEAN /\ sentInRound \in 0..batch
    /\ inHand \in 0..use.frames
    /\ backoff \in initial_backoff..maximum_backoff
    /\ joinable \in BOOLEAN /\ returned \in BOOLEAN
    /\ call \in [Threads -> StopLabels \cup {"none"}]
    /\ stats \in [DOMAIN NoStats -> Nat]
    /\ sent \in Seq(1..use.frames)

(***************************************************************************)
(* When stop() has returned to the application, the background thread is   *)
(* gone, the bridge is not connected, no export is left registered, no     *)
(* callback of one that was is still running and nothing can be started    *)
(* again, although export_topic, the transport setup, the callbacks and    *)
(* other stops may race with it.                                           *)
(***************************************************************************)
StopQuiesces ==
    returned =>
       /\ pc \in {"none", "exit"} /\ ~connected /\ ~connection
       /\ \A e \in Exports : exports[e] \notin {"registered", "taken", "quieting"}
       /\ \A e \in Exports : exports[e] = "cancelled" => emitter[e] = "idle"
       /\ mode = "Stopped" /\ outboundClosed

One(condition) == IF condition THEN 1 ELSE 0

(***************************************************************************)
(* is_connected() and the connection statistics agree, whatever fails in   *)
(* the loop: every successful connection ends in one disconnection, and    *)
(* all but the first are reconnections.  The flag and the counters are     *)
(* changed one at a time, so who reads them between two of those steps     *)
(* sees exactly the one step that is still to come, and never more.        *)
(***************************************************************************)
ConnectionAccounting ==
    /\ stats.successful_connections + One(pc = "count_success")
         = stats.disconnects + One(connected) + One(pc = "count_end")
    /\ connected => connection \/ pc = "disconnect"
    /\ IF connected_before
       THEN stats.reconnects + One(pc = "count_again") = stats.successful_connections - 1
       ELSE stats.reconnects = 0 /\ stats.successful_connections = One(pc = "count_again")

InHand == IF inHand = 0 THEN << >> ELSE <<inHand>>

(***************************************************************************)
(* The frames of one export leave in the order they were made and no frame *)
(* leaves twice, across failures and reconnections; those of two exports   *)
(* may overtake each other between their number and the queue.  exported   *)
(* counts the frames that were sent, lost with their connection, or still  *)
(* wait, but for those that an export callback is about to count.          *)
(***************************************************************************)
SendOnceInOrder ==
    LET line == sent \o InHand \o outbound
        uncounted == {e \in Exports : emitter[e] = "count"}
    IN
    /\ \A i, j \in DOMAIN line :
          i < j /\ numbered[line[i]] = numbered[line[j]] => line[i] < line[j]
    /\ stats.exported + Cardinality(uncounted) = Len(line) + stats.lost

(***************************************************************************)
(* Every stop() returns: it does not wait for ever for the background      *)
(* thread, for an export callback or for another stop().                   *)
(***************************************************************************)
StopReturns == \A t \in Threads : []<>(call[t] = "none")

(***************************************************************************)
(* A lost connection, or one that could not be made, is followed by        *)
(* another attempt, unless the bridge is stopped, however many attempts    *)
(* fail: the client loop is again and again outside what lies between two  *)
(* attempts.                                                               *)
(***************************************************************************)
BetweenAttempts ==
    {"cleanup", "disconnect", "count_end", "retry", "wait_check", "wait_block",
     "wait_sleep", "waited", "check", "exit"}
Reconnects == []<>(stopped \/ pc \notin BetweenAttempts)
=============================================================================

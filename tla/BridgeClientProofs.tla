------------------------- MODULE BridgeClientProofs -------------------------
(***************************************************************************)
(* Machine-checked proofs about BridgeClient, for any threads, any exports *)
(* and uses of the bridge, any depth of the outbound queue, any batch and  *)
(* back-off, and any number of frames and connections.                     *)
(***************************************************************************)
EXTENDS BridgeClient, FiniteSetTheorems, TLAPS

Counters ==
  [exported : Nat, outbound_dropped : Nat, lost : Nat,
   successful_connections : Nat, reconnects : Nat, disconnects : Nat]

\* The places in stop() with stop_mutex_ held.
HoldingLabels == {"st_exports", "st_cancel", "st_quiet", "st_notify", "st_close", "st_join"}

\* The types that the other parts need.
ClientTypes ==
  /\ use \in Uses
  /\ stopped \in BOOLEAN /\ outboundClosed \in BOOLEAN /\ joinable \in BOOLEAN
  /\ connection \in BOOLEAN /\ connected \in BOOLEAN /\ returned \in BOOLEAN
  /\ connected_before \in BOOLEAN
  /\ exports \in [Exports -> {"absent", "subscribed", "registered", "refused",
                              "taken", "quieting", "cancelled"}]
  /\ emitter \in [Exports -> {"idle", "check", "push", "count"}]
  /\ number \in [Exports -> Nat] /\ numbered \in Seq(Exports)
  /\ call \in [Threads -> StopLabels \cup {"none"}]
  /\ stats \in Counters
  /\ outbound \in Seq(Nat) /\ sent \in Seq(Nat) /\ inHand \in Nat

\* What is_connected() and the statistics say, by where the loop is.
LinkedAt == {"count_success", "count_again", "serve", "send", "receive", "timers"}
Linked ==
  /\ stats.successful_connections + One(pc = "count_success")
       = stats.disconnects + One(connected) + One(pc = "count_end")
  /\ IF connected_before
     THEN stats.reconnects + One(pc = "count_again") = stats.successful_connections - 1
     ELSE stats.reconnects = 0 /\ stats.successful_connections = One(pc = "count_again")
  /\ pc \in LinkedAt \cup {"announce"} => connection
  /\ connection => pc \in LinkedAt \cup {"announce", "cleanup"}
  /\ pc \in {"count_success", "count_again"} => connected
  /\ connected => /\ pc \in LinkedAt \cup {"cleanup", "disconnect"}
                  /\ connection \/ pc = "disconnect"

\* What a stop() that has got so far has done for good.
Emptied == stopped /\ mode = "Stopped" /\ \A e \in Exports : exports[e] # "registered"
Quieted == Emptied /\ \A e \in Exports : exports[e] \notin {"taken", "quieting"}
Closed == Quieted /\ outboundClosed
Stopping ==
  /\ \A t \in Threads : call[t] \in HoldingLabels <=> stop_mutex = t
  /\ mode = "Unconfigured" => pc = "none"
  /\ ~joinable => pc \in {"none", "exit"}
  /\ stopped /\ stop_mutex = NoThread => Closed
  /\ \A t \in Threads : /\ call[t] = "st_exports" => stopped
                        /\ call[t] \in {"st_cancel", "st_quiet"} => Emptied
                        /\ call[t] \in {"st_notify", "st_close"} => Quieted
                        /\ call[t] = "st_join" => Closed
  /\ returned => Closed /\ pc \in {"none", "exit"}

\* Exports are cancelled one at a time, and then their callback is at rest.
Cancelling ==
  /\ \A e \in Exports : exports[e] = "quieting" => \E t \in Threads : call[t] = "st_quiet"
  /\ \A e, f \in Exports : exports[e] = "quieting" /\ exports[f] = "quieting" => e = f
  /\ \A e \in Exports : exports[e] = "cancelled" => emitter[e] = "idle"

\* Of two frames of one export, x was made first; n says who took each number.
Before(n, x, y) == n[x] = n[y] => x < y

\* Frames sent, in hand (0 for none) and waiting: in order, for each export.
InLine(n, a, h, o) ==
  /\ \A i \in 1..Len(a) : a[i] \in 1..Len(n)
  /\ \A i \in 1..Len(o) : o[i] \in 1..Len(n)
  /\ h \in 0..Len(n)
  /\ \A i, j \in 1..Len(a) : i < j => Before(n, a[i], a[j])
  /\ \A i, j \in 1..Len(o) : i < j => Before(n, o[i], o[j])
  /\ \A i \in 1..Len(a), j \in 1..Len(o) : Before(n, a[i], o[j])
  /\ h # 0 => /\ \A i \in 1..Len(a) : Before(n, a[i], h)
              /\ \A i \in 1..Len(o) : Before(n, h, o[i])

\* A frame x not yet in line, behind all that is.
Behind(n, a, h, o, x) ==
  /\ \A i \in 1..Len(a) : Before(n, a[i], x)
  /\ \A i \in 1..Len(o) : Before(n, o[i], x)
  /\ h # 0 => Before(n, h, x)

Numbering ==
  \A e \in Exports :
    /\ emitter[e] # "idle" => number[e] \in 1..Len(numbered) /\ numbered[number[e]] = e
    /\ emitter[e] \in {"check", "push"} => Behind(numbered, sent, inHand, outbound, number[e])

Uncounted == Cardinality({e \in Exports : emitter[e] = "count"})
Lined ==
  /\ inHand # 0 <=> pc = "m_send"
  /\ InLine(numbered, sent, inHand, outbound)
  /\ Numbering
  /\ stats.exported + Uncounted
       = Len(sent) + (IF inHand = 0 THEN 0 ELSE 1) + Len(outbound) + stats.lost

\* The inductive invariant.
ClientInv == ClientTypes /\ Linked /\ Stopping /\ Cancelling /\ Lined

-----------------------------------------------------------------------------
LEMMA CounterFields ==
  ASSUME NEW y \in Counters
  PROVE  /\ y.exported \in Nat /\ y.outbound_dropped \in Nat /\ y.lost \in Nat
         /\ y.successful_connections \in Nat
         /\ y.reconnects \in Nat /\ y.disconnects \in Nat
  BY DEF Counters

\* The counters of frames and those of connections.
SameLink == /\ stats'.successful_connections = stats.successful_connections
            /\ stats'.reconnects = stats.reconnects /\ stats'.disconnects = stats.disconnects
SameFrames == stats'.exported = stats.exported /\ stats'.lost = stats.lost

\* One counter is raised and the others stay.
LEMMA Counting ==
  ASSUME stats \in Counters
  PROVE  /\ \A c \in DOMAIN NoStats : Count(c) => stats' \in Counters
         /\ \A c \in {"exported", "outbound_dropped", "lost"} : Count(c) => SameLink
         /\ \A c \in {"outbound_dropped", "successful_connections", "reconnects", "disconnects"} :
               Count(c) => SameFrames
         /\ Count("exported") =>
               stats'.exported = stats.exported + 1 /\ stats'.lost = stats.lost
         /\ Count("lost") =>
               stats'.exported = stats.exported /\ stats'.lost = stats.lost + 1
         /\ Count("successful_connections") =>
               /\ stats'.successful_connections = stats.successful_connections + 1
               /\ stats'.reconnects = stats.reconnects /\ stats'.disconnects = stats.disconnects
         /\ Count("reconnects") =>
               /\ stats'.successful_connections = stats.successful_connections
               /\ stats'.reconnects = stats.reconnects + 1
               /\ stats'.disconnects = stats.disconnects
         /\ Count("disconnects") =>
               /\ stats'.successful_connections = stats.successful_connections
               /\ stats'.reconnects = stats.reconnects
               /\ stats'.disconnects = stats.disconnects + 1
<1>1. \A c \in DOMAIN NoStats : Count(c) => stats' \in Counters
  BY DEF Counters, Count, NoStats
<1> QED BY <1>1 DEF Counters, Count, SameLink, SameFrames

LEMMA Pushing ==
  ASSUME NEW s \in Seq(Nat), NEW x \in Nat
  PROVE  /\ Append(s, x) \in Seq(Nat) /\ Len(Append(s, x)) = Len(s) + 1
         /\ Append(s, x)[Len(s) + 1] = x
         /\ \A i \in 1..Len(s) : Append(s, x)[i] = s[i]
  OBVIOUS

LEMMA Joining ==
  ASSUME NEW s \in Seq(Nat), NEW t \in Seq(Nat)
  PROVE  s \o t \in Seq(Nat) /\ Len(s \o t) = Len(s) + Len(t)
  OBVIOUS

LEMMA Popping ==
  ASSUME NEW s \in Seq(Nat), s # << >>
  PROVE  /\ Head(s) \in Nat /\ Head(s) = s[1] /\ Len(s) \in Nat \ {0}
         /\ Tail(s) \in Seq(Nat) /\ Len(Tail(s)) = Len(s) - 1
         /\ \A i \in 1..(Len(s) - 1) : Tail(s)[i] = s[i + 1]
  OBVIOUS

-----------------------------------------------------------------------------
LEMMA TypesInitially == Init => ClientTypes
<1> SUFFICES ASSUME Init PROVE ClientTypes
  OBVIOUS
<1>1. << >> \in Seq(Nat) /\ << >> \in Seq(Exports)
  OBVIOUS
<1>2. stats \in Counters
  BY DEF Init, NoStats, Counters
<1>3. /\ stopped \in BOOLEAN /\ outboundClosed \in BOOLEAN /\ joinable \in BOOLEAN
      /\ connection \in BOOLEAN /\ connected \in BOOLEAN /\ returned \in BOOLEAN
      /\ connected_before \in BOOLEAN
  BY DEF Init
<1>4. /\ exports \in [Exports -> {"absent", "subscribed", "registered", "refused",
                                  "taken", "quieting", "cancelled"}]
      /\ emitter \in [Exports -> {"idle", "check", "push", "count"}]
      /\ number \in [Exports -> Nat]
  BY DEF Init
<1> QED BY <1>1, <1>2, <1>3, <1>4 DEF Init, ClientTypes

\* The steps of the exports leave the rest alone.
LEMMA ExportFrame ==
  ASSUME NEW e \in Exports, ExportTopic(e) \/ AddExport(e) \/ MakeFrame(e) \/ EmitStep(e)
  PROVE  UNCHANGED <<flagVars, outboundClosed, linkVars, pc, roundVars, inHand, backoff,
                     joinable, call, sent, returned>>
  BY DEF ExportTopic, AddExport, MakeFrame, EmitStep, EmitCheck, EmitPush, EmitCount

\* Those of stop() leave the frames, the counters and the connection alone.
LEMMA StopFrame ==
  ASSUME NEW t \in Threads, StopStep(t)
  PROVE  /\ UNCHANGED <<use, emitVars, outbound, linkVars, roundVars, inHand, backoff, stats, sent>>
         /\ pc' = pc \/ (pc = "wait_sleep" /\ pc' = "wait_check")
<1>1. UNCHANGED <<use, emitVars, outbound, linkVars, roundVars, inHand, backoff, stats, sent>>
  BY DEF StopStep, StopLock, StopExports, StopCancel, StopQuiet, StopNotify, StopClose,
         StopJoin, flagVars, exportVars
<1>2. pc' = pc \/ (pc = "wait_sleep" /\ pc' = "wait_check")
  BY DEF StopStep, StopLock, StopExports, StopCancel, StopQuiet, StopNotify, StopClose, StopJoin
<1> QED BY <1>1, <1>2

\* The background thread leaves the exports and the flags alone.
LEMMA LoopFrame ==
  ASSUME ClientLoop \/ ManualLoop \/ ManualSend
  PROVE  UNCHANGED <<flagVars, exportVars, outboundClosed, joinable, call, returned>>
  BY DEF ClientLoop, ManualLoop, ManualSend, ManualCheck, ManualPop, Attempt, Connect,
         Announce, CountSuccess, CountReconnect, ServeCheck, Send, Receive, Timers, Cleanup,
         Disconnect, CountDisconnect, Retry, WaitCheck, WaitBlock, WaitTimeout, WaitOver

LEMMA TypesStep ==
  ASSUME ClientTypes, [Next]_vars
  PROVE  ClientTypes'
<1> USE DEF ClientTypes, StopLabels
<1>1. CASE UNCHANGED vars
  BY <1>1 DEF vars, flagVars, linkVars, exportVars, emitVars
<1>2. ASSUME NEW e \in Exports, ExportTopic(e) \/ AddExport(e) \/ MakeFrame(e) \/ EmitStep(e)
      PROVE  ClientTypes'
  <2>1. UNCHANGED <<flagVars, outboundClosed, linkVars, pc, inHand, joinable, call, sent, returned>>
    BY <1>2, ExportFrame
  <2>2. CASE ExportTopic(e) \/ AddExport(e)
    BY <2>1, <2>2 DEF ExportTopic, AddExport, Export, flagVars, linkVars, emitVars
  <2>3. CASE MakeFrame(e)
    <3>1. numbered' = Append(numbered, e) /\ number' = [number EXCEPT ![e] = Len(numbered) + 1]
      BY <2>3 DEF MakeFrame
    <3>2. numbered' \in Seq(Exports) /\ number' \in [Exports -> Nat]
      BY <3>1
    <3> QED BY <2>1, <2>3, <3>2 DEF MakeFrame, At, flagVars, linkVars
  <2>4. CASE EmitStep(e)
    <3>1. stats' \in Counters
      BY <2>4, Counting DEF EmitStep, EmitCheck, EmitPush, EmitCount, NoStats
    <3>2. outbound' \in Seq(Nat)
      <4>1. CASE outbound' = Append(outbound, number[e])
        BY <4>1
      <4>2. CASE outbound' = outbound
        BY <4>2
      <4> QED BY <2>4, <4>1, <4>2 DEF EmitStep, EmitCheck, EmitPush, EmitCount
    <3>3. emitter' \in [Exports -> {"idle", "check", "push", "count"}]
      BY <2>4 DEF EmitStep, EmitCheck, EmitPush, EmitCount, At
    <3> QED BY <2>1, <2>4, <3>1, <3>2, <3>3
            DEF EmitStep, EmitCheck, EmitPush, EmitCount, flagVars, linkVars
  <2> QED BY <1>2, <2>2, <2>3, <2>4
<1>3. ASSUME NEW t \in Threads, StartWorker(t) \/ Stop(t) PROVE ClientTypes'
  <2>1. call' \in [Threads -> StopLabels \cup {"none"}]
    BY <1>3 DEF StartWorker, Stop, Enter
  <2>2. joinable' \in BOOLEAN /\ stopped' = stopped
    BY <1>3 DEF StartWorker, Stop, flagVars
  <2> QED BY <1>3, <2>1, <2>2 DEF StartWorker, Stop, flagVars, linkVars, exportVars, emitVars
<1>4. ASSUME NEW t \in Threads, StopStep(t) PROVE ClientTypes'
  <2>1. call' \in [Threads -> StopLabels \cup {"none"}]
    BY <1>4 DEF StopStep, StopLock, StopExports, StopCancel, StopQuiet, StopNotify, StopClose,
                StopJoin, Enter
  <2>2. stopped' \in BOOLEAN /\ outboundClosed' \in BOOLEAN
    BY <1>4 DEF StopStep, StopLock, StopExports, StopCancel, StopQuiet, StopNotify, StopClose,
                StopJoin, flagVars
  <2>3. joinable' \in BOOLEAN /\ returned' \in BOOLEAN
    BY <1>4 DEF StopStep, StopLock, StopExports, StopCancel, StopQuiet, StopNotify, StopClose,
                StopJoin
  <2>4. exports' \in [Exports -> {"absent", "subscribed", "registered", "refused",
                                  "taken", "quieting", "cancelled"}]
    BY <1>4 DEF StopStep, StopLock, StopExports, StopCancel, StopQuiet, StopNotify, StopClose,
                StopJoin, Export, exportVars
  <2>5. UNCHANGED <<use, emitVars, outbound, linkVars, inHand, stats, sent>>
    BY <1>4, StopFrame
  <2> QED BY <2>1, <2>2, <2>3, <2>4, <2>5 DEF linkVars, emitVars
<1>5. CASE ManualLoop \/ ManualSend
  <2>1. stats' \in Counters
    BY <1>5, Counting DEF ManualLoop, ManualCheck, ManualPop, ManualSend, NoStats
  <2>2. outbound' \in Seq(Nat) /\ sent' \in Seq(Nat) /\ inHand' \in Nat
    <3>1. CASE ManualCheck
      BY <3>1 DEF ManualCheck
    <3>2. CASE ManualPop
      BY <3>2, Popping DEF ManualPop
    <3>3. CASE ManualSend
      <4>1. /\ outbound' = outbound /\ inHand' = 0
            /\ sent' = Append(sent, inHand) \/ sent' = sent
        BY <3>3 DEF ManualSend
      <4>2. Append(sent, inHand) \in Seq(Nat)
        BY Pushing
      <4> QED BY <4>1, <4>2
    <3> QED BY <1>5, <3>1, <3>2, <3>3 DEF ManualLoop
  <2>3. UNCHANGED <<flagVars, exportVars, linkVars, outboundClosed, joinable, call, returned>>
    BY <1>5 DEF ManualLoop, ManualCheck, ManualPop, ManualSend
  <2> QED BY <2>1, <2>2, <2>3 DEF flagVars, linkVars, exportVars, emitVars
<1>6. CASE Send
  <2>1. stats' \in Counters
    BY <1>6, Counting DEF Send, NoStats
  <2>2. outbound' \in Seq(Nat) /\ sent' \in Seq(Nat)
    <3>1. CASE outbound # << >> /\ outbound' = Tail(outbound)
      <4>1. outbound' \in Seq(Nat) /\ Head(outbound) \in Nat
        BY <3>1, Popping
      <4>2. CASE sent' = Append(sent, Head(outbound))
        BY <4>1, <4>2, Pushing
      <4>3. CASE sent' = sent
        BY <4>1, <4>3
      <4> QED BY <1>6, <3>1, <4>2, <4>3 DEF Send
    <3>2. CASE UNCHANGED <<outbound, sent>>
      BY <3>2
    <3> QED BY <1>6, <3>1, <3>2 DEF Send
  <2>3. UNCHANGED <<flagVars, exportVars, linkVars, inHand, outboundClosed, joinable, call, returned>>
    BY <1>6 DEF Send
  <2> QED BY <2>1, <2>2, <2>3 DEF flagVars, linkVars, exportVars, emitVars
<1>7. CASE ClientLoop /\ ~Send
  <2>1. /\ UNCHANGED <<flagVars, exportVars, outbound, outboundClosed, inHand, joinable, call,
                       sent, returned>>
    BY <1>7 DEF ClientLoop, Attempt, Connect, Announce, CountSuccess, CountReconnect, ServeCheck,
                Receive, Timers, Cleanup, Disconnect, CountDisconnect, Retry, WaitCheck,
                WaitBlock, WaitTimeout, WaitOver
  <2>2. stats' \in Counters
    BY <1>7, Counting DEF ClientLoop, Attempt, Connect, Announce, CountSuccess, CountReconnect,
                ServeCheck, Receive, Timers, Cleanup, Disconnect, CountDisconnect, Retry,
                WaitCheck, WaitBlock, WaitTimeout, WaitOver, NoStats
  <2>3. connection' \in BOOLEAN /\ connected' \in BOOLEAN /\ connected_before' \in BOOLEAN
    BY <1>7 DEF ClientLoop, Attempt, Connect, Announce, CountSuccess, CountReconnect, ServeCheck,
                Receive, Timers, Cleanup, Disconnect, CountDisconnect, Retry, WaitCheck,
                WaitBlock, WaitTimeout, WaitOver, linkVars
  <2> QED BY <2>1, <2>2, <2>3 DEF flagVars, exportVars, emitVars
<1> QED BY <1>1, <1>2, <1>3, <1>4, <1>5, <1>6, <1>7 DEF Next

-----------------------------------------------------------------------------
\* The connection and its statistics.
LEMMA LinkedStep ==
  ASSUME ClientTypes, Linked, Stopping, [Next]_vars
  PROVE  Linked'
<1> USE DEF ClientTypes
<1>1. ASSUME UNCHANGED linkVars, SameLink,
             pc' = pc \/ {pc, pc'} \cap (LinkedAt \cup {"announce", "cleanup", "disconnect",
                                                        "count_end"}) = {}
      PROVE  Linked'
  BY <1>1 DEF Linked, LinkedAt, linkVars, SameLink, One
<1>2. CASE UNCHANGED vars
  BY <1>1, <1>2 DEF vars, SameLink
<1>3. ASSUME NEW e \in Exports, ExportTopic(e) \/ AddExport(e) \/ MakeFrame(e) \/ EmitStep(e)
      PROVE  Linked'
  <2>1. SameLink
    BY <1>3, Counting DEF ExportTopic, AddExport, MakeFrame, EmitStep, EmitCheck, EmitPush,
                          EmitCount, SameLink
  <2> QED BY <1>1, <1>3, <2>1, ExportFrame
<1>4. ASSUME NEW t \in Threads, StartWorker(t) PROVE Linked'
  <2>1. UNCHANGED <<linkVars, stats>> /\ pc = "none" /\ pc' \in {"m_check", "check"}
    BY <1>4 DEF StartWorker, Stopping
  <2> QED BY <1>1, <2>1 DEF LinkedAt, SameLink
<1>5. ASSUME NEW t \in Threads, Stop(t) PROVE Linked'
  BY <1>1, <1>5 DEF Stop, SameLink
<1>6. ASSUME NEW t \in Threads, StopStep(t) PROVE Linked'
  BY <1>1, <1>6, StopFrame DEF LinkedAt, SameLink
<1>7. CASE ManualLoop \/ ManualSend
  <2>1. /\ UNCHANGED linkVars
        /\ pc \in {"m_check", "m_pop", "m_send"} /\ pc' \in {"m_check", "m_pop", "m_send", "exit"}
    BY <1>7 DEF ManualLoop, ManualCheck, ManualPop, ManualSend
  <2>2. SameLink
    BY <1>7, Counting DEF ManualLoop, ManualCheck, ManualPop, ManualSend, SameLink
  <2> QED BY <1>1, <2>1, <2>2 DEF LinkedAt
<1>8. CASE Attempt
  <2>1. ~connected /\ ~connection /\ ~connected' /\ UNCHANGED <<connection, connected_before, stats>>
    BY <1>8 DEF Attempt, Linked, LinkedAt
  <2>2. pc = "check" /\ pc' \in {"connect", "exit"}
    BY <1>8 DEF Attempt
  <2> QED BY <2>1, <2>2 DEF Linked, LinkedAt, One
<1>9. CASE Connect
  BY <1>9 DEF Connect, Linked, LinkedAt, One
<1>10. CASE Announce
  <2>1. /\ pc = "announce" /\ pc' = "count_success" /\ connected'
        /\ UNCHANGED <<connection, connected_before, stats>> /\ ~connected /\ connection
    BY <1>10 DEF Announce, Linked, LinkedAt
  <2>2. stats.successful_connections \in Nat /\ stats.disconnects \in Nat
    BY CounterFields
  <2> QED BY <2>1, <2>2 DEF Linked, LinkedAt, One
<1>11. CASE CountSuccess
  <2>1. /\ pc = "count_success" /\ pc' = "count_again" /\ UNCHANGED linkVars /\ connection /\ connected
        /\ stats'.successful_connections = stats.successful_connections + 1
        /\ stats'.reconnects = stats.reconnects /\ stats'.disconnects = stats.disconnects
    BY <1>11, Counting DEF CountSuccess, Linked, LinkedAt
  <2>2. /\ stats.successful_connections \in Nat /\ stats.reconnects \in Nat
        /\ stats.disconnects \in Nat
    BY CounterFields
  <2> QED BY <2>1, <2>2 DEF Linked, LinkedAt, One, linkVars
<1>12. CASE CountReconnect
  <2>1. /\ pc = "count_again" /\ pc' = "serve" /\ UNCHANGED <<connection, connected>>
        /\ connection /\ connected /\ connected_before'
    BY <1>12 DEF CountReconnect, Linked, LinkedAt
  <2>2. /\ stats'.successful_connections = stats.successful_connections
        /\ stats'.disconnects = stats.disconnects
        /\ stats'.reconnects = stats.reconnects + One(connected_before)
    <3>1. CASE connected_before
      BY <1>12, <3>1, Counting DEF CountReconnect, One
    <3>2. CASE ~connected_before
      <4>1. stats.reconnects \in Nat
        BY CounterFields
      <4> QED BY <1>12, <3>2, <4>1 DEF CountReconnect, One
    <3> QED BY <3>1, <3>2
  <2>3. /\ stats.successful_connections \in Nat /\ stats.reconnects \in Nat
        /\ stats.disconnects \in Nat
    BY CounterFields
  <2> QED BY <2>1, <2>2, <2>3 DEF Linked, LinkedAt, One
<1>13. CASE ServeCheck \/ Send \/ Receive \/ Timers
  <2>1. /\ UNCHANGED linkVars
        /\ pc \in {"serve", "send", "receive", "timers"}
        /\ pc' \in {"serve", "send", "receive", "timers", "cleanup"}
    BY <1>13 DEF ServeCheck, Send, Receive, Timers
  <2>2. SameLink
    BY <1>13, Counting DEF ServeCheck, Send, Receive, Timers, SameLink
  <2> QED BY <2>1, <2>2 DEF Linked, LinkedAt, One, linkVars, SameLink
<1>14. CASE Cleanup
  BY <1>14 DEF Cleanup, Linked, LinkedAt, One
<1>15. CASE Disconnect
  <2>1. /\ pc = "disconnect" /\ pc' = (IF connected THEN "count_end" ELSE "retry") /\ ~connected'
        /\ UNCHANGED <<connection, connected_before, stats>> /\ ~connection
    BY <1>15 DEF Disconnect, Linked, LinkedAt
  <2>2. stats.successful_connections \in Nat /\ stats.disconnects \in Nat
    BY CounterFields
  <2> QED BY <2>1, <2>2 DEF Linked, LinkedAt, One
<1>16. CASE CountDisconnect
  <2>1. /\ pc = "count_end" /\ pc' = "retry" /\ UNCHANGED linkVars
        /\ stats'.successful_connections = stats.successful_connections
        /\ stats'.reconnects = stats.reconnects /\ stats'.disconnects = stats.disconnects + 1
    BY <1>16, Counting DEF CountDisconnect
  <2>2. /\ stats.successful_connections \in Nat /\ stats.reconnects \in Nat
        /\ stats.disconnects \in Nat
    BY CounterFields
  <2> QED BY <2>1, <2>2 DEF Linked, LinkedAt, One, linkVars
<1>17. CASE Retry \/ WaitCheck \/ WaitBlock \/ WaitTimeout \/ WaitOver
  <2>1. /\ UNCHANGED <<linkVars, stats>>
        /\ pc \in {"retry", "wait_check", "wait_block", "wait_sleep", "waited"}
        /\ pc' \in {"check", "wait_check", "wait_block", "wait_sleep", "waited"}
    BY <1>17 DEF Retry, WaitCheck, WaitBlock, WaitTimeout, WaitOver
  <2> QED BY <1>1, <2>1 DEF LinkedAt, SameLink
<1> QED BY <1>2, <1>3, <1>4, <1>5, <1>6, <1>7, <1>8, <1>9, <1>10, <1>11, <1>12, <1>13, <1>14,
           <1>15, <1>16, <1>17 DEF Next, ClientLoop

-----------------------------------------------------------------------------
\* Two calls of stop() exclude each other, and each finds what the one before
\* it has done.
LEMMA StoppingStep ==
  ASSUME ClientTypes, ClientTypes', Linked, Stopping, Cancelling, [Next]_vars
  PROVE  Stopping'
<1> USE DEF ClientTypes
<1>1. ASSUME UNCHANGED <<flagVars, outboundClosed, joinable, call, returned>>,
             pc' = pc \/ pc \notin {"none", "exit"},
             Emptied => \A e \in Exports : exports'[e] = exports[e]
                                           \/ exports'[e] \in {"subscribed", "refused"}
      PROVE  Stopping'
  <2>1. pc' = pc \/ (mode # "Unconfigured" /\ joinable /\ ~returned)
    BY <1>1 DEF Stopping
  <2>2. (Emptied => Emptied') /\ (Quieted => Quieted') /\ (Closed => Closed')
    BY <1>1 DEF Closed, Quieted, Emptied, flagVars
  <2> QED BY <1>1, <2>1, <2>2 DEF Stopping, flagVars
<1>2. CASE UNCHANGED vars
  BY <1>1, <1>2 DEF vars, exportVars
<1>3. ASSUME NEW e \in Exports, ExportTopic(e) \/ AddExport(e) \/ MakeFrame(e) \/ EmitStep(e)
      PROVE  Stopping'
  <2>1. Emptied => \A f \in Exports : exports'[f] = exports[f]
                                      \/ exports'[f] \in {"subscribed", "refused"}
    <3> SUFFICES ASSUME Emptied, NEW f \in Exports
                 PROVE  exports'[f] = exports[f] \/ exports'[f] \in {"subscribed", "refused"}
      OBVIOUS
    <3>1. CASE ExportTopic(e)
      BY <3>1 DEF ExportTopic, Export
    <3>2. CASE AddExport(e)
      BY <3>2 DEF AddExport, Export, Emptied
    <3>3. CASE MakeFrame(e) \/ EmitStep(e)
      BY <3>3 DEF MakeFrame, EmitStep, EmitCheck, EmitPush, EmitCount
    <3> QED BY <1>3, <3>1, <3>2, <3>3
  <2> QED BY <1>1, <1>3, <2>1, ExportFrame
<1>4. ASSUME NEW t \in Threads, Stop(t) PROVE Stopping'
  <2>1. /\ UNCHANGED <<flagVars, exports, outboundClosed, pc, joinable, returned>>
        /\ call[t] = "none" /\ call' = [call EXCEPT ![t] = "st_lock"]
    BY <1>4 DEF Stop, Enter, exportVars
  <2>2. \A u \in Threads : call'[u] = call[u] \/ {call[u], call'[u]} \subseteq {"none", "st_lock"}
    BY <2>1
  <2>3. (Emptied <=> Emptied') /\ (Quieted <=> Quieted') /\ (Closed <=> Closed')
    BY <2>1 DEF Emptied, Quieted, Closed, flagVars
  <2> QED BY <2>1, <2>2, <2>3 DEF Stopping, HoldingLabels, flagVars
<1>5. ASSUME NEW t \in Threads, StartWorker(t) PROVE Stopping'
  <2>1. /\ UNCHANGED <<stopped, stop_mutex, exports, outboundClosed, call, returned>>
        /\ stop_mutex = NoThread /\ ~stopped /\ joinable'
        /\ mode' = use.mode
    BY <1>5 DEF StartWorker, exportVars
  <2>2. mode' # "Unconfigured"
    BY <2>1, UsesAssumption
  <2>3. /\ ~returned
        /\ \A u \in Threads : call[u] \notin HoldingLabels
    BY <2>1, ThreadAssumption DEF Stopping, Closed, Quieted, Emptied, Threads
  <2> QED BY <2>1, <2>2, <2>3, ThreadAssumption DEF Stopping, HoldingLabels, Threads
<1>6. ASSUME NEW t \in Threads, StopLock(t) PROVE Stopping'
  <2>1. /\ UNCHANGED <<mode, exports, outboundClosed, pc, joinable, returned>>
        /\ stop_mutex = NoThread /\ stop_mutex' = t /\ stopped' = TRUE
        /\ call' = [call EXCEPT ![t] = IF stopped THEN "st_join" ELSE "st_exports"]
    BY <1>6 DEF StopLock, Enter, exportVars
  <2>2. \A u \in Threads : call[u] \notin HoldingLabels
    BY <2>1, ThreadAssumption DEF Stopping, Threads
  <2>3. /\ \A u \in Threads : u # t => call'[u] = call[u]
        /\ call'[t] = IF stopped THEN "st_join" ELSE "st_exports"
    BY <2>1
  <2>4. /\ Closed => Closed'
        /\ stopped => Closed'
    BY <2>1 DEF Stopping, Closed, Quieted, Emptied
  <2> QED BY <2>1, <2>2, <2>3, <2>4, ThreadAssumption DEF Stopping, HoldingLabels, Threads
<1>7. ASSUME NEW t \in Threads,
             StopExports(t) \/ StopCancel(t) \/ StopQuiet(t) \/ StopNotify(t) \/ StopClose(t)
      PROVE  Stopping'
  <2>1. /\ UNCHANGED <<stopped, stop_mutex, joinable, returned>>
        /\ call[t] \in {"st_exports", "st_cancel", "st_quiet", "st_notify", "st_close"}
        /\ \E l \in {"st_cancel", "st_quiet", "st_notify", "st_close", "st_join"} :
              call' = [call EXCEPT ![t] = l]
        /\ pc' = pc \/ (pc = "wait_sleep" /\ pc' = "wait_check")
        /\ mode' = mode \/ mode' = "Stopped"
    BY <1>7 DEF StopExports, StopCancel, StopQuiet, StopNotify, StopClose, Enter, flagVars
  <2>2. stop_mutex = t /\ \A u \in Threads : u # t => call[u] \notin HoldingLabels
    BY <2>1 DEF Stopping, HoldingLabels
  <2>3. /\ \A u \in Threads : u # t => call'[u] = call[u]
        /\ call'[t] \in {"st_cancel", "st_quiet", "st_notify", "st_close", "st_join"}
    BY <2>1
  <2>4. /\ Emptied'
        /\ call'[t] \in {"st_notify", "st_close"} => Quieted'
        /\ call'[t] = "st_join" => Closed'
    <3>1. CASE StopExports(t)
      <4>1. stopped' /\ mode' = "Stopped" /\ call'[t] = "st_cancel"
        BY <3>1 DEF StopExports, Stopping, Enter
      <4>2. \A e \in Exports : exports'[e] # "registered"
        BY <3>1 DEF StopExports
      <4> QED BY <4>1, <4>2 DEF Emptied
    <3>2. CASE StopCancel(t)
      <4>1. Emptied /\ UNCHANGED <<stopped, mode>> /\ call'[t] \in {"st_quiet", "st_notify"}
        BY <3>2 DEF StopCancel, Stopping, Enter, flagVars
      <4>2. \A e \in Exports : exports[e] # "quieting"
        <5>1. \A u \in Threads : call[u] # "st_quiet"
          BY <2>2, <3>2 DEF StopCancel, HoldingLabels
        <5> QED BY <5>1 DEF Cancelling
      <4>3. \A e \in Exports : exports'[e] # "registered"
        BY <3>2, <4>1 DEF StopCancel, Export, Emptied
      <4>4. call'[t] = "st_notify" => UNCHANGED exports /\ \A e \in Exports : exports[e] # "taken"
        BY <3>2 DEF StopCancel, Enter
      <4> QED BY <4>1, <4>2, <4>3, <4>4 DEF Emptied, Quieted
    <3>3. CASE StopQuiet(t)
      <4>1. Emptied /\ UNCHANGED <<stopped, mode>> /\ call'[t] = "st_cancel"
        BY <3>3 DEF StopQuiet, Stopping, Enter, flagVars
      <4>2. \A e \in Exports : exports'[e] # "registered"
        BY <3>3, <4>1 DEF StopQuiet, Export, Emptied
      <4> QED BY <4>1, <4>2 DEF Emptied
    <3>4. CASE StopNotify(t)
      BY <3>4 DEF StopNotify, Stopping, Emptied, Quieted, Closed, Enter, exportVars
    <3>5. CASE StopClose(t)
      BY <3>5 DEF StopClose, Stopping, Emptied, Quieted, Closed, Enter, flagVars, exportVars
    <3> QED BY <1>7, <3>1, <3>2, <3>3, <3>4, <3>5
  <2>5. Closed => Closed'
    <3> SUFFICES ASSUME Closed PROVE Closed'
      OBVIOUS
    <3>1. outboundClosed'
      BY <1>7 DEF Closed, StopExports, StopCancel, StopQuiet, StopNotify, StopClose
    <3>2. \A e \in Exports : exports'[e] \notin {"taken", "quieting"}
      <4>1. \A e \in Exports : exports[e] \notin {"taken", "quieting", "registered"}
        BY DEF Closed, Quieted, Emptied
      <4> QED BY <1>7, <4>1 DEF StopExports, StopCancel, StopQuiet, StopNotify, StopClose, Export,
                 exportVars
    <3> QED BY <2>4, <3>1, <3>2 DEF Closed, Quieted
  <2>6. stop_mutex' # NoThread /\ (mode' = "Unconfigured" => mode = "Unconfigured")
    BY <2>1, <2>2, ThreadAssumption DEF Threads
  <2>7. returned' => pc' \in {"none", "exit"}
    BY <2>1 DEF Stopping
  <2> QED BY <2>1, <2>2, <2>3, <2>4, <2>5, <2>6, <2>7 DEF Stopping, HoldingLabels, Emptied
<1>8. ASSUME NEW t \in Threads, StopJoin(t) PROVE Stopping'
  <2>1. /\ UNCHANGED <<mode, stopped, exports, outboundClosed, pc>>
        /\ call[t] = "st_join" /\ call' = [call EXCEPT ![t] = "none"]
        /\ stop_mutex' = NoThread
        /\ joinable /\ t # io => pc = "exit"
        /\ joinable' = (joinable /\ t = io)
        /\ returned' = (returned \/ t # io)
    BY <1>8 DEF StopJoin, Enter, exportVars
  <2>2. Closed /\ Closed'
    BY <2>1 DEF Stopping, Closed, Quieted, Emptied
  <2>3. \A u \in Threads : u # t => call[u] \notin HoldingLabels
    BY <2>1 DEF Stopping, HoldingLabels
  <2>4. /\ ~joinable' => pc' \in {"none", "exit"}
        /\ returned' => pc' \in {"none", "exit"}
    BY <2>1 DEF Stopping
  <2>5. \A u \in Threads : call'[u] \notin HoldingLabels /\ stop_mutex' # u
    BY <2>1, <2>3, ThreadAssumption DEF HoldingLabels, Threads
  <2>6. mode' = "Unconfigured" => pc' = "none"
    BY <2>2 DEF Closed, Quieted, Emptied
  <2> QED BY <2>2, <2>4, <2>5, <2>6 DEF Stopping, HoldingLabels
<1>9. CASE ClientLoop \/ ManualLoop \/ ManualSend
  <2>1. UNCHANGED <<flagVars, exports, outboundClosed, joinable, call, returned>>
    BY <1>9, LoopFrame DEF exportVars
  <2>2. pc \notin {"none", "exit"}
    BY <1>9 DEF ClientLoop, ManualLoop, ManualSend, ManualCheck, ManualPop, Attempt, Connect,
         Announce, CountSuccess, CountReconnect, ServeCheck, Send, Receive, Timers, Cleanup,
         Disconnect, CountDisconnect, Retry, WaitCheck, WaitBlock, WaitTimeout, WaitOver
  <2> QED BY <1>1, <2>1, <2>2
<1> QED BY <1>2, <1>3, <1>4, <1>5, <1>6, <1>7, <1>8, <1>9 DEF Next, StopStep

\* One export at a time is waited for, and a cancelled one stays at rest.
LEMMA CancellingStep ==
  ASSUME ClientTypes, ClientTypes', Stopping, Cancelling, [Next]_vars
  PROVE  Cancelling'
<1> USE DEF ClientTypes
<1>1. CASE UNCHANGED <<exports, emitter, call>>
  BY <1>1 DEF Cancelling
<1>2. ASSUME NEW e \in Exports, ExportTopic(e) \/ AddExport(e) PROVE Cancelling'
  <2>1. /\ UNCHANGED <<emitter, call>>
        /\ exports' = [exports EXCEPT ![e] = exports'[e]]
        /\ exports'[e] \in {"subscribed", "registered", "refused"}
    BY <1>2, ExportFrame DEF ExportTopic, AddExport, Export, emitVars
  <2> QED BY <2>1 DEF Cancelling
<1>3. ASSUME NEW e \in Exports, MakeFrame(e) \/ EmitStep(e) PROVE Cancelling'
  <2>1. /\ UNCHANGED <<exports, call>> /\ exports[e] # "cancelled"
        /\ \A f \in Exports : f # e => emitter'[f] = emitter[f]
    <3>1. CASE MakeFrame(e)
      BY <3>1 DEF MakeFrame, At, Subscribed
    <3>2. CASE EmitStep(e)
      BY <3>2 DEF EmitStep, EmitCheck, EmitPush, EmitCount, At, Cancelling
    <3> QED BY <1>3, <3>1, <3>2
  <2> QED BY <2>1 DEF Cancelling
<1>4. ASSUME NEW t \in Threads, StartWorker(t) PROVE Cancelling'
  BY <1>1, <1>4 DEF StartWorker, exportVars, emitVars
<1>5. ASSUME NEW t \in Threads, Stop(t) \/ StopStep(t) PROVE Cancelling'
  <2>1. UNCHANGED emitter
    BY <1>5, StopFrame DEF Stop, exportVars, emitVars
  <2>2. \A u \in Threads : u # t => call'[u] = call[u]
    BY <1>5 DEF Stop, StopStep, StopLock, StopExports, StopCancel, StopQuiet, StopNotify, StopClose,
                StopJoin, Enter
  <2>3. CASE UNCHANGED exports /\ call[t] # "st_quiet"
    <3>1. \A u \in Threads : call[u] = "st_quiet" => call'[u] = "st_quiet"
      BY <2>2, <2>3
    <3> QED BY <2>1, <2>3, <3>1 DEF Cancelling
  <2>4. CASE StopExports(t)
    <3>1. \A u \in Threads : call[u] = "st_quiet" => call'[u] = "st_quiet"
      BY <2>2, <2>4 DEF StopExports
    <3>2. \A e \in Exports : /\ exports'[e] = "quieting" => exports[e] = "quieting"
                             /\ exports'[e] = "cancelled" => exports[e] = "cancelled"
      BY <2>4 DEF StopExports
    <3> QED BY <2>1, <3>1, <3>2 DEF Cancelling
  <2>5. CASE StopCancel(t) /\ ~UNCHANGED exports
    <3>1. PICK e \in Exports : /\ exports' = [exports EXCEPT ![e] = "quieting"]
                               /\ call'[t] = "st_quiet"
      BY <2>5 DEF StopCancel, Export, Enter
    <3>2. \A f \in Exports : exports[f] # "quieting"
      <4>1. stop_mutex = t
        BY <2>5 DEF StopCancel, Stopping, HoldingLabels
      <4>2. \A u \in Threads : call[u] # "st_quiet"
        BY <2>5, <4>1 DEF StopCancel, Stopping, HoldingLabels
      <4> QED BY <4>2 DEF Cancelling
    <3>3. \A f \in Exports : /\ exports'[f] = "quieting" <=> f = e
                             /\ exports'[f] = "cancelled" => exports[f] = "cancelled"
      BY <3>1, <3>2
    <3> QED BY <2>1, <3>1, <3>3 DEF Cancelling
  <2>6. CASE StopQuiet(t)
    <3>1. PICK e \in Exports : /\ exports[e] = "quieting" /\ emitter[e] = "idle"
                               /\ exports' = [exports EXCEPT ![e] = "cancelled"]
      BY <2>6 DEF StopQuiet, Export
    <3>2. \A f \in Exports : /\ exports'[f] # "quieting"
                             /\ exports'[f] = "cancelled" => f = e \/ exports[f] = "cancelled"
      BY <3>1 DEF Cancelling
    <3> QED BY <2>1, <3>1, <3>2 DEF Cancelling
  <2> QED BY <1>5, <2>3, <2>4, <2>5, <2>6
          DEF Stop, StopStep, StopLock, StopCancel, StopNotify, StopClose, StopJoin, exportVars
<1>6. CASE ClientLoop \/ ManualLoop \/ ManualSend
  BY <1>1, <1>6, LoopFrame DEF exportVars, emitVars
<1>7. CASE UNCHANGED vars
  BY <1>1, <1>7 DEF vars, exportVars, emitVars
<1> QED BY <1>2, <1>3, <1>4, <1>5, <1>6, <1>7 DEF Next

-----------------------------------------------------------------------------
(* What happens to the line of frames *)

\* A number more: what is in line stays in order, and the new frame is behind.
LEMMA LineNumbered ==
  ASSUME NEW n \in Seq(Exports), NEW e \in Exports,
         NEW a \in Seq(Nat), NEW o \in Seq(Nat), NEW h \in Nat, InLine(n, a, h, o)
  PROVE  /\ InLine(Append(n, e), a, h, o)
         /\ Behind(Append(n, e), a, h, o, Len(n) + 1)
         /\ \A x \in 1..Len(n) : Behind(n, a, h, o, x) => Behind(Append(n, e), a, h, o, x)
<1> DEFINE m == Append(n, e)
<1>1. Len(m) = Len(n) + 1 /\ Len(n) \in Nat /\ \A x \in 1..Len(n) : m[x] = n[x]
  OBVIOUS
<1> HIDE DEF m
<1>2. \A x, y \in 1..Len(n) : Before(n, x, y) => Before(m, x, y)
  BY <1>1 DEF Before
<1>3. \A x \in 1..Len(n) : x \in 1..Len(m) /\ x \in 0..Len(m) /\ Before(m, x, Len(n) + 1)
  BY <1>1 DEF Before
<1>4. /\ \A i \in 1..Len(a) : a[i] \in 1..Len(n)
      /\ \A i \in 1..Len(o) : o[i] \in 1..Len(n)
      /\ h \in 0..Len(n) /\ (h # 0 => h \in 1..Len(n))
  BY <1>1 DEF InLine
<1>5. h \in 0..Len(m)
  BY <1>1, <1>4
<1>6. InLine(m, a, h, o)
  BY <1>2, <1>3, <1>4, <1>5 DEF InLine
<1>7. Behind(m, a, h, o, Len(n) + 1)
  BY <1>3, <1>4 DEF Behind
<1>8. \A x \in 1..Len(n) : Behind(n, a, h, o, x) => Behind(m, a, h, o, x)
  BY <1>2, <1>4 DEF Behind
<1> QED BY <1>6, <1>7, <1>8 DEF m

LEMMA LinePushed ==
  ASSUME NEW n \in Seq(Exports), NEW a \in Seq(Nat), NEW o \in Seq(Nat), NEW h \in Nat,
         NEW x \in 1..Len(n), InLine(n, a, h, o), Behind(n, a, h, o, x)
  PROVE  /\ InLine(n, a, h, Append(o, x))
         /\ \A y : Behind(n, a, h, o, y) /\ Before(n, x, y) => Behind(n, a, h, Append(o, x), y)
<1> DEFINE q == Append(o, x)
<1>1. /\ Len(q) = Len(o) + 1 /\ Len(o) \in Nat /\ q[Len(o) + 1] = x
      /\ \A i \in 1..Len(o) : q[i] = o[i]
  BY Pushing
<1> HIDE DEF q
<1>2. \A i \in 1..Len(q) : (i = Len(o) + 1 /\ q[i] = x) \/ (i \in 1..Len(o) /\ q[i] = o[i])
  BY <1>1
<1>3. \A i, j \in 1..Len(q) : i < j => Before(n, q[i], q[j])
  <2> SUFFICES ASSUME NEW i \in 1..Len(q), NEW j \in 1..Len(q), i < j
               PROVE  Before(n, q[i], q[j])
    OBVIOUS
  <2>1. i \in 1..Len(o) /\ q[i] = o[i]
    BY <1>1, <1>2
  <2> QED BY <1>2, <2>1 DEF InLine, Behind
<1>4. InLine(n, a, h, q)
  BY <1>2, <1>3 DEF InLine, Behind
<1>5. \A y : Behind(n, a, h, o, y) /\ Before(n, x, y) => Behind(n, a, h, q, y)
  BY <1>2 DEF Behind
<1> QED BY <1>4, <1>5 DEF q

LEMMA LineTaken ==
  ASSUME NEW n \in Seq(Exports), NEW a \in Seq(Nat), NEW o \in Seq(Nat), o # << >>,
         InLine(n, a, 0, o)
  PROVE  /\ Head(o) # 0 /\ InLine(n, a, Head(o), Tail(o))
         /\ \A y : Behind(n, a, 0, o, y) => Behind(n, a, Head(o), Tail(o), y)
<1> DEFINE q == Tail(o)
           h == Head(o)
<1>1. /\ h = o[1] /\ Len(o) \in Nat \ {0} /\ Len(q) = Len(o) - 1
      /\ \A i \in 1..(Len(o) - 1) : q[i] = o[i + 1]
  BY Popping
<1> HIDE DEF q, h
<1>2. 1 \in 1..Len(o) /\ \A i \in 1..Len(q) : i + 1 \in 1..Len(o) /\ 1 < i + 1 /\ q[i] = o[i + 1]
  BY <1>1
<1>3. h \in 1..Len(n) /\ \A i \in 1..Len(q) : q[i] \in 1..Len(n)
  BY <1>1, <1>2 DEF InLine
<1>4. h # 0 /\ h \in 0..Len(n)
  BY <1>3
<1>5. \A i, j \in 1..Len(q) : i < j => Before(n, q[i], q[j])
  <2> TAKE i, j \in 1..Len(q)
  <2> HAVE i < j
  <2>1. i + 1 \in 1..Len(o) /\ j + 1 \in 1..Len(o) /\ i + 1 < j + 1
    BY <1>2
  <2> QED BY <1>2, <2>1 DEF InLine
<1>6. \A i \in 1..Len(a), j \in 1..Len(q) : Before(n, a[i], q[j])
  BY <1>2 DEF InLine
<1>7. /\ \A i \in 1..Len(a) : Before(n, a[i], h)
      /\ \A i \in 1..Len(q) : Before(n, h, q[i])
  BY <1>1, <1>2 DEF InLine
<1>8. InLine(n, a, h, q)
  BY <1>3, <1>4, <1>5, <1>6, <1>7 DEF InLine
<1>9. \A y : Behind(n, a, 0, o, y) => Behind(n, a, h, q, y)
  BY <1>1, <1>2 DEF Behind
<1> QED BY <1>4, <1>8, <1>9 DEF q, h

LEMMA LineSent ==
  ASSUME NEW n \in Seq(Exports), NEW a \in Seq(Nat), NEW o \in Seq(Nat), NEW h \in Nat, h # 0,
         InLine(n, a, h, o)
  PROVE  /\ InLine(n, Append(a, h), 0, o)
         /\ \A y : Behind(n, a, h, o, y) => Behind(n, Append(a, h), 0, o, y)
<1> DEFINE q == Append(a, h)
<1>1. /\ Len(q) = Len(a) + 1 /\ Len(a) \in Nat /\ q[Len(a) + 1] = h
      /\ \A i \in 1..Len(a) : q[i] = a[i]
  BY Pushing
<1> HIDE DEF q
<1>2. \A i \in 1..Len(q) : (i = Len(a) + 1 /\ q[i] = h) \/ (i \in 1..Len(a) /\ q[i] = a[i])
  BY <1>1
<1>3. Len(n) \in Nat /\ 0 \in 0..Len(n)
  OBVIOUS
<1>4. h \in 1..Len(n)
  BY <1>3 DEF InLine
<1>5. \A i, j \in 1..Len(q) : i < j => Before(n, q[i], q[j])
  <2> SUFFICES ASSUME NEW i \in 1..Len(q), NEW j \in 1..Len(q), i < j
               PROVE  Before(n, q[i], q[j])
    OBVIOUS
  <2>1. i \in 1..Len(a) /\ q[i] = a[i]
    BY <1>1, <1>2
  <2> QED BY <1>2, <2>1 DEF InLine
<1>6. \A i \in 1..Len(q), j \in 1..Len(o) : Before(n, q[i], o[j])
  BY <1>2 DEF InLine
<1>7. InLine(n, q, 0, o)
  BY <1>2, <1>3, <1>4, <1>5, <1>6 DEF InLine
<1>8. \A y : Behind(n, a, h, o, y) => Behind(n, q, 0, o, y)
  BY <1>2 DEF Behind
<1> QED BY <1>7, <1>8 DEF q

LEMMA LineLost ==
  ASSUME NEW n \in Seq(Exports), NEW a, NEW o, NEW h, InLine(n, a, h, o)
  PROVE  /\ InLine(n, a, 0, o)
         /\ \A y : Behind(n, a, h, o, y) => Behind(n, a, 0, o, y)
<1>1. 0 \in 0..Len(n)
  OBVIOUS
<1> QED BY <1>1 DEF InLine, Behind

\* What is in line is in order from end to end.
LEMMA LineAscends ==
  ASSUME NEW n \in Seq(Exports), NEW a \in Seq(Nat), NEW o \in Seq(Nat), NEW h \in Nat,
         InLine(n, a, h, o)
  PROVE  LET line == a \o (IF h = 0 THEN << >> ELSE <<h>>) \o o IN
         /\ \A i, j \in DOMAIN line : i < j => Before(n, line[i], line[j])
         /\ Len(line) = Len(a) + (IF h = 0 THEN 0 ELSE 1) + Len(o)
<1> DEFINE m == IF h = 0 THEN << >> ELSE <<h>>
           k == IF h = 0 THEN 0 ELSE 1
           b == a \o m
           line == b \o o
           A == Len(a)
<1>1. m \in Seq(Nat) /\ Len(m) = k /\ (h # 0 => m[1] = h) /\ k \in {0, 1}
  <2>1. CASE h = 0
    BY <2>1
  <2>2. CASE h # 0
    BY <2>2
  <2> QED BY <2>1, <2>2
<1>2. k = 1 => h # 0
  OBVIOUS
<1> HIDE DEF m, k
<1>0. /\ A \in Nat /\ Len(o) \in Nat
      /\ b \in Seq(Nat) /\ Len(b) = A + k
      /\ \A i \in 1..A : b[i] = a[i]
      /\ k = 1 => b[A + 1] = h
  BY <1>1, <1>2
<1> HIDE DEF b
<1>3. /\ line \in Seq(Nat) /\ Len(line) = A + k + Len(o)
      /\ DOMAIN line = 1..(A + k + Len(o))
      /\ \A i \in 1..(A + k) : line[i] = b[i]
      /\ \A i \in 1..Len(o) : line[A + k + i] = o[i]
  <2>1. line \in Seq(Nat) /\ Len(line) = Len(b) + Len(o)
    BY <1>0, Joining
  <2>2. /\ \A i \in 1..Len(b) : line[i] = b[i]
        /\ \A i \in 1..Len(o) : line[Len(b) + i] = o[i]
    BY <1>0
  <2>3. DOMAIN line = 1..(A + k + Len(o))
    BY <1>0, <2>1
  <2> QED BY <1>0, <2>1, <2>2, <2>3
<1> HIDE DEF line
<1>4. \A i \in DOMAIN line :
         \/ i \in 1..A /\ line[i] = a[i]
         \/ k = 1 /\ i = A + 1 /\ line[i] = h
         \/ i - A - k \in 1..Len(o) /\ line[i] = o[i - A - k]
  <2> TAKE i \in DOMAIN line
  <2>0. i \in 1..(A + k + Len(o)) /\ k \in Nat
    BY <1>1, <1>3
  <2>1. CASE i <= A
    <3>1. i \in 1..A /\ i \in 1..(A + k)
      BY <1>0, <2>0, <2>1
    <3> QED BY <1>0, <1>3, <3>1
  <2>2. CASE i > A /\ i <= A + k
    <3>1. k = 1 /\ i = A + 1 /\ i \in 1..(A + k)
      BY <1>1, <1>0, <2>0, <2>2
    <3> QED BY <1>0, <1>3, <3>1
  <2>3. CASE i > A + k
    <3>1. PICK l \in Nat : l = Len(o)
      BY <1>0
    <3>2. A \in Nat /\ i \in 1..(A + k + l)
      BY <1>0, <2>0, <3>1
    <3> HIDE DEF A
    <3>3. i - A - k \in 1..l /\ A + k + (i - A - k) = i
      BY <2>0, <2>3, <3>2
    <3> QED BY <1>3, <3>1, <3>3
  <2> QED BY <1>0, <2>0, <2>1, <2>2, <2>3
<1>5. /\ \A i \in 1..A : a[i] \in Nat
      /\ \A i \in 1..Len(o) : o[i] \in Nat
  OBVIOUS
<1>6. \A i, j \in DOMAIN line : i < j => Before(n, line[i], line[j])
  <2> SUFFICES ASSUME NEW i \in DOMAIN line, NEW j \in DOMAIN line, i < j
               PROVE  Before(n, line[i], line[j])
    OBVIOUS
  <2>0. i \in Nat /\ j \in Nat /\ k \in Nat /\ A \in Nat /\ Len(o) \in Nat
    <3>1. k \in Nat
      BY <1>1
    <3>2. A \in Nat /\ Len(o) \in Nat
      BY <1>0
    <3>3. i \in 1..(A + k + Len(o)) /\ j \in 1..(A + k + Len(o))
      BY <1>3
    <3> QED BY ONLY <3>1, <3>2, <3>3
  <2>1. CASE i \in 1..A /\ line[i] = a[i]
    <3>1. CASE j \in 1..A /\ line[j] = a[j]
      BY <2>1, <3>1 DEF InLine
    <3>2. CASE k = 1 /\ line[j] = h
      BY <1>2, <2>1, <3>2 DEF InLine
    <3>3. CASE j - A - k \in 1..Len(o) /\ line[j] = o[j - A - k]
      BY <2>1, <3>3 DEF InLine
    <3> QED BY <1>4, <3>1, <3>2, <3>3
  <2>2. CASE k = 1 /\ i = A + 1 /\ line[i] = h
    <3>1. j - A - k \in 1..Len(o) /\ line[j] = o[j - A - k]
      <4>1. j \notin 1..A /\ j # A + 1
        BY <2>0, <2>2
      <4> QED BY <1>4, <4>1
    <3> QED BY <1>2, <2>2, <3>1 DEF InLine
  <2>3. CASE i - A - k \in 1..Len(o) /\ line[i] = o[i - A - k]
    <3>1. j - A - k \in 1..Len(o) /\ line[j] = o[j - A - k]
      <4>1. j \notin 1..A /\ (k = 1 => j # A + 1)
        BY <2>0, <2>3
      <4> QED BY <1>4, <4>1
    <3>2. i - A - k < j - A - k
      BY <2>0
    <3> QED BY <2>3, <3>1, <3>2 DEF InLine
  <2> QED BY <1>4, <2>1, <2>2, <2>3
<1> QED BY <1>3, <1>6 DEF line, b, m, k

-----------------------------------------------------------------------------
\* How many frames wait to be counted, as the callbacks move on.
LEMMA UncountedMoves ==
  ASSUME ClientTypes, NEW e \in Exports, NEW label, emitter' = [emitter EXCEPT ![e] = label]
  PROVE  /\ Uncounted \in Nat
         /\ emitter[e] # "count" /\ label # "count" => Uncounted' = Uncounted
         /\ emitter[e] # "count" /\ label = "count" => Uncounted' = Uncounted + 1
         /\ emitter[e] = "count" /\ label # "count" => Uncounted' = Uncounted - 1
<1> DEFINE U == {f \in Exports : emitter[f] = "count"}
           V == {f \in Exports : emitter'[f] = "count"}
<1>1. IsFiniteSet(U)
  BY ExportsAssumption, FS_Subset
<1>2. Uncounted = Cardinality(U) /\ Uncounted' = Cardinality(V) /\ Cardinality(U) \in Nat
  BY <1>1, FS_CardinalityType DEF Uncounted
<1>3. \A f \in Exports : f # e => emitter'[f] = emitter[f]
  BY DEF ClientTypes
<1>4. emitter'[e] = label
  BY DEF ClientTypes
<1>5. CASE emitter[e] # "count" /\ label # "count"
  <2>1. V = U
    BY <1>3, <1>4, <1>5
  <2> QED BY <1>2, <1>5, <2>1
<1>6. CASE emitter[e] # "count" /\ label = "count"
  <2>1. V = U \cup {e} /\ e \notin U
    BY <1>3, <1>4, <1>6
  <2> QED BY <1>1, <1>2, <1>6, <2>1, FS_AddElement
<1>7. CASE emitter[e] = "count" /\ label # "count"
  <2>1. V = U \ {e} /\ e \in U
    BY <1>3, <1>4, <1>7
  <2> QED BY <1>1, <1>2, <1>7, <2>1, FS_RemoveElement
<1> QED BY <1>2, <1>5, <1>6, <1>7

\* The numbers and their order, as a callback moves on.
LEMMA NumberingStep ==
  ASSUME ClientTypes, Lined, NEW e \in Exports, MakeFrame(e) \/ EmitStep(e)
  PROVE  InLine(numbered', sent', inHand', outbound') /\ Numbering'
<1> USE DEF ClientTypes
<1>1. InLine(numbered, sent, inHand, outbound) /\ Numbering
  BY DEF Lined
<1>2. UNCHANGED <<sent, inHand>>
  BY DEF MakeFrame, EmitStep, EmitCheck, EmitPush, EmitCount
<1>3. CASE MakeFrame(e)
  <2>1. /\ numbered' = Append(numbered, e) /\ number' = [number EXCEPT ![e] = Len(numbered) + 1]
        /\ emitter' = [emitter EXCEPT ![e] = "check"] /\ UNCHANGED outbound
    BY <1>3 DEF MakeFrame, At
  <2>2. /\ Len(numbered') = Len(numbered) + 1 /\ Len(numbered) \in Nat
        /\ numbered'[Len(numbered) + 1] = e
        /\ \A x \in 1..Len(numbered) : numbered'[x] = numbered[x] /\ x \in 1..Len(numbered')
    BY <2>1
  <2>3. /\ InLine(numbered', sent, inHand, outbound)
        /\ Behind(numbered', sent, inHand, outbound, Len(numbered) + 1)
        /\ \A x \in 1..Len(numbered) : Behind(numbered, sent, inHand, outbound, x)
                                         => Behind(numbered', sent, inHand, outbound, x)
    BY <1>1, <2>1, LineNumbered
  <2>4. ASSUME NEW f \in Exports
        PROVE  /\ emitter'[f] # "idle" => /\ number'[f] \in 1..Len(numbered')
                                          /\ numbered'[number'[f]] = f
               /\ emitter'[f] \in {"check", "push"}
                    => Behind(numbered', sent, inHand, outbound, number'[f])
    <3>1. CASE f = e
      <4>1. number'[f] = Len(numbered) + 1 /\ Len(numbered) + 1 \in 1..Len(numbered')
        BY <2>1, <2>2, <3>1
      <4> QED BY <2>2, <2>3, <3>1, <4>1
    <3>2. CASE f # e
      <4>1. number'[f] = number[f] /\ emitter'[f] = emitter[f]
        BY <2>1, <3>2
      <4>2. emitter[f] # "idle" => number[f] \in 1..Len(numbered) /\ numbered[number[f]] = f
        BY <1>1 DEF Numbering
      <4>3. emitter[f] \in {"check", "push"} => Behind(numbered, sent, inHand, outbound, number[f])
        BY <1>1 DEF Numbering
      <4> QED BY <2>2, <2>3, <4>1, <4>2, <4>3
    <3> QED BY <3>1, <3>2
  <2> QED BY <1>2, <2>1, <2>3, <2>4 DEF Numbering
<1>4. CASE EmitStep(e) /\ outbound' = outbound
  <2>1. /\ UNCHANGED <<numbered, number>>
        /\ \A f \in Exports : f # e => emitter'[f] = emitter[f]
        /\ emitter[e] # "idle" /\ emitter'[e] \in {"idle", "push", "count"}
        /\ emitter'[e] = "push" => emitter[e] = "check"
    BY <1>4 DEF EmitStep, EmitCheck, EmitPush, EmitCount, At
  <2>2. ASSUME NEW f \in Exports
        PROVE  /\ emitter'[f] # "idle" => /\ number'[f] \in 1..Len(numbered')
                                          /\ numbered'[number'[f]] = f
               /\ emitter'[f] \in {"check", "push"}
                    => Behind(numbered, sent, inHand, outbound, number'[f])
    BY <1>1, <2>1 DEF Numbering
  <2> QED BY <1>1, <1>2, <1>4, <2>1, <2>2 DEF Numbering
<1>5. CASE EmitStep(e) /\ outbound' # outbound
  <2>1. /\ EmitPush(e) /\ emitter[e] = "push" /\ outbound' = Append(outbound, number[e])
        /\ UNCHANGED <<numbered, number>> /\ emitter' = [emitter EXCEPT ![e] = "count"]
    BY <1>5 DEF EmitStep, EmitCheck, EmitPush, EmitCount, At
  <2>2. /\ number[e] \in 1..Len(numbered) /\ numbered[number[e]] = e
        /\ Behind(numbered, sent, inHand, outbound, number[e])
    BY <1>1, <2>1 DEF Numbering
  <2>3. /\ InLine(numbered, sent, inHand, outbound')
        /\ \A y : Behind(numbered, sent, inHand, outbound, y) /\ Before(numbered, number[e], y)
                    => Behind(numbered, sent, inHand, outbound', y)
    BY <1>1, <2>1, <2>2, LinePushed
  <2>4. ASSUME NEW f \in Exports
        PROVE  /\ emitter'[f] # "idle" => number[f] \in 1..Len(numbered) /\ numbered[number[f]] = f
               /\ emitter'[f] \in {"check", "push"}
                    => Behind(numbered, sent, inHand, outbound', number[f])
    <3>1. CASE f = e
      BY <2>1, <2>2, <3>1
    <3>2. CASE f # e
      <4>1. emitter'[f] = emitter[f]
        BY <2>1, <3>2
      <4>2. emitter[f] # "idle" => number[f] \in 1..Len(numbered) /\ numbered[number[f]] = f
        BY <1>1 DEF Numbering
      <4>3. emitter[f] \in {"check", "push"} => Behind(numbered, sent, inHand, outbound, number[f])
        BY <1>1 DEF Numbering
      <4>4. emitter[f] # "idle" => Before(numbered, number[e], number[f])
        BY <2>2, <3>2, <4>2 DEF Before
      <4> QED BY <2>3, <4>1, <4>2, <4>3, <4>4
    <3> QED BY <3>1, <3>2
  <2> QED BY <1>2, <2>1, <2>3, <2>4 DEF Numbering
<1> QED BY <1>3, <1>4, <1>5

\* What the background thread does to the line.
LEMMA LineMoves ==
  ASSUME ClientTypes, Lined, UNCHANGED <<numbered, number, emitter>>,
         InLine(numbered, sent', inHand', outbound'),
         \A y : Behind(numbered, sent, inHand, outbound, y)
                  => Behind(numbered, sent', inHand', outbound', y),
         inHand' # 0 <=> pc' = "m_send",
         stats'.exported + Uncounted
           = Len(sent') + (IF inHand' = 0 THEN 0 ELSE 1) + Len(outbound') + stats'.lost
  PROVE  Lined'
<1>1. Numbering'
  BY DEF Lined, Numbering
<1>2. Uncounted' = Uncounted
  BY DEF Uncounted
<1> QED BY <1>1, <1>2 DEF Lined

\* The frames stay in line, and each is accounted for.
LEMMA LinedStep ==
  ASSUME ClientTypes, ClientTypes', Linked, Stopping, Lined, [Next]_vars
  PROVE  Lined'
<1> DEFINE x == stats.exported
           l == stats.lost
           x1 == stats'.exported
           l1 == stats'.lost
<1>1. x \in Nat /\ l \in Nat /\ x1 \in Nat /\ l1 \in Nat
  BY CounterFields DEF ClientTypes
<1>2. /\ outbound \in Seq(Nat) /\ sent \in Seq(Nat) /\ inHand \in Nat /\ stats \in Counters
      /\ Len(outbound) \in Nat /\ Len(sent) \in Nat /\ numbered \in Seq(Exports)
  BY DEF ClientTypes
<1>3. Uncounted \in Nat
  <2>1. IsFiniteSet({e \in Exports : emitter[e] = "count"})
    BY ExportsAssumption, FS_Subset
  <2> QED BY <2>1, FS_CardinalityType DEF Uncounted
<1>4. /\ inHand # 0 <=> pc = "m_send"
      /\ InLine(numbered, sent, inHand, outbound)
      /\ x + Uncounted = Len(sent) + (IF inHand = 0 THEN 0 ELSE 1) + Len(outbound) + l
  BY DEF Lined
<1>5. ASSUME UNCHANGED <<outbound, sent, inHand, emitVars>>, SameFrames,
             (pc' = "m_send") <=> (pc = "m_send")
      PROVE  Lined'
  <2>1. UNCHANGED <<numbered, number, emitter>>
    BY <1>5 DEF emitVars
  <2> QED BY <1>4, <1>5, <2>1, LineMoves DEF SameFrames
<1>6. CASE UNCHANGED vars
  BY <1>5, <1>6 DEF vars, exportVars, SameFrames
<1>7. ASSUME NEW e \in Exports, ExportTopic(e) \/ AddExport(e) PROVE Lined'
  BY <1>5, <1>7 DEF ExportTopic, AddExport, SameFrames
<1>8. ASSUME NEW t \in Threads, StartWorker(t) PROVE Lined'
  <2>1. pc = "none" /\ pc' # "m_send"
    BY <1>8 DEF StartWorker, Stopping
  <2> QED BY <1>5, <1>8, <2>1 DEF StartWorker, exportVars, SameFrames
<1>9. ASSUME NEW t \in Threads, Stop(t) \/ StopStep(t) PROVE Lined'
  <2>1. CASE Stop(t)
    BY <1>5, <2>1 DEF Stop, exportVars, SameFrames
  <2>2. CASE StopStep(t)
    BY <1>5, <2>2, StopFrame DEF SameFrames
  <2> QED BY <1>9, <2>1, <2>2
<1>10. ASSUME NEW e \in Exports, MakeFrame(e) \/ EmitStep(e) PROVE Lined'
  <2>1. InLine(numbered', sent', inHand', outbound') /\ Numbering'
    BY <1>10, NumberingStep
  <2>2. UNCHANGED <<sent, inHand, pc>>
    BY <1>10, ExportFrame
  <2>3. x1 + Uncounted' = Len(sent) + (IF inHand = 0 THEN 0 ELSE 1) + Len(outbound') + l1
    <3>1. PICK k \in {0, 1} : k = IF inHand = 0 THEN 0 ELSE 1
      OBVIOUS
    <3>2. x + Uncounted = Len(sent) + k + Len(outbound) + l
      BY <1>4, <3>1
    <3>3. CASE EmitCount(e)
      <4>1. /\ emitter' = [emitter EXCEPT ![e] = "idle"] /\ emitter[e] = "count"
            /\ outbound' = outbound
        BY <3>3 DEF EmitCount, At
      <4>2. Uncounted' = Uncounted - 1
        BY <4>1, "idle" # "count", UncountedMoves, Zenon
      <4>3. x1 = x + 1 /\ l1 = l
        BY <1>2, <3>3, Counting DEF EmitCount
      <4>4. x1 + Uncounted' = x + Uncounted
        BY <1>1, <1>3, <4>2, <4>3
      <4> QED BY <3>1, <3>2, <4>1, <4>3, <4>4
    <3>4. CASE EmitPush(e) /\ outbound' = Append(outbound, number[e])
      <4>1. Len(outbound') = Len(outbound) + 1
        BY <1>2, <3>4, Pushing DEF ClientTypes
      <4>2. outbound' # outbound
        BY <1>2, <4>1
      <4>3. /\ emitter' = [emitter EXCEPT ![e] = "count"] /\ emitter[e] = "push"
            /\ UNCHANGED stats
        BY <3>4, <4>2 DEF EmitPush, At
      <4>4. Uncounted' = Uncounted + 1
        BY <4>3, UncountedMoves
      <4>5. x1 = x /\ l1 = l
        BY <4>3
      <4>6. (x + Uncounted) + 1 = Len(sent) + k + (Len(outbound) + 1) + l
        BY <1>1, <1>2, <1>3, <3>2
      <4>7. x + (Uncounted + 1) = (x + Uncounted) + 1
        BY <1>1, <1>3
      <4> QED BY <3>1, <4>1, <4>4, <4>5, <4>6, <4>7
    <3>5. CASE \/ MakeFrame(e) \/ EmitCheck(e)
               \/ EmitPush(e) /\ UNCHANGED outbound /\ Count("outbound_dropped")
      <4>1. /\ UNCHANGED outbound /\ emitter[e] # "count"
            /\ \E label \in {"idle", "check", "push"} : emitter' = [emitter EXCEPT ![e] = label]
        BY <3>5 DEF MakeFrame, EmitCheck, EmitPush, At
      <4>2. Uncounted' = Uncounted
        BY <4>1, UncountedMoves
      <4>3. x1 = x /\ l1 = l
        BY <1>2, <3>5, Counting DEF MakeFrame, EmitCheck, SameFrames
      <4> QED BY <1>1, <1>3, <3>1, <3>2, <4>1, <4>2, <4>3
    <3> QED BY <1>10, <3>3, <3>4, <3>5 DEF EmitStep, EmitPush
  <2> QED BY <1>4, <2>1, <2>2, <2>3 DEF Lined
<1>11. CASE ClientLoop /\ ~Send
  <2>1. /\ UNCHANGED <<outbound, sent, inHand, emitVars>> /\ pc # "m_send" /\ pc' # "m_send"
    BY <1>11 DEF ClientLoop, Attempt, Connect, Announce, CountSuccess, CountReconnect, ServeCheck,
                Receive, Timers, Cleanup, Disconnect, CountDisconnect, Retry, WaitCheck,
                WaitBlock, WaitTimeout, WaitOver, exportVars
  <2>2. SameFrames
    BY <1>2, <1>11, Counting DEF ClientLoop, Attempt, Connect, Announce, CountSuccess,
                CountReconnect, ServeCheck, Receive, Timers, Cleanup, Disconnect,
                CountDisconnect, Retry, WaitCheck, WaitBlock, WaitTimeout, WaitOver, SameFrames
  <2> QED BY <1>5, <2>1, <2>2
<1>12. CASE ManualCheck
  BY <1>5, <1>12 DEF ManualCheck, exportVars, SameFrames
<1>13. ASSUME ClientLoop \/ ManualLoop \/ ManualSend PROVE UNCHANGED <<numbered, number, emitter>>
  BY <1>13, LoopFrame DEF exportVars, emitVars
<1>14. CASE ManualPop
  <2>1. CASE outbound = << >>
    BY <1>5, <1>14, <2>1 DEF ManualPop, exportVars, SameFrames
  <2>2. CASE outbound # << >>
    <3>1. /\ inHand' = Head(outbound) /\ outbound' = Tail(outbound) /\ pc' = "m_send"
          /\ UNCHANGED <<stats, sent>> /\ inHand = 0
      BY <1>4, <1>14, <2>2 DEF ManualPop
    <3>2. /\ inHand' # 0 /\ InLine(numbered, sent, inHand', outbound')
          /\ \A y : Behind(numbered, sent, inHand, outbound, y)
                      => Behind(numbered, sent, inHand', outbound', y)
          /\ Len(outbound') = Len(outbound) - 1
      BY <1>2, <1>4, <2>2, <3>1, LineTaken, Popping
    <3>3. x + Uncounted = Len(sent) + 1 + (Len(outbound) - 1) + l
      BY <1>1, <1>2, <1>3, <1>4, <3>1
    <3>4. UNCHANGED <<numbered, number, emitter>>
      BY <1>13, <1>14 DEF ManualLoop
    <3> QED BY <3>1, <3>2, <3>3, <3>4, LineMoves
  <2> QED BY <2>1, <2>2
<1>15. CASE ManualSend
  <2>1. /\ UNCHANGED outbound /\ inHand # 0 /\ inHand' = 0 /\ pc' # "m_send"
        /\ \/ sent' = Append(sent, inHand) /\ UNCHANGED stats
           \/ Count("lost") /\ UNCHANGED sent
    BY <1>4, <1>15 DEF ManualSend
  <2>2. UNCHANGED <<numbered, number, emitter>>
    BY <1>13, <1>15
  <2>3. CASE sent' = Append(sent, inHand) /\ UNCHANGED stats
    <3>1. /\ InLine(numbered, sent', 0, outbound)
          /\ \A y : Behind(numbered, sent, inHand, outbound, y)
                      => Behind(numbered, sent', 0, outbound, y)
          /\ Len(sent') = Len(sent) + 1
      BY <1>2, <1>4, <2>1, <2>3, LineSent, Pushing
    <3>2. x + Uncounted = (Len(sent) + 1) + 0 + Len(outbound) + l
      BY <1>1, <1>2, <1>3, <1>4, <2>1
    <3> QED BY <2>1, <2>2, <2>3, <3>1, <3>2, LineMoves
  <2>4. CASE Count("lost") /\ UNCHANGED sent
    <3>1. x1 = x /\ l1 = l + 1
      BY <1>2, <2>4, Counting
    <3>2. /\ InLine(numbered, sent, 0, outbound)
          /\ \A y : Behind(numbered, sent, inHand, outbound, y)
                      => Behind(numbered, sent, 0, outbound, y)
      BY <1>2, <1>4, LineLost
    <3>3. x + Uncounted = Len(sent) + 0 + Len(outbound) + (l + 1)
      BY <1>1, <1>2, <1>3, <1>4, <2>1
    <3> QED BY <2>1, <2>2, <2>4, <3>1, <3>2, <3>3, LineMoves
  <2> QED BY <2>1, <2>3, <2>4
<1>16. CASE Send
  <2>1. UNCHANGED inHand /\ inHand = 0 /\ pc' # "m_send" /\ UNCHANGED emitVars
    BY <1>4, <1>16 DEF Send, exportVars
  <2>2. UNCHANGED <<numbered, number, emitter>>
    BY <2>1 DEF emitVars
  <2>3. CASE UNCHANGED <<outbound, sent, stats>>
    BY <1>4, <1>5, <2>1, <2>3 DEF SameFrames
  <2>4. CASE outbound # << >> /\ outbound' = Tail(outbound)
    <3>1. /\ Head(outbound) \in Nat /\ outbound' \in Seq(Nat) /\ Len(outbound') = Len(outbound) - 1
          /\ Head(outbound) # 0 /\ InLine(numbered, sent, Head(outbound), outbound')
          /\ \A y : Behind(numbered, sent, inHand, outbound, y)
                      => Behind(numbered, sent, Head(outbound), outbound', y)
      BY <1>2, <1>4, <2>1, <2>4, LineTaken, Popping
    <3>2. CASE sent' = Append(sent, Head(outbound)) /\ UNCHANGED stats
      <4>1. /\ InLine(numbered, sent', 0, outbound')
            /\ \A y : Behind(numbered, sent, Head(outbound), outbound', y)
                        => Behind(numbered, sent', 0, outbound', y)
            /\ Len(sent') = Len(sent) + 1
        BY <1>2, <3>1, <3>2, LineSent, Pushing
      <4>2. x + Uncounted = (Len(sent) + 1) + 0 + (Len(outbound) - 1) + l
        BY <1>1, <1>2, <1>3, <1>4, <2>1
      <4> QED BY <2>1, <2>2, <3>1, <3>2, <4>1, <4>2, LineMoves
    <3>3. CASE Count("lost") /\ UNCHANGED sent
      <4>1. x1 = x /\ l1 = l + 1
        BY <1>2, <3>3, Counting
      <4>2. /\ InLine(numbered, sent, 0, outbound')
            /\ \A y : Behind(numbered, sent, Head(outbound), outbound', y)
                        => Behind(numbered, sent, 0, outbound', y)
        BY <1>2, <3>1, LineLost
      <4>3. x + Uncounted = Len(sent) + 0 + (Len(outbound) - 1) + (l + 1)
        BY <1>1, <1>2, <1>3, <1>4, <2>1
      <4> QED BY <2>1, <2>2, <3>1, <3>3, <4>1, <4>2, <4>3, LineMoves
    <3> QED BY <1>16, <2>4, <3>2, <3>3 DEF Send
  <2> QED BY <1>16, <2>3, <2>4 DEF Send
<1> QED BY <1>6, <1>7, <1>8, <1>9, <1>10, <1>11, <1>12, <1>14, <1>15, <1>16
        DEF Next, ManualLoop

-----------------------------------------------------------------------------
LEMMA ClientInitially == Init => ClientInv
<1> SUFFICES ASSUME Init PROVE ClientInv
  OBVIOUS
<1>1. Linked
  BY DEF Init, NoStats, Linked, LinkedAt, One
<1>2. Stopping
  BY ThreadAssumption DEF Init, Stopping, HoldingLabels, Threads
<1>3. Cancelling
  BY DEF Init, Cancelling
<1>4. Lined
  <2>1. \A e \in Exports : emitter[e] = "idle"
    BY DEF Init
  <2>2. {e \in Exports : emitter[e] = "count"} = {}
    BY <2>1
  <2>3. Uncounted = 0
    BY <2>2, FS_EmptySet DEF Uncounted
  <2>4. Numbering
    BY <2>1 DEF Numbering
  <2>5. InLine(numbered, sent, inHand, outbound)
    BY DEF Init, InLine
  <2> QED BY <2>3, <2>4, <2>5 DEF Init, NoStats, Lined
<1> QED BY <1>1, <1>2, <1>3, <1>4, TypesInitially DEF ClientInv

LEMMA ClientStep == ClientInv /\ [Next]_vars => ClientInv'
<1> SUFFICES ASSUME ClientInv, [Next]_vars PROVE ClientInv'
  OBVIOUS
<1>1. ClientTypes /\ Linked /\ Stopping /\ Cancelling /\ Lined
  BY DEF ClientInv
<1>2. ClientTypes'
  BY <1>1, TypesStep
<1>3. Linked' /\ Stopping' /\ Cancelling' /\ Lined'
  BY <1>1, <1>2, LinkedStep, StoppingStep, CancellingStep, LinedStep
<1> QED BY <1>2, <1>3 DEF ClientInv

LEMMA ClientAlways == Spec => []ClientInv
  BY ClientInitially, ClientStep, PTL DEF Spec

(***************************************************************************)
(* Once a stop() has returned to a thread of the application the client    *)
(* loop or the sender loop is over, the bridge is not connected and holds  *)
(* no connection, no export is registered, no callback of one that was is  *)
(* running and the queue is closed, for any number of threads that stop,   *)
(* configure and export at the same time.                                  *)
(***************************************************************************)
THEOREM StopFinal == Spec => []StopQuiesces
<1>1. ClientInv => StopQuiesces
  BY DEF ClientInv, Stopping, Cancelling, Linked, LinkedAt, StopQuiesces, Closed, Quieted, Emptied
<1> QED BY <1>1, ClientAlways, PTL

(***************************************************************************)
(* The counters of network_bridge.cpp agree with is_connected() wherever   *)
(* the client loop is, also between the atomic steps that change them one  *)
(* at a time: each connection made is counted, ended once, and all but the *)
(* first are reconnections, but for the one step still to come.            *)
(***************************************************************************)
THEOREM ConnectionsCounted == Spec => []ConnectionAccounting
<1>1. ClientInv => ConnectionAccounting
  BY DEF ClientInv, Linked, LinkedAt, ConnectionAccounting
<1> QED BY <1>1, ClientAlways, PTL

(***************************************************************************)
(* Frames of one export are written in the order in which its callback     *)
(* made them, none twice, through any failures and reconnections, for any  *)
(* number of exports whose callbacks run at the same time and any depth of *)
(* the queue; and every frame pushed is sent, lost with its connection, in *)
(* the hand of the sender or waiting, and counted but for those whose      *)
(* callback is about to count them.                                        *)
(***************************************************************************)
THEOREM FramesOnceInOrder == Spec => []SendOnceInOrder
<1>1. ClientInv => SendOnceInOrder
  <2> SUFFICES ASSUME ClientInv PROVE SendOnceInOrder
    OBVIOUS
  <2>1. /\ outbound \in Seq(Nat) /\ sent \in Seq(Nat) /\ inHand \in Nat
        /\ numbered \in Seq(Exports)
        /\ InLine(numbered, sent, inHand, outbound)
    BY DEF ClientInv, ClientTypes, Lined
  <2>2. LET line == sent \o InHand \o outbound IN
        /\ \A i, j \in DOMAIN line : i < j => Before(numbered, line[i], line[j])
        /\ Len(line) = Len(sent) + (IF inHand = 0 THEN 0 ELSE 1) + Len(outbound)
    BY <2>1, LineAscends DEF InHand
  <2>3. stats.exported + Uncounted
          = Len(sent) + (IF inHand = 0 THEN 0 ELSE 1) + Len(outbound) + stats.lost
    BY DEF ClientInv, Lined
  <2> QED BY <2>2, <2>3 DEF SendOnceInOrder, Uncounted, Before
<1> QED BY <1>1, ClientAlways, PTL
=============================================================================

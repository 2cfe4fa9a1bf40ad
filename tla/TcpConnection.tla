--------------------------- MODULE TcpConnection ---------------------------
(***************************************************************************)
(* One direction of a TCP connection (TcpConnection in                     *)
(* src/transport/tcp_transport.cpp) from the moment its sockets are made   *)
(* (TcpSetup).  The server's end sends: application threads through        *)
(* TcpSessionManager::send_to and broadcast, and the session's worker,     *)
(* which sends heartbeats and closes the connection in the end.  The       *)
(* client's end receives.  The other direction is the same code with the   *)
(* ends exchanged.                                                         *)
(*                                                                         *)
(* A step is one system call on the socket together with the bookkeeping   *)
(* around it.  descriptor_mutex_ guards single statements and is therefore *)
(* the atomicity of these steps; send_mutex_ and receive_mutex_ are held   *)
(* across many.  The kernel is a bounded sequence of cells (FrameCodec)    *)
(* that takes any part of what is offered and gives any part of what it    *)
(* has, until an end shuts the connection down or the network breaks it.   *)
(***************************************************************************)
EXTENDS FrameCodec, TcpSetup

CONSTANTS
    Senders,        \* threads that call send_to or broadcast
    worker,         \* the session's worker
    NoThread,
    bodies,         \* [topic, payload] sizes of the frames that are sent
    limits,         \* FrameLimits of each end
    window,         \* cells the two kernels hold
    MaxFrames,      \* bound: frames that reach the socket
    MaxCorrupted    \* bound: cells changed on the way

LimitSet == [max_topic_size : Nat, max_payload_size : Nat, max_frame_size : Nat]

ASSUME ThreadsAssumption == worker \notin Senders /\ NoThread \notin Senders \cup {worker}
ASSUME BodiesAssumption == bodies \subseteq [topic : Nat, payload : Nat]
ASSUME LimitsAssumption == limits \in [Ends -> LimitSet]
ASSUME ConnectionBoundsAssumption ==
    window \in Nat \ {0} /\ MaxFrames \in Nat /\ MaxCorrupted \in Nat

Threads == Senders \cup {worker}

VARIABLES
    send_timeout,   \* SO_SNDTIMEO is set
    shut,           \* shutdown() was called at this end
    broken,         \* the network has dropped the connection
    wire,           \* cells on their way
    send_mutex,     \* owner at the server's end
    pc,             \* of each sending thread
    unsent,         \* cells of its frame the socket has not taken yet
    reading,        \* a receive_frame call holds the client's receive_mutex_
    receive_buffer_,
    declared,       \* size read from the header in receive_buffer_, 0 before
    closing,        \* a close() waits at this end
    accepted, delivered, spoilt, torn, corrupted  \* history, see FrameStream

ioVars == <<send_timeout, shut, broken, wire>>
sendVars == <<send_mutex, pc, unsent>>
receiveVars == <<reading, receive_buffer_, declared>>
historyVars == <<accepted, delivered, spoilt, torn, corrupted>>
vars == <<setupVars, ioVars, sendVars, receiveVars, closing, historyVars>>

Frame(id, kind) == [id |-> id, flags |-> kind.flags, topic |-> kind.topic,
                    payload |-> kind.payload]

data(body) == [flags |-> 0, topic |-> body.topic, payload |-> body.payload]
heartbeat == [flags |-> 1, topic |-> 1, payload |-> 0]

Frames == {Frame(id, kind) : id \in 1..MaxFrames, kind \in {data(b) : b \in bodies} \cup {heartbeat}}

ASSUME NoFrameAssumption == NoFrame \notin Frames

\* SO_SNDTIMEO is set before the connection is used, or never.
set_send_timeout == send_timeout \in BOOLEAN

Init ==
    /\ SetupInit
    /\ set_send_timeout
    /\ shut = [e \in Ends |-> FALSE]
    /\ broken = FALSE
    /\ wire = << >>
    /\ send_mutex = NoThread
    /\ pc = [t \in Threads |-> "idle"]
    /\ unsent = [t \in Threads |-> << >>]
    /\ reading = FALSE
    /\ receive_buffer_ = << >>
    /\ declared = 0
    /\ closing = [e \in Ends |-> FALSE]
    /\ accepted = << >> /\ delivered = << >>
    /\ spoilt = {} /\ torn = {} /\ corrupted = 0

Goto(t, label) == pc' = [pc EXCEPT ![t] = label]

Shutdown(e) == [shut EXCEPT ![e] = @ \/ socket_fd_[e] # 0]

-----------------------------------------------------------------------------
(* send_frame *)

KindsOf(t) == IF t = worker THEN {heartbeat}
              ELSE {data(b) : b \in {c \in bodies :
                      checked_frame_size(c.topic, c.payload, limits[Server]) # Rejected}}

\* On a closed connection send_all throws, and the caller's interrupt() finds
\* nothing to shut down.
SendClosed(t) ==
    /\ pc[t] = "idle" /\ send_mutex = NoThread
    /\ stage[Server] = "connected" /\ socket_fd_[Server] = 0
    /\ UNCHANGED vars

\* send_mutex_ is taken and the descriptor copied.  A frame over the sender's
\* limits has thrown in encode_frame before; all that comes of it is the
\* caller's interrupt() (Interrupt).
SendFrame(t) ==
    /\ pc[t] = "idle" /\ send_mutex = NoThread
    /\ t = worker => ~closing[Server]
    /\ socket_fd_[Server] # 0
    /\ Len(accepted) < MaxFrames
    /\ \E kind \in KindsOf(t) :
          LET f == Frame(Len(accepted) + 1, kind) IN
          /\ accepted' = Append(accepted, f)
          /\ unsent' = [unsent EXCEPT ![t] = encode_frame(f)]
    /\ send_mutex' = t
    /\ Goto(t, "send")
    /\ UNCHANGED <<setupVars, ioVars, receiveVars, closing, delivered, spoilt, torn, corrupted>>

\* ::send takes some of the cells (one here: more are several steps); after
\* the last one send_all returns.
Send(t) ==
    /\ pc[t] = "send" /\ ~shut[Server] /\ ~broken /\ Len(wire) < window
    /\ wire' = Append(wire, Head(unsent[t]))
    /\ unsent' = [unsent EXCEPT ![t] = Tail(@)]
    /\ IF Len(unsent[t]) = 1 THEN send_mutex' = NoThread /\ Goto(t, "idle")
                             ELSE UNCHANGED <<send_mutex, pc>>
    /\ UNCHANGED <<setupVars, send_timeout, shut, broken, receiveVars, closing, historyVars>>

\* ::send fails, because the connection is down or, with SO_SNDTIMEO, because
\* the window stays full: send_all throws and its lock_guard unlocks.
SendFails(t) ==
    /\ pc[t] = "send"
    /\ shut[Server] \/ broken \/ (send_timeout /\ Len(wire) >= window)
    /\ LET f == unsent[t][1].frame
       IN IF unsent[t][1].at = 1 THEN spoilt' = spoilt \cup {f.id} /\ UNCHANGED torn
                                 ELSE torn' = torn \cup {f.id} /\ UNCHANGED spoilt
    /\ unsent' = [unsent EXCEPT ![t] = << >>]
    /\ send_mutex' = NoThread
    /\ Goto(t, "threw")
    /\ UNCHANGED <<setupVars, ioVars, receiveVars, closing, accepted, delivered, corrupted>>

\* The caller's catch block interrupts the connection, and only then is it
\* unusable for the threads that wait for send_mutex_.  The worker goes on to
\* close it (CallClose).
SendCaught(t) ==
    /\ pc[t] = "threw"
    /\ Goto(t, "idle")
    /\ shut' = Shutdown(Server)
    /\ UNCHANGED <<setupVars, send_timeout, broken, wire, send_mutex, unsent, receiveVars,
                   closing, historyVars>>

-----------------------------------------------------------------------------
(* receive_frame *)

\* The call; on a closed connection it throws.  Nobody calls it once close()
\* has been called: session_loop and client_loop close what they received from,
\* and NetworkBridge::stop joins the receiving thread first.
ReceiveFrame ==
    /\ stage[Client] = "connected" /\ ~reading /\ ~closing[Client]
    /\ reading' = (socket_fd_[Client] # 0)
    /\ UNCHANGED <<setupVars, ioVars, sendVars, receive_buffer_, declared, closing, historyVars>>

\* target_size of read_until: the header, then the whole frame.
target_size == IF declared = 0 THEN HeaderSize ELSE declared

\* recv gives some of the cells wanted (one here, as in Send).
Recv ==
    /\ reading /\ ~broken /\ wire # << >> /\ Len(receive_buffer_) < target_size
    /\ receive_buffer_' = Append(receive_buffer_, Head(wire))
    /\ wire' = Tail(wire)
    /\ UNCHANGED <<setupVars, send_timeout, shut, broken, sendVars, reading, declared, closing,
                   historyVars>>

\* recv returns 0 or an error.
Disconnected ==
    \/ broken
    \/ /\ wire = << >>
       /\ \/ \E e \in Ends : shut[e]
          \/ socket_fd_[Server] = 0 /\ stage[Server] \in {"connected", "lost"}

\* Mutant: a time-out forgets what has been read.
ReceiveTimeout_clears ==
    /\ reading /\ Len(receive_buffer_) < target_size
    /\ reading' = FALSE /\ receive_buffer_' = << >> /\ declared' = 0
    /\ UNCHANGED <<setupVars, ioVars, sendVars, closing, historyVars>>

\* The deadline passes in poll, or poll fails: std::nullopt or an exception.
\* The partial frame stays in the buffer, whatever else has arrived meanwhile.
ReceiveTimeout ==
    /\ reading /\ Len(receive_buffer_) < target_size
    /\ reading' = FALSE
    /\ UNCHANGED <<setupVars, ioVars, sendVars, receive_buffer_, declared, closing, historyVars>>

\* The end of the stream, or an error of recv: interrupt, throw.
ReceiveDisconnected ==
    /\ reading /\ Disconnected /\ Len(receive_buffer_) < target_size
    /\ shut' = Shutdown(Client)
    /\ reading' = FALSE
    /\ UNCHANGED <<setupVars, send_timeout, broken, wire, sendVars, receive_buffer_, declared,
                   closing, historyVars>>

\* The header is complete: a size, or an exception after interrupt().
ReceiveHeader ==
    /\ reading /\ declared = 0 /\ Len(receive_buffer_) = HeaderSize
    /\ \E n \in frame_size_from_header(receive_buffer_, limits[Client]) :
          \/ /\ n # Rejected
             /\ declared' = n
             /\ UNCHANGED <<shut, reading, receive_buffer_, torn>>
          \/ /\ n = Rejected
             /\ receive_buffer_' = << >>
             /\ shut' = Shutdown(Client)
             /\ reading' = FALSE
             /\ torn' = torn \cup {receive_buffer_[1].frame.id}
             /\ UNCHANGED declared
    /\ UNCHANGED <<setupVars, send_timeout, broken, wire, sendVars, closing, accepted, delivered,
                   spoilt, corrupted>>

\* The frame is complete: it is returned, or decode_frame throws.
ReceiveBody ==
    /\ reading /\ declared # 0 /\ Len(receive_buffer_) = declared
    /\ LET f == decode_frame(receive_buffer_, limits[Client])
       IN delivered' = IF f = NoFrame THEN delivered ELSE Append(delivered, f)
    /\ receive_buffer_' = << >> /\ declared' = 0
    /\ reading' = FALSE
    /\ UNCHANGED <<setupVars, ioVars, sendVars, closing, accepted, spoilt, torn, corrupted>>

-----------------------------------------------------------------------------
(* interrupt, close and the network *)

\* interrupt() from stop(), which waits for no I/O mutex.
Interrupt(e) ==
    /\ socket_fd_[e] # 0
    /\ shut' = Shutdown(e)
    /\ UNCHANGED <<setupVars, send_timeout, broken, wire, sendVars, receiveVars, closing,
                   historyVars>>

\* Mutant: close() is called without interrupt() before it.
CallClose_uninterrupted(e) ==
    /\ socket_fd_[e] # 0 /\ ~closing[e]
    /\ e = Server => pc[worker] = "idle"
    /\ closing' = [closing EXCEPT ![e] = TRUE]
    /\ UNCHANGED <<setupVars, ioVars, sendVars, receiveVars, historyVars>>

\* The worker of an end is finished: interrupt(), then close().
CallClose(e) ==
    /\ socket_fd_[e] # 0 /\ ~closing[e]
    /\ e = Server => pc[worker] = "idle"
    /\ shut' = Shutdown(e)
    /\ closing' = [closing EXCEPT ![e] = TRUE]
    /\ UNCHANGED <<setupVars, send_timeout, broken, wire, sendVars, receiveVars, historyVars>>

\* Mutant: close() waits for nobody.
IoMutexesFree_ignored(e) == TRUE

\* What the scoped_lock of close() waits for.
IoMutexesFree(e) == IF e = Server THEN send_mutex = NoThread ELSE ~reading

Close(e) ==
    /\ closing[e]
    /\ IoMutexesFree(e)
    /\ CloseSocket(e)
    /\ closing' = [closing EXCEPT ![e] = FALSE]
    /\ IF e = Client THEN receive_buffer_' = << >> /\ declared' = 0
                     ELSE UNCHANGED <<receive_buffer_, declared>>
    /\ UNCHANGED <<ioVars, sendVars, reading, historyVars>>

\* The connection is reset, or the network fails: what is on the way is gone.
Break ==
    /\ ~broken /\ stage[Server] \in {"connected", "lost"}
    /\ broken' = TRUE
    /\ wire' = << >>
    /\ UNCHANGED <<setupVars, send_timeout, shut, sendVars, receiveVars, closing, historyVars>>

\* A body cell is changed on the way and not noticed by TCP.  (A changed header is
\* left out: the CRC does not cover it, and no property would speak of it.)
Corrupt ==
    /\ corrupted < MaxCorrupted
    /\ \E i \in 1..Len(wire) :
          /\ wire[i].at > HeaderSize
          /\ wire' = [wire EXCEPT ![i].at = 0]
          /\ spoilt' = spoilt \cup {wire[i].frame.id}
    /\ corrupted' = corrupted + 1
    /\ UNCHANGED <<setupVars, send_timeout, shut, broken, sendVars, receiveVars, closing,
                   accepted, delivered, torn>>

-----------------------------------------------------------------------------
SendStep(t) == Send(t) \/ SendFails(t) \/ SendCaught(t)
ReceiveStep == Recv \/ ReceiveTimeout \/ ReceiveDisconnected \/ ReceiveHeader \/ ReceiveBody

connectionVars == <<ioVars, sendVars, receiveVars, closing, historyVars>>

Next ==
    \/ SetupNext /\ UNCHANGED connectionVars
    \/ \E t \in Threads : SendFrame(t) \/ SendClosed(t) \/ SendStep(t)
    \/ ReceiveFrame \/ ReceiveStep
    \/ \E e \in Ends : Interrupt(e) \/ CallClose(e) \/ Close(e)
    \/ Break \/ Corrupt

Spec == Init /\ [][Next]_vars

(***************************************************************************)
(* Fairness: a thread inside send_frame, receive_frame or close() goes on; *)
(* the kernel answers each system call.                                    *)
(***************************************************************************)
FairSpec ==
    /\ Spec
    /\ \A t \in Threads : WF_vars(SendStep(t))
    /\ WF_vars(ReceiveStep)
    /\ \A e \in Ends : WF_vars(Close(e))

-----------------------------------------------------------------------------
Stream == INSTANCE FrameStream

\* Whole frames travel as FrameStream promises, whatever the split into
\* sends and receives, time-outs, failed sends, resets and corrupted bodies.
ImplementsFrameStream == Stream!Spec

\* Descriptors are neither lost nor shared (NoDescriptorLost), and a thread
\* inside ::send or ::recv uses the open descriptor of this connection, never
\* a number that was closed under it.
DescriptorsOwned ==
    /\ NoDescriptorLost
    /\ (\E t \in Threads : pc[t] = "send") => socket_fd_[Server] # 0
    /\ reading => socket_fd_[Client] # 0

\* interrupt() before close() is enough to get every thread out of the
\* connection: close() returns although senders and the receiver hold its
\* mutexes, and with a send time-out set no send blocks for ever even if
\* the peer never reads.
CallsReturn ==
    /\ \A e \in Ends : closing[e] ~> ~closing[e]
    /\ \A t \in Threads :
          (send_timeout /\ pc[t] = "send") ~> pc[t] = "idle"

\* docs/PROTOCOL.md: send_frame locks the connection for the whole frame, so
\* the bytes of two frames never run into each other.
FramesNotInterleaved ==
    \A i \in 1..Len(wire) - 1 :
       wire[i + 1] = IF wire[i].at = size(wire[i].frame)
                     THEN [wire[i + 1] EXCEPT !.at = 1]
                     ELSE [wire[i] EXCEPT !.at = @ + 1]
=============================================================================

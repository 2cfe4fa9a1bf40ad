------------------------- MODULE TcpSessionManager -------------------------
(***************************************************************************)
(* TcpSessionManager (src/transport/session_manager.cpp): an accept thread *)
(* that admits clients up to a limit and reaps finished ones, one worker   *)
(* thread per session, start() and stop() from application threads, and    *)
(* send_to, broadcast, stop and start called inside the frame handler.     *)
(*                                                                         *)
(* A step is a critical section of sessions_mutex, an access to an atomic  *)
(* that another thread reacts to, a join, or a socket call.  The socket    *)
(* shows what TcpConnection does: any call may fail, every wait ends after *)
(* its poll interval, and after interrupt() receiving and sending fail.    *)
(***************************************************************************)
EXTENDS Integers, FiniteSets

CONSTANTS
    Callers,        \* threads of the application
    client_limits,  \* the values max_clients of the options may have
    MaxSessions,    \* bound: connections ever admitted
    NoThread

ASSUME LimitAssumption == client_limits \subseteq Nat \ {0}
ASSUME BoundAssumption == MaxSessions \in Nat
ASSUME CallersAssumption == IsFiniteSet(Callers) /\ NoThread \notin Callers
                              /\ (Callers \cup {NoThread}) \cap Int = {}

Ids == 1..MaxSessions           \* SessionId, and the worker of that session
Threads == Callers \cup Ids

VARIABLES
    max_clients,        \* of the options; never changes
    running,
    lifecycle_mutex,    \* its owner
    acceptor,           \* of the accept thread; "none" when it is not joinable
    next_session_id,
    reaping,            \* the finished sessions it has still to join
    sessions,           \* the registered sessions
    live,               \* session->active
    interrupted,        \* the connection has been interrupted or closed
    worker,             \* of each session's thread
    joinable,           \* session->worker is joinable
    call,               \* of each thread: the call it is in
    goal,               \* of each thread: the call is a "start" or a "stop"
    todo,               \* the sessions that call has still to visit
    stats,
    quiet               \* history: a stop() has finished and no start() since

callVars == <<call, goal, todo>>
acceptVars == <<acceptor, next_session_id, reaping>>
sessionVars == <<sessions, live, interrupted, worker, joinable>>
vars == <<max_clients, running, lifecycle_mutex, acceptVars, sessionVars, callVars,
          stats, quiet>>

Init ==
    /\ max_clients \in client_limits
    /\ running = FALSE /\ lifecycle_mutex = NoThread
    /\ acceptor = "none" /\ next_session_id = 1 /\ reaping = {}
    /\ sessions = {}
    /\ live = [s \in Ids |-> FALSE]
    /\ interrupted = [s \in Ids |-> FALSE]
    /\ worker = [s \in Ids |-> "new"]
    /\ joinable = [s \in Ids |-> FALSE]
    /\ call = [t \in Threads |-> "none"]
    /\ goal = [t \in Threads |-> "stop"]
    /\ todo = [t \in Threads |-> {}]
    /\ stats = [accepted |-> 0, active |-> 0, disconnected |-> 0]
    /\ quiet = FALSE

Enter(t, label) == call' = [call EXCEPT ![t] = label]
Return(t) == Enter(t, "none") /\ goal' = [goal EXCEPT ![t] = "stop"]
WorkerTo(s, label) == worker' = [worker EXCEPT ![s] = label]
Interrupt(S) == interrupted' = [s \in Ids |-> s \in S \/ interrupted[s]]

\* active.fetch_sub and disconnected.fetch_add.
Uncount == stats' = [stats EXCEPT !.active = @ - 1, !.disconnected = @ + 1]

\* The session the accept thread is setting up.
Arriving == next_session_id - 1

-----------------------------------------------------------------------------
(* accept_loop *)

AcceptCheck ==
    /\ acceptor = "check"
    /\ acceptor' = IF running THEN "accept" ELSE "last_reap"
    /\ UNCHANGED <<max_clients, running, lifecycle_mutex, next_session_id, reaping,
                   sessionVars, callVars, stats, quiet>>

\* server.accept within its poll interval: nothing, an error, or a client.
AcceptNothing ==
    /\ acceptor = "accept"
    /\ acceptor' \in {"reap", "check"}
    /\ UNCHANGED <<max_clients, running, lifecycle_mutex, next_session_id, reaping,
                   sessionVars, callVars, stats, quiet>>

\* Mutant: the limit is tested one client too late.
AtLimit_off_by_one == stats.active > max_clients

AtLimit == stats.active >= max_clients

\* A client beyond the limit is turned away, and the loop continues.
AcceptClient ==
    /\ acceptor = "accept"
    /\ \/ AtLimit /\ acceptor' = "check" /\ UNCHANGED next_session_id
       \/ /\ ~AtLimit /\ next_session_id <= MaxSessions
          /\ acceptor' = "push"
          /\ next_session_id' = next_session_id + 1
    /\ UNCHANGED <<max_clients, running, lifecycle_mutex, reaping, sessionVars,
                   callVars, stats, quiet>>

\* The session is registered, unless set_send_timeout throws.
AcceptPush ==
    /\ acceptor = "push"
    /\ \/ /\ sessions' = sessions \cup {Arriving}
          /\ live' = [live EXCEPT ![Arriving] = TRUE]
          /\ WorkerTo(Arriving, "queued")
          /\ acceptor' = "count"
          /\ UNCHANGED interrupted
       \/ /\ Interrupt({Arriving})
          /\ acceptor' = "check"
          /\ UNCHANGED <<sessions, live, worker>>
    /\ UNCHANGED <<max_clients, running, lifecycle_mutex, next_session_id, reaping,
                   joinable, callVars, stats, quiet>>

AcceptCount ==
    /\ acceptor = "count"
    /\ stats' = [stats EXCEPT !.accepted = @ + 1, !.active = @ + 1]
    /\ WorkerTo(Arriving, "counted")
    /\ acceptor' = "spawn"
    /\ UNCHANGED <<max_clients, running, lifecycle_mutex, next_session_id, reaping,
                   sessions, live, interrupted, joinable, callVars, quiet>>

\* std::thread starts the worker or throws.
AcceptSpawn ==
    /\ acceptor = "spawn"
    /\ \/ /\ WorkerTo(Arriving, "check")
          /\ joinable' = [joinable EXCEPT ![Arriving] = TRUE]
          /\ acceptor' = "reap"
          /\ UNCHANGED <<live, interrupted>>
       \/ /\ WorkerTo(Arriving, "uncount")
          /\ live' = [live EXCEPT ![Arriving] = FALSE]
          /\ Interrupt({Arriving})
          /\ acceptor' = "undo"
          /\ UNCHANGED joinable
    /\ UNCHANGED <<max_clients, running, lifecycle_mutex, next_session_id, reaping,
                   sessions, callVars, stats, quiet>>

\* Mutant: a session without a thread stays counted.
AcceptUndo_counted ==
    /\ acceptor = "undo"
    /\ WorkerTo(Arriving, "exit")
    /\ sessions' = sessions \ {Arriving}
    /\ acceptor' = "check"
    /\ UNCHANGED <<max_clients, running, lifecycle_mutex, next_session_id, reaping,
                   live, interrupted, joinable, callVars, stats, quiet>>

\* The counters are put right, the session is erased and the error rethrown.
AcceptUndo ==
    /\ acceptor = "undo"
    /\ Uncount
    /\ WorkerTo(Arriving, "exit")
    /\ sessions' = sessions \ {Arriving}
    /\ acceptor' = "check"
    /\ UNCHANGED <<max_clients, running, lifecycle_mutex, next_session_id, reaping,
                   live, interrupted, joinable, callVars, quiet>>

Finished == {s \in sessions : ~live[s]}

\* Mutant: finished sessions are erased and not joined.
Reap_unjoined ==
    /\ acceptor \in {"reap", "last_reap"}
    /\ sessions' = sessions \ Finished
    /\ acceptor' = IF acceptor = "reap" THEN "check" ELSE "exit"
    /\ UNCHANGED <<max_clients, running, lifecycle_mutex, next_session_id, reaping,
                   live, interrupted, worker, joinable, callVars, stats, quiet>>

\* reap_finished_sessions: the critical section, ...
Reap ==
    /\ acceptor \in {"reap", "last_reap"}
    /\ reaping' = Finished
    /\ sessions' = sessions \ Finished
    /\ acceptor' = IF acceptor = "reap" THEN "join" ELSE "last_join"
    /\ UNCHANGED <<max_clients, running, lifecycle_mutex, next_session_id, live,
                   interrupted, worker, joinable, callVars, stats, quiet>>

\* ... and the joins after it.
ReapJoin ==
    /\ acceptor \in {"join", "last_join"}
    /\ \A s \in reaping : joinable[s] => worker[s] = "exit"
    /\ joinable' = [s \in Ids |-> joinable[s] /\ s \notin reaping]
    /\ reaping' = {}
    /\ acceptor' = IF acceptor = "join" THEN "check" ELSE "exit"
    /\ UNCHANGED <<max_clients, running, lifecycle_mutex, next_session_id, sessions,
                   live, interrupted, worker, callVars, stats, quiet>>

-----------------------------------------------------------------------------
(* session_loop *)

\* Mutant: the loop does not look at the manager's flag.
WorkerCheck_session_only(s) ==
    /\ worker[s] = "check"
    /\ WorkerTo(s, IF live[s] THEN "receive" ELSE "close")
    /\ UNCHANGED <<max_clients, running, lifecycle_mutex, acceptVars, sessions, live,
                   interrupted, joinable, callVars, stats, quiet>>

WorkerCheck(s) ==
    /\ worker[s] = "check"
    /\ WorkerTo(s, IF running /\ live[s] THEN "receive" ELSE "close")
    /\ UNCHANGED <<max_clients, running, lifecycle_mutex, acceptVars, sessions, live,
                   interrupted, joinable, callVars, stats, quiet>>

\* receive_frame: nothing or a heartbeat, a data frame, or an error (which
\* frames with bad flags are too).
WorkerReceive(s) ==
    /\ worker[s] = "receive"
    /\ \/ ~interrupted[s] /\ WorkerTo(s, "timers")
       \/ ~interrupted[s] /\ WorkerTo(s, "handler")
       \/ WorkerTo(s, "close")
    /\ UNCHANGED <<max_clients, running, lifecycle_mutex, acceptVars, sessions, live,
                   interrupted, joinable, callVars, stats, quiet>>

\* The user's handler returns or throws.
HandlerEnds(s) ==
    /\ worker[s] = "handler" /\ call[s] = "none"
    /\ WorkerTo(s, "timers")
    /\ UNCHANGED <<max_clients, running, lifecycle_mutex, acceptVars, sessions, live,
                   interrupted, joinable, callVars, stats, quiet>>

\* The heartbeat cannot be sent, or the peer has been idle for too long.
WorkerTimers(s) ==
    /\ worker[s] = "timers"
    /\ WorkerTo(s, "check") \/ WorkerTo(s, "close")
    /\ UNCHANGED <<max_clients, running, lifecycle_mutex, acceptVars, sessions, live,
                   interrupted, joinable, callVars, stats, quiet>>

\* interrupt, close and the exchange of session->active.
WorkerClose(s) ==
    /\ worker[s] = "close"
    /\ Interrupt({s})
    /\ live' = [live EXCEPT ![s] = FALSE]
    /\ WorkerTo(s, IF live[s] THEN "uncount" ELSE "exit")
    /\ UNCHANGED <<max_clients, running, lifecycle_mutex, acceptVars, sessions,
                   joinable, callVars, stats, quiet>>

WorkerUncount(s) ==
    /\ worker[s] = "uncount" /\ joinable[s]
    /\ Uncount
    /\ WorkerTo(s, "exit")
    /\ UNCHANGED <<max_clients, running, lifecycle_mutex, acceptVars, sessions, live,
                   interrupted, joinable, callVars, quiet>>

-----------------------------------------------------------------------------
(* Calls.  The handler of a session makes them on the session's worker.    *)

InHandler(t) == t \in Ids /\ worker[t] = "handler"
CanCall(t) == call[t] = "none" /\ (t \in Callers \/ InHandler(t))

\* Mutant: stop() in a handler goes on to join.
CallStop_joins(t) ==
    /\ CanCall(t)
    /\ Enter(t, "lock")
    /\ UNCHANGED <<max_clients, running, lifecycle_mutex, acceptVars, sessionVars, goal,
                   todo, stats, quiet>>

\* In a handler stop() is only a request: no lock, no join.
CallStop(t) ==
    /\ CanCall(t)
    /\ Enter(t, IF InHandler(t) THEN "request" ELSE "lock")
    /\ UNCHANGED <<max_clients, running, lifecycle_mutex, acceptVars, sessionVars, goal,
                   todo, stats, quiet>>

\* (In a handler it throws and changes nothing.)
CallStart(t) ==
    /\ CanCall(t) /\ t \in Callers
    /\ goal' = [goal EXCEPT ![t] = "start"]
    /\ Enter(t, "lock")
    /\ UNCHANGED <<max_clients, running, lifecycle_mutex, acceptVars, sessionVars, todo,
                   stats, quiet>>

\* A start() that finds the manager running unlocks again at once.
Lock(t) ==
    /\ call[t] = "lock" /\ lifecycle_mutex = NoThread
    /\ \/ /\ goal[t] = "start" /\ running
          /\ Return(t)
          /\ UNCHANGED lifecycle_mutex
       \/ /\ goal[t] = "start" /\ ~running
          /\ lifecycle_mutex' = t
          /\ Enter(t, "join_accept")
          /\ UNCHANGED goal
       \/ /\ goal[t] = "stop"
          /\ lifecycle_mutex' = t
          /\ Enter(t, "request")
          /\ UNCHANGED goal
    /\ UNCHANGED <<max_clients, running, acceptVars, sessionVars, todo, stats, quiet>>

\* request_stop: the flag, ...
Request(t) ==
    /\ call[t] = "request"
    /\ running' = FALSE
    /\ Enter(t, "interrupt")
    /\ UNCHANGED <<max_clients, lifecycle_mutex, acceptVars, sessionVars, goal, todo,
                   stats, quiet>>

\* ... then every registered connection.
InterruptAll(t) ==
    /\ call[t] = "interrupt"
    /\ Interrupt(sessions)
    /\ Enter(t, IF lifecycle_mutex = t THEN "join_accept" ELSE "none")
    /\ UNCHANGED <<max_clients, running, lifecycle_mutex, acceptVars, sessions, live,
                   worker, joinable, goal, todo, stats, quiet>>

\* Mutant: the accept thread is not waited for before the list is taken.
JoinAccept_skipped(t) ==
    /\ call[t] = "join_accept"
    /\ Enter(t, "swap")
    /\ UNCHANGED <<max_clients, running, lifecycle_mutex, acceptVars, sessionVars, goal,
                   todo, stats, quiet>>

\* finish_stop_locked: join the accept thread, ...
JoinAccept(t) ==
    /\ call[t] = "join_accept" /\ acceptor \in {"none", "exit"}
    /\ acceptor' = "none"
    /\ Enter(t, "swap")
    /\ UNCHANGED <<max_clients, running, lifecycle_mutex, next_session_id, reaping,
                   sessionVars, goal, todo, stats, quiet>>

\* ... take the list of sessions and interrupt them, ...
Swap(t) ==
    /\ call[t] = "swap"
    /\ todo' = [todo EXCEPT ![t] = sessions]
    /\ sessions' = {}
    /\ Interrupt(sessions)
    /\ Enter(t, "join")
    /\ UNCHANGED <<max_clients, running, lifecycle_mutex, acceptVars, live, worker,
                   joinable, goal, stats, quiet>>

\* ... and join them.
Join(t) ==
    /\ call[t] = "join"
    /\ \A s \in todo[t] : joinable[s] => worker[s] = "exit"
    /\ joinable' = [s \in Ids |-> joinable[s] /\ s \notin todo[t]]
    /\ todo' = [todo EXCEPT ![t] = {}]
    /\ Enter(t, IF goal[t] = "start" THEN "run" ELSE "unlock")
    /\ UNCHANGED <<max_clients, running, lifecycle_mutex, acceptVars, sessions, live,
                   interrupted, worker, goal, stats, quiet>>

\* start() runs the accept thread, or cannot create it and throws.
Run(t) ==
    /\ call[t] = "run"
    /\ \/ running' = TRUE /\ acceptor' = "check"
       \/ running' = FALSE /\ UNCHANGED acceptor
    /\ quiet' = FALSE
    /\ lifecycle_mutex' = NoThread
    /\ Return(t)
    /\ UNCHANGED <<max_clients, next_session_id, reaping, sessionVars, todo, stats>>

Unlock(t) ==
    /\ call[t] = "unlock"
    /\ quiet' = TRUE
    /\ lifecycle_mutex' = NoThread
    /\ Enter(t, "none")
    /\ UNCHANGED <<max_clients, running, acceptVars, sessionVars, goal, todo, stats>>

\* send_to and broadcast: a snapshot of the active sessions, or one of them, ...
CallSend(t) ==
    /\ CanCall(t)
    /\ LET active_snapshot == {s \in sessions : live[s]} IN
          \E S \in {active_snapshot} \cup {{s} : s \in active_snapshot} :
             S # {} /\ todo' = [todo EXCEPT ![t] = S]
    /\ Enter(t, "send")
    /\ UNCHANGED <<max_clients, running, lifecycle_mutex, acceptVars, sessionVars, goal,
                   stats, quiet>>

\* ... then one send after the other; a connection that fails is interrupted.
Send(t) ==
    /\ call[t] = "send"
    /\ \E s \in todo[t] :
          /\ \/ ~interrupted[s] /\ UNCHANGED interrupted
             \/ Interrupt({s})
          /\ todo' = [todo EXCEPT ![t] = @ \ {s}]
    /\ Enter(t, IF todo'[t] = {} THEN "none" ELSE "send")
    /\ UNCHANGED <<max_clients, running, lifecycle_mutex, acceptVars, sessions, live,
                   worker, joinable, goal, stats, quiet>>

-----------------------------------------------------------------------------
AcceptLoop ==
    \/ AcceptCheck \/ AcceptNothing \/ AcceptClient \/ AcceptPush \/ AcceptCount
    \/ AcceptSpawn \/ AcceptUndo \/ Reap \/ ReapJoin
SessionLoop(s) ==
    \/ WorkerCheck(s) \/ WorkerReceive(s) \/ WorkerTimers(s) \/ WorkerClose(s)
    \/ WorkerUncount(s)
CallStep(t) ==
    \/ Lock(t) \/ Request(t) \/ InterruptAll(t) \/ JoinAccept(t) \/ Swap(t) \/ Join(t)
    \/ Run(t) \/ Unlock(t) \/ Send(t)

Next ==
    \/ AcceptLoop
    \/ \E s \in Ids : SessionLoop(s) \/ HandlerEnds(s)
    \/ \E t \in Threads : CallStop(t) \/ CallStart(t) \/ CallSend(t) \/ CallStep(t)

Spec == Init /\ [][Next]_vars

(***************************************************************************)
(* Fairness: the threads of the manager and calls in progress go on, the   *)
(* user's handler ends (strongly fair: it may call the manager meanwhile), *)
(* and lifecycle_mutex is granted to a thread that asks again and again.   *)
(***************************************************************************)
FairSpec ==
    /\ Spec
    /\ WF_vars(AcceptLoop)
    /\ \A s \in Ids : WF_vars(SessionLoop(s)) /\ SF_vars(HandlerEnds(s))
    /\ \A t \in Threads : SF_vars(CallStep(t))

-----------------------------------------------------------------------------
TypeOK ==
    /\ max_clients \in client_limits
    /\ running \in BOOLEAN /\ quiet \in BOOLEAN
    /\ lifecycle_mutex \in Threads \cup {NoThread}
    /\ acceptor \in {"none", "check", "accept", "push", "count", "spawn", "undo", "reap",
                     "join", "last_reap", "last_join", "exit"}
    /\ next_session_id \in 1..(MaxSessions + 1)
    /\ reaping \subseteq Ids /\ sessions \subseteq Ids
    /\ live \in [Ids -> BOOLEAN] /\ interrupted \in [Ids -> BOOLEAN]
    /\ joinable \in [Ids -> BOOLEAN]
    /\ worker \in [Ids -> {"new", "queued", "counted", "check", "receive", "handler",
                           "timers", "close", "uncount", "exit"}]
    /\ call \in [Threads -> {"none", "lock", "request", "interrupt", "join_accept", "swap",
                             "join", "run", "unlock", "send"}]
    /\ goal \in [Threads -> {"start", "stop"}]
    /\ todo \in [Threads -> SUBSET Ids]
    /\ stats \in [{"accepted", "active", "disconnected"} -> Nat]

Active == {s \in Ids : live[s]}

(***************************************************************************)
(* Never more than max_clients sessions are served, although the limit is  *)
(* compared with a counter that workers change on their own.               *)
(***************************************************************************)
ClientLimit == Cardinality(Active) <= max_clients /\ stats.active <= max_clients

(***************************************************************************)
(* Every admitted session is counted as active and then, exactly once, as  *)
(* disconnected, whether its worker ends it or could not be started; the   *)
(* counter is off by sessions in the middle of either step only.           *)
(***************************************************************************)
SessionAccounting ==
    /\ stats.accepted = stats.active + stats.disconnected
    /\ stats.active = Cardinality(Active) + Cardinality({s \in Ids : worker[s] = "uncount"})
                        - Cardinality({s \in Ids : worker[s] = "queued"})

(***************************************************************************)
(* No session loses its thread unjoined: the destructor of a joinable      *)
(* std::thread would end the process.  A joinable worker is registered or  *)
(* on the list of exactly one thread that is going to join it.             *)
(***************************************************************************)
WorkersJoined ==
    LET Joiners == {t \in Threads : call[t] = "join"} IN
    \A s \in Ids : joinable[s] =>
       Cardinality({t \in Joiners : s \in todo[t]})
         + (IF s \in sessions THEN 1 ELSE 0) + (IF s \in reaping THEN 1 ELSE 0) = 1

(***************************************************************************)
(* When stop() has finished and nobody has called start() since, nothing   *)
(* is left: no accept thread, no worker, no session, no usable connection, *)
(* although clients were being admitted while stop() ran.                  *)
(***************************************************************************)
StopQuiesces ==
    quiet =>
       /\ ~running /\ acceptor = "none" /\ sessions = {}
       /\ stats.active = 0
       /\ \A s \in Ids : /\ worker[s] \in {"new", "exit"} /\ ~joinable[s]
                         /\ s < next_session_id => interrupted[s]

(***************************************************************************)
(* Every start(), stop(), send_to() and broadcast() returns, from the      *)
(* application and from handlers that the application's stop() is about to *)
(* join.                                                                   *)
(***************************************************************************)
CallsReturn == \A t \in Threads : call[t] # "none" ~> call[t] = "none"

(***************************************************************************)
(* A request from a handler is enough to wind the manager down: once       *)
(* running is false the threads end by themselves, unless it is started    *)
(* again.                                                                  *)
(***************************************************************************)
WindsDown ==
    ~running ~> running \/ (/\ acceptor \in {"none", "exit"}
                            /\ \A s \in Ids : worker[s] \in {"new", "exit"})
=============================================================================

---------------------- MODULE TcpSessionManagerProofs ----------------------
(***************************************************************************)
(* Machine-checked proofs about TcpSessionManager, for any application     *)
(* threads, any client limit and any number of admitted sessions.          *)
(***************************************************************************)
EXTENDS TcpSessionManager, FiniteSetTheorems, TLAPS

ServedLabels == {"check", "receive", "handler", "timers", "close"}
WorkerLabels == {"new", "queued", "counted", "uncount", "exit"} \cup ServedLabels
CallLabels == {"none", "lock", "request", "interrupt", "join_accept", "swap", "join", "run",
               "unlock", "send"}
HoldingLabels == {"join_accept", "swap", "join", "run", "unlock"}

ManagerTypes ==
  /\ max_clients \in Nat
  /\ running \in BOOLEAN
  /\ next_session_id \in 1..(MaxSessions + 1)
  /\ reaping \subseteq Ids /\ sessions \subseteq Ids
  /\ live \in [Ids -> BOOLEAN] /\ interrupted \in [Ids -> BOOLEAN]
  /\ joinable \in [Ids -> BOOLEAN]
  /\ worker \in [Ids -> WorkerLabels]
  /\ call \in [Threads -> CallLabels]
  /\ todo \in [Threads -> SUBSET Ids]

\* Where the worker of s is, by where the accept thread is with s.
Stage(s) ==
  /\ live[s] <=> worker[s] \in {"queued", "counted"} \cup ServedLabels
  /\ worker[s] = "queued" <=> acceptor = "count" /\ s = Arriving
  /\ worker[s] = "counted" <=> acceptor = "spawn" /\ s = Arriving
  /\ acceptor = "push" /\ s = Arriving => worker[s] = "new"
  /\ acceptor = "undo" /\ s = Arriving => worker[s] = "uncount" /\ ~joinable[s]
  /\ s >= next_session_id => worker[s] = "new"
  /\ worker[s] \in ServedLabels => joinable[s]
  /\ worker[s] = "uncount" => joinable[s] \/ (acceptor = "undo" /\ s = Arriving)
  /\ joinable[s] => worker[s] \in ServedLabels \cup {"uncount", "exit"}
  /\ worker[s] \in {"uncount", "exit"} => interrupted[s]
  /\ worker[s] = "new" /\ s < next_session_id =>
        interrupted[s] \/ (acceptor = "push" /\ s = Arriving)

Staged ==
  /\ \A s \in Ids : Stage(s)
  /\ acceptor \in {"push", "count", "spawn", "undo"} => Arriving \in Ids

\* A worker to be joined is on the list of who is to join it.
Registered ==
  /\ acceptor \in {"count", "spawn", "undo"} => Arriving \in sessions
  /\ acceptor \notin {"join", "last_join"} => reaping = {}
  /\ sessions \cap reaping = {}
  /\ \A s \in Ids : joinable[s] =>
        s \in sessions \cup reaping \/ \E t \in Threads : call[t] = "join" /\ s \in todo[t]

\* No worker runs or is left to be joined.
Idle == \A s \in Ids : worker[s] \in {"new", "exit"} /\ ~joinable[s]

Holds(t) == \/ call[t] \in HoldingLabels
            \/ t \in Callers /\ call[t] \in {"request", "interrupt"}

\* What the owner of lifecycle_mutex has done so far.
Progress(t) ==
  /\ Holds(t) <=> lifecycle_mutex = t
  /\ Holds(t) /\ call[t] # "request" => ~running
  /\ call[t] \in {"swap", "join", "run", "unlock"} => acceptor = "none"
  /\ call[t] \in {"join", "run", "unlock"} => sessions = {}
  /\ call[t] \in {"run", "unlock"} => Idle

Lifecycle ==
  /\ \A t \in Ids : call[t] \in {"none", "request", "interrupt", "send"}
  /\ \A t \in Threads : Progress(t)
  /\ quiet => ~running /\ acceptor = "none" /\ sessions = {} /\ Idle

Counted == {s \in Ids : worker[s] \in {"counted", "uncount"} \cup ServedLabels}

\* The counters of active and of all sessions, and the limit.
Counts ==
  /\ stats \in [accepted : Nat, active : Nat, disconnected : Nat]
  /\ stats.accepted = stats.active + stats.disconnected
  /\ stats.active = Cardinality(Counted)
  /\ stats.active <= max_clients
  /\ acceptor \in {"push", "count"} => stats.active < max_clients

\* The inductive invariant.
ManagerInv == ManagerTypes /\ Staged /\ Registered /\ Lifecycle /\ Counts

-----------------------------------------------------------------------------
LEMMA IdsTyped == Ids \subseteq Nat /\ Ids \subseteq Threads /\ Callers \subseteq Threads
                    /\ Callers \cap Ids = {} /\ NoThread \notin Threads
  BY BoundAssumption, CallersAssumption DEF Ids, Threads

\* What an interruption does.
LEMMA Interrupting ==
  ASSUME interrupted \in [Ids -> BOOLEAN], NEW S, Interrupt(S)
  PROVE  /\ interrupted' \in [Ids -> BOOLEAN]
         /\ \A s \in Ids : interrupted[s] => interrupted'[s]
         /\ \A s \in S \cap Ids : interrupted'[s]
  BY DEF Interrupt

LEMMA WorkerMoves ==
  ASSUME worker \in [Ids -> WorkerLabels], NEW s \in Ids, NEW l \in WorkerLabels, WorkerTo(s, l)
  PROVE  /\ worker' \in [Ids -> WorkerLabels] /\ worker'[s] = l
         /\ \A r \in Ids \ {s} : worker'[r] = worker[r]
  BY DEF WorkerTo

LEMMA Entering ==
  ASSUME call \in [Threads -> CallLabels], NEW t \in Threads, NEW l \in CallLabels, Enter(t, l)
  PROVE  /\ call' \in [Threads -> CallLabels] /\ call'[t] = l
         /\ \A u \in Threads \ {t} : call'[u] = call[u]
  BY DEF Enter

\* The calls that touch neither the accept thread nor the sessions.
QuietCall(t) ==
  \/ CallStop(t) \/ CallStart(t) \/ CallSend(t) \/ Lock(t) \/ Request(t) \/ Unlock(t)

LEMMA QuietCallKeeps ==
  ASSUME NEW t \in Threads, QuietCall(t)
  PROVE  UNCHANGED <<max_clients, acceptVars, sessionVars, stats>>
  BY DEF QuietCall, CallStop, CallStart, CallSend, Lock, Request, Unlock

\* Every step of a thread that makes a call enters some place of it.
LEMMA CallsEnter ==
  ASSUME NEW t \in Threads, CallStop(t) \/ CallStart(t) \/ CallSend(t) \/ CallStep(t)
  PROVE  \E l \in CallLabels : Enter(t, l)
<1> USE DEF CallLabels
<1>1. CASE CallStop(t)
  BY <1>1 DEF CallStop
<1>2. CASE CallStart(t) \/ CallSend(t)
  BY <1>2 DEF CallStart, CallSend
<1>3. CASE Lock(t) \/ Request(t) \/ Run(t) \/ Unlock(t)
  BY <1>3 DEF Lock, Request, Run, Unlock, Return
<1>4. CASE InterruptAll(t)
  BY <1>4 DEF InterruptAll
<1>5. CASE JoinAccept(t) \/ Swap(t)
  BY <1>5 DEF JoinAccept, Swap
<1>6. CASE Join(t)
  BY <1>6 DEF Join
<1>7. CASE Send(t)
  BY <1>7 DEF Send
<1> QED BY <1>1, <1>2, <1>3, <1>4, <1>5, <1>6, <1>7 DEF CallStep

LEMMA TypesStep ==
  ASSUME ManagerTypes, Staged, [Next]_vars
  PROVE  ManagerTypes'
<1>1. CASE UNCHANGED vars
  BY <1>1 DEF vars, acceptVars, sessionVars, callVars, ManagerTypes
<1>2. acceptor \in {"push", "count", "spawn", "undo"} => Arriving \in Ids
  BY DEF Staged
<1>3. ASSUME NEW s \in Ids, NEW l \in WorkerLabels, WorkerTo(s, l)
      PROVE  worker' \in [Ids -> WorkerLabels]
  BY <1>3, WorkerMoves DEF ManagerTypes
<1>4. ASSUME NEW S, Interrupt(S) PROVE interrupted' \in [Ids -> BOOLEAN]
  BY <1>4 DEF Interrupt, ManagerTypes
<1>5. CASE AcceptCheck \/ AcceptNothing
  BY <1>5 DEF AcceptCheck, AcceptNothing, ManagerTypes, sessionVars, callVars
<1>6. CASE AcceptClient
  <2>1. next_session_id' \in 1..(MaxSessions + 1)
    BY <1>6, BoundAssumption DEF AcceptClient, ManagerTypes
  <2> QED BY <1>6, <2>1 DEF AcceptClient, ManagerTypes, sessionVars, callVars
<1>7. CASE AcceptPush
  <2>1. worker' \in [Ids -> WorkerLabels]
    BY <1>2, <1>3, <1>7 DEF AcceptPush, ManagerTypes, WorkerLabels
  <2>2. live' \in [Ids -> BOOLEAN] /\ sessions' \subseteq Ids
    BY <1>2, <1>7 DEF AcceptPush, ManagerTypes
  <2>3. interrupted' \in [Ids -> BOOLEAN]
    BY <1>4, <1>7 DEF AcceptPush, ManagerTypes
  <2> QED BY <1>7, <2>1, <2>2, <2>3 DEF AcceptPush, ManagerTypes, callVars
<1>8. CASE AcceptCount \/ AcceptUndo
  <2>1. worker' \in [Ids -> WorkerLabels]
    BY <1>2, <1>3, <1>8 DEF AcceptCount, AcceptUndo, WorkerLabels
  <2>2. sessions' \subseteq Ids
    BY <1>8 DEF AcceptCount, AcceptUndo, ManagerTypes
  <2> QED BY <1>8, <2>1, <2>2 DEF AcceptCount, AcceptUndo, ManagerTypes, callVars
<1>9. CASE AcceptSpawn
  <2>1. worker' \in [Ids -> WorkerLabels]
    BY <1>2, <1>3, <1>9 DEF AcceptSpawn, WorkerLabels, ServedLabels
  <2>2. live' \in [Ids -> BOOLEAN] /\ joinable' \in [Ids -> BOOLEAN]
    BY <1>2, <1>9 DEF AcceptSpawn, ManagerTypes
  <2>3. interrupted' \in [Ids -> BOOLEAN]
    BY <1>4, <1>9 DEF AcceptSpawn, ManagerTypes
  <2> QED BY <1>9, <2>1, <2>2, <2>3 DEF AcceptSpawn, ManagerTypes, callVars
<1>10. CASE Reap \/ ReapJoin
  <2>1. reaping' \subseteq Ids /\ sessions' \subseteq Ids
    BY <1>10 DEF Reap, ReapJoin, Finished, ManagerTypes
  <2>2. joinable' \in [Ids -> BOOLEAN]
    BY <1>10 DEF Reap, ReapJoin, ManagerTypes
  <2> QED BY <1>10, <2>1, <2>2 DEF Reap, ReapJoin, ManagerTypes, callVars
<1>11. ASSUME NEW s \in Ids,
              \/ WorkerCheck(s) \/ WorkerReceive(s) \/ WorkerTimers(s) \/ WorkerUncount(s)
              \/ HandlerEnds(s)
       PROVE  ManagerTypes'
  <2>1. worker' \in [Ids -> WorkerLabels]
    BY <1>3, <1>11 DEF WorkerCheck, WorkerReceive, WorkerTimers, WorkerUncount, HandlerEnds,
                       WorkerLabels, ServedLabels
  <2> QED BY <1>11, <2>1 DEF WorkerCheck, WorkerReceive, WorkerTimers, WorkerUncount, HandlerEnds,
                             ManagerTypes, acceptVars, callVars
<1>12. ASSUME NEW s \in Ids, WorkerClose(s) PROVE ManagerTypes'
  <2>1. worker' \in [Ids -> WorkerLabels]
    BY <1>3, <1>12 DEF WorkerClose, WorkerLabels
  <2>2. live' \in [Ids -> BOOLEAN] /\ interrupted' \in [Ids -> BOOLEAN]
    BY <1>4, <1>12 DEF WorkerClose, ManagerTypes
  <2> QED BY <1>12, <2>1, <2>2 DEF WorkerClose, ManagerTypes, acceptVars, callVars
<1>13. ASSUME NEW t \in Threads, CallStop(t) \/ CallStart(t) \/ CallSend(t) \/ CallStep(t)
       PROVE  ManagerTypes'
  <2>1. call' \in [Threads -> CallLabels]
    BY <1>13, CallsEnter, Entering DEF ManagerTypes
  <2>2. CASE QuietCall(t)
    <3>1. UNCHANGED <<max_clients, acceptVars, sessionVars>>
      BY <2>2, QuietCallKeeps
    <3>2. todo' \in [Threads -> SUBSET Ids]
      BY <2>2 DEF QuietCall, CallStop, CallStart, CallSend, Lock, Request, Unlock, ManagerTypes
    <3>3. running' \in BOOLEAN
      BY <2>2 DEF QuietCall, CallStop, CallStart, CallSend, Lock, Request, Unlock, ManagerTypes
    <3> QED BY <2>1, <3>1, <3>2, <3>3 DEF acceptVars, sessionVars, ManagerTypes
  <2>3. CASE InterruptAll(t) \/ JoinAccept(t) \/ Run(t)
    <3>1. interrupted' \in [Ids -> BOOLEAN]
      BY <1>4, <2>3 DEF InterruptAll, JoinAccept, Run, sessionVars, ManagerTypes
    <3>2. running' \in BOOLEAN
      BY <2>3 DEF InterruptAll, JoinAccept, Run, ManagerTypes
    <3> QED BY <2>1, <2>3, <3>1, <3>2 DEF InterruptAll, JoinAccept, Run, acceptVars, sessionVars,
                                          ManagerTypes
  <2>4. CASE Swap(t)
    <3>1. interrupted' \in [Ids -> BOOLEAN]
      BY <1>4, <2>4 DEF Swap
    <3>2. todo' \in [Threads -> SUBSET Ids] /\ sessions' \subseteq Ids
      BY <2>4 DEF Swap, ManagerTypes
    <3> QED BY <2>1, <2>4, <3>1, <3>2 DEF Swap, acceptVars, ManagerTypes
  <2>5. CASE Join(t)
    <3>1. todo' \in [Threads -> SUBSET Ids] /\ joinable' \in [Ids -> BOOLEAN]
      BY <2>5 DEF Join, ManagerTypes
    <3> QED BY <2>1, <2>5, <3>1 DEF Join, acceptVars, ManagerTypes
  <2>6. CASE Send(t)
    <3>1. interrupted' \in [Ids -> BOOLEAN]
      BY <1>4, <2>6 DEF Send, ManagerTypes
    <3>2. todo' \in [Threads -> SUBSET Ids]
      BY <2>6 DEF Send, ManagerTypes
    <3> QED BY <2>1, <2>6, <3>1, <3>2 DEF Send, acceptVars, ManagerTypes
  <2> QED BY <1>13, <2>2, <2>3, <2>4, <2>5, <2>6 DEF QuietCall, CallStep
<1> QED BY <1>1, <1>5, <1>6, <1>7, <1>8, <1>9, <1>10, <1>11, <1>12, <1>13
        DEF Next, AcceptLoop, SessionLoop

-----------------------------------------------------------------------------
\* The places of the accept thread where it admits a client.
Admitting == {"push", "count", "spawn", "undo"}

\* The stages of the workers.
LEMMA StagedStep ==
  ASSUME ManagerTypes, Staged, Lifecycle, [Next]_vars
  PROVE  Staged'
<1>0. /\ next_session_id \in Nat /\ Arriving = next_session_id - 1 /\ Ids \subseteq Nat
      /\ live \in [Ids -> BOOLEAN] /\ joinable \in [Ids -> BOOLEAN]
      /\ interrupted \in [Ids -> BOOLEAN] /\ worker \in [Ids -> WorkerLabels]
  BY IdsTyped DEF ManagerTypes, Arriving
<1>1. \A s \in Ids : Stage(s)
  BY DEF Staged
<1>2. acceptor \in Admitting => Arriving \in Ids
  BY DEF Staged, Admitting
\* Connections may be interrupted and finished workers joined; the accept
\* thread may move while it is not admitting a client.
<1>3. ASSUME UNCHANGED <<live, worker, next_session_id>>,
             acceptor' = acceptor \/ (acceptor \notin Admitting /\ acceptor' \notin Admitting),
             \A s \in Ids : /\ interrupted[s] => interrupted'[s]
                            /\ joinable'[s] => joinable[s]
                            /\ joinable[s] => joinable'[s] \/ worker[s] = "exit"
      PROVE  Staged'
  <2>1. Arriving' = Arriving
    BY <1>3 DEF Arriving
  <2>2. ASSUME NEW s \in Ids PROVE Stage(s)'
    <3>1. Stage(s)
      BY <1>1
    <3> QED BY <1>3, <2>1, <3>1 DEF Stage, Admitting, ServedLabels
  <2> QED BY <1>2, <1>3, <2>1, <2>2 DEF Staged, Admitting
\* Only the worker of s moves.
<1>4. ASSUME NEW s \in Ids, NEW l \in WorkerLabels, WorkerTo(s, l),
             UNCHANGED <<acceptor, next_session_id, joinable>>,
             worker[s] \in ServedLabels \cup {"uncount"}, joinable[s],
             l \in ServedLabels \cup {"uncount", "exit"},
             \A r \in Ids \ {s} : live'[r] = live[r],
             live'[s] <=> l \in ServedLabels,
             \A r \in Ids : interrupted[r] => interrupted'[r],
             l \in {"uncount", "exit"} => interrupted'[s]
      PROVE  Staged'
  <2>1. Arriving' = Arriving
    BY <1>4 DEF Arriving
  <2>2. worker'[s] = l /\ \A r \in Ids \ {s} : worker'[r] = worker[r]
    BY <1>0, <1>4, WorkerMoves
  <2>3. ASSUME NEW r \in Ids \ {s} PROVE Stage(r)'
    <3>1. Stage(r)
      BY <1>1
    <3>2. /\ worker'[r] = worker[r] /\ live'[r] = live[r] /\ joinable'[r] = joinable[r]
          /\ acceptor' = acceptor /\ next_session_id' = next_session_id
          /\ interrupted[r] => interrupted'[r]
      BY <1>4, <2>2
    <3> QED BY <2>1, <3>1, <3>2 DEF Stage
  <2>4. Stage(s)'
    <3>1. Stage(s)
      BY <1>1
    <3> QED BY <1>4, <2>1, <2>2, <3>1 DEF Stage, ServedLabels
  <2> QED BY <1>2, <1>4, <2>1, <2>3, <2>4 DEF Staged, Admitting
<1>5. CASE UNCHANGED vars
  BY <1>3, <1>5 DEF vars, acceptVars, sessionVars
<1>6. ASSUME NEW t \in Threads, CallStop(t) \/ CallStart(t) \/ CallSend(t) \/ CallStep(t)
      PROVE  Staged'
  <2>1. CASE QuietCall(t)
    BY <1>3, <2>1, QuietCallKeeps DEF acceptVars, sessionVars
  <2>2. CASE InterruptAll(t) \/ Swap(t) \/ Send(t)
    <3>1. \A s \in Ids : interrupted[s] => interrupted'[s]
      BY <1>0, <2>2, Interrupting DEF InterruptAll, Swap, Send
    <3>2. UNCHANGED <<live, worker, next_session_id, acceptor, joinable>>
      BY <2>2 DEF InterruptAll, Swap, Send, acceptVars
    <3> QED BY <1>3, <3>1, <3>2
  <2>3. CASE JoinAccept(t)
    BY <1>3, <2>3 DEF JoinAccept, sessionVars, Admitting
  <2>4. CASE Run(t)
    <3>1. acceptor = "none"
      BY <2>4 DEF Run, Lifecycle, Progress
    <3> QED BY <1>3, <2>4, <3>1 DEF Run, sessionVars, Admitting
  <2>5. CASE Join(t)
    <3>1. \A s \in Ids : /\ joinable'[s] => joinable[s]
                         /\ joinable[s] => joinable'[s] \/ worker[s] = "exit"
      BY <2>5 DEF Join
    <3> QED BY <1>3, <2>5, <3>1 DEF Join, acceptVars
  <2> QED BY <1>6, <2>1, <2>2, <2>3, <2>4, <2>5 DEF QuietCall, CallStep
<1>7. CASE AcceptCheck \/ AcceptNothing \/ Reap
  <2>1. /\ UNCHANGED <<live, worker, next_session_id, interrupted, joinable>>
        /\ acceptor \notin Admitting /\ acceptor' \notin Admitting
    BY <1>7 DEF AcceptCheck, AcceptNothing, Reap, Admitting, sessionVars
  <2> QED BY <1>3, <2>1
<1>8. CASE ReapJoin
  <2>1. \A s \in Ids : /\ joinable'[s] => joinable[s]
                       /\ joinable[s] => joinable'[s] \/ worker[s] = "exit"
    BY <1>8 DEF ReapJoin
  <2> QED BY <1>3, <1>8, <2>1 DEF ReapJoin, Admitting
<1>9. CASE AcceptClient
  <2>1. CASE acceptor' = "check"
    BY <1>3, <1>9, <2>1 DEF AcceptClient, sessionVars, Admitting
  <2>2. CASE acceptor' # "check"
    <3>1. /\ acceptor = "accept" /\ acceptor' = "push" /\ next_session_id <= MaxSessions
          /\ next_session_id' = next_session_id + 1
          /\ UNCHANGED <<live, worker, interrupted, joinable>>
      BY <1>9, <2>2 DEF AcceptClient, sessionVars
    <3>2. Arriving' = next_session_id /\ next_session_id \in Ids
      BY <1>0, <3>1, BoundAssumption DEF Arriving, Ids, ManagerTypes
    <3>3. ASSUME NEW s \in Ids PROVE Stage(s)'
      <4>1. Stage(s) /\ s \in Nat
        BY <1>0, <1>1
      <4>2. /\ s >= next_session_id' => s >= next_session_id
            /\ s < next_session_id' => s < next_session_id \/ s = Arriving'
            /\ s = Arriving' => s >= next_session_id
        BY <1>0, <3>1, <3>2, <4>1
      <4> QED BY <3>1, <4>1, <4>2 DEF Stage, ServedLabels
    <3> QED BY <3>2, <3>3 DEF Staged
  <2> QED BY <2>1, <2>2
\* The accept thread moves the worker of the arriving session.
<1>10. ASSUME acceptor \in Admitting, acceptor' \notin {"push"}, next_session_id' = next_session_id,
              NEW l \in WorkerLabels, WorkerTo(Arriving, l),
              \A r \in Ids \ {Arriving} : live'[r] = live[r] /\ joinable'[r] = joinable[r],
              \A r \in Ids : interrupted[r] => interrupted'[r],
              Stage(Arriving)'
       PROVE  Staged'
  <2>1. PICK a \in Ids : a = Arriving
    BY <1>2, <1>10
  <2>2. Arriving' = a
    BY <1>10, <2>1 DEF Arriving
  <2>3. worker'[a] = l /\ \A r \in Ids \ {a} : worker'[r] = worker[r]
    BY <1>0, <1>10, <2>1, WorkerMoves
  <2>4. ASSUME NEW r \in Ids, r # a PROVE Stage(r)'
    <3>1. Stage(r)
      BY <1>1
    <3>2. /\ worker'[r] = worker[r] /\ live'[r] = live[r] /\ joinable'[r] = joinable[r]
          /\ next_session_id' = next_session_id
          /\ interrupted[r] => interrupted'[r]
      BY <1>10, <2>1, <2>3, <2>4
    <3> QED BY <2>1, <2>2, <2>4, <3>1, <3>2 DEF Stage, ServedLabels
  <2>5. Stage(a)'
    BY <1>10, <2>2
  <2> QED BY <2>2, <2>4, <2>5 DEF Staged
<1> USE DEF Admitting, WorkerLabels, ServedLabels
<1>11. CASE AcceptPush
  <2>1. PICK a \in Ids : a = Arriving
    BY <1>2, <1>11 DEF AcceptPush
  <2>2. Stage(a) /\ a < next_session_id /\ ~(a >= next_session_id)
    BY <1>0, <1>1, <2>1
  <2>3. CASE acceptor' = "count"
    <3>1. /\ live' = [live EXCEPT ![a] = TRUE] /\ WorkerTo(a, "queued")
          /\ UNCHANGED <<interrupted, joinable, next_session_id>> /\ acceptor = "push"
      BY <1>11, <2>1, <2>3 DEF AcceptPush
    <3>2. worker'[a] = "queued" /\ live'[a] /\ Arriving' = a
      BY <1>0, <2>1, <3>1, WorkerMoves DEF Arriving
    <3>3. Stage(a)'
      BY <2>1, <2>2, <2>3, <3>1, <3>2 DEF Stage
    <3> QED BY <1>0, <1>10, <2>1, <2>3, <3>1, <3>2, <3>3
  <2>4. CASE acceptor' = "check"
    <3>1. /\ Interrupt({a}) /\ acceptor = "push"
          /\ UNCHANGED <<live, worker, joinable, next_session_id>>
      BY <1>11, <2>1, <2>4 DEF AcceptPush
    <3>2. interrupted'[a] /\ \A s \in Ids : interrupted[s] => interrupted'[s]
      BY <1>0, <3>1, Interrupting
    <3>3. Arriving' = Arriving
      BY <3>1 DEF Arriving
    <3>4. ASSUME NEW s \in Ids PROVE Stage(s)'
      <4>1. Stage(s)
        BY <1>1
      <4> QED BY <2>1, <2>4, <3>1, <3>2, <3>3, <4>1 DEF Stage
    <3> QED BY <2>4, <3>4 DEF Staged
  <2> QED BY <1>11, <2>3, <2>4 DEF AcceptPush
<1>12. CASE AcceptCount
  <2>1. PICK a \in Ids : a = Arriving
    BY <1>2, <1>12 DEF AcceptCount
  <2>2. /\ acceptor = "count" /\ acceptor' = "spawn" /\ WorkerTo(a, "counted")
        /\ UNCHANGED <<live, interrupted, joinable, next_session_id>>
    BY <1>12, <2>1 DEF AcceptCount
  <2>3. worker'[a] = "counted" /\ Arriving' = a
    BY <1>0, <2>1, <2>2, WorkerMoves DEF Arriving
  <2>4. Stage(a) /\ a < next_session_id /\ ~(a >= next_session_id)
    BY <1>0, <1>1, <2>1
  <2>5. Stage(a)'
    BY <2>1, <2>2, <2>3, <2>4 DEF Stage
  <2> QED BY <1>10, <2>1, <2>2, <2>3, <2>5
<1>13. CASE AcceptSpawn
  <2>1. PICK a \in Ids : a = Arriving
    BY <1>2, <1>13 DEF AcceptSpawn
  <2>2. Stage(a) /\ a < next_session_id /\ ~(a >= next_session_id)
    BY <1>0, <1>1, <2>1
  <2>3. acceptor = "spawn" /\ next_session_id' = next_session_id /\ Arriving' = a
    BY <1>13, <2>1 DEF AcceptSpawn, Arriving
  <2>4. CASE acceptor' = "reap"
    <3>1. /\ WorkerTo(a, "check") /\ joinable' = [joinable EXCEPT ![a] = TRUE]
          /\ UNCHANGED <<live, interrupted>>
      BY <1>13, <2>1, <2>4 DEF AcceptSpawn
    <3>2. worker'[a] = "check" /\ joinable'[a]
      BY <1>0, <3>1, WorkerMoves
    <3>3. Stage(a)'
      BY <2>1, <2>2, <2>3, <2>4, <3>1, <3>2 DEF Stage
    <3> QED BY <1>0, <1>10, <2>1, <2>3, <2>4, <3>1, <3>3
  <2>5. CASE acceptor' = "undo"
    <3>1. /\ WorkerTo(a, "uncount") /\ live' = [live EXCEPT ![a] = FALSE]
          /\ Interrupt({a}) /\ UNCHANGED joinable
      BY <1>13, <2>1, <2>5 DEF AcceptSpawn
    <3>2. /\ worker'[a] = "uncount" /\ ~live'[a] /\ interrupted'[a]
          /\ \A s \in Ids : interrupted[s] => interrupted'[s]
      BY <1>0, <3>1, WorkerMoves, Interrupting
    <3>3. ~joinable'[a]
      BY <2>1, <2>2, <2>3, <3>1 DEF Stage
    <3>4. Stage(a)'
      BY <2>1, <2>2, <2>3, <2>5, <3>2, <3>3 DEF Stage
    <3> QED BY <1>0, <1>10, <2>1, <2>3, <2>5, <3>1, <3>2, <3>4
  <2> QED BY <1>13, <2>4, <2>5 DEF AcceptSpawn
<1>14. CASE AcceptUndo
  <2>1. PICK a \in Ids : a = Arriving
    BY <1>2, <1>14 DEF AcceptUndo
  <2>2. /\ acceptor = "undo" /\ acceptor' = "check" /\ WorkerTo(a, "exit")
        /\ UNCHANGED <<live, interrupted, joinable, next_session_id>>
    BY <1>14, <2>1 DEF AcceptUndo
  <2>3. worker'[a] = "exit" /\ Arriving' = a
    BY <1>0, <2>1, <2>2, WorkerMoves DEF Arriving
  <2>4. Stage(a) /\ a < next_session_id /\ ~(a >= next_session_id)
    BY <1>0, <1>1, <2>1
  <2>5. Stage(a)'
    BY <2>1, <2>2, <2>3, <2>4 DEF Stage
  <2> QED BY <1>10, <2>1, <2>2, <2>3, <2>5
<1>15. ASSUME NEW s \in Ids,
              WorkerCheck(s) \/ WorkerReceive(s) \/ WorkerTimers(s) \/ HandlerEnds(s)
       PROVE  Staged'
  <2>1. /\ worker[s] \in ServedLabels
        /\ \E l \in ServedLabels : WorkerTo(s, l)
        /\ UNCHANGED <<acceptor, next_session_id, joinable, live, interrupted>>
    BY <1>15 DEF WorkerCheck, WorkerReceive, WorkerTimers, HandlerEnds, acceptVars
  <2>2. joinable[s] /\ live[s]
    BY <1>1, <2>1 DEF Stage
  <2> QED BY <1>4, <2>1, <2>2
<1>16. ASSUME NEW s \in Ids, WorkerClose(s) PROVE Staged'
  <2>1. Stage(s) /\ worker[s] = "close"
    BY <1>1, <1>16 DEF WorkerClose
  <2>2. live[s] /\ joinable[s]
    BY <2>1 DEF Stage
  <2>3. /\ WorkerTo(s, "uncount") /\ Interrupt({s}) /\ live' = [live EXCEPT ![s] = FALSE]
        /\ UNCHANGED <<acceptor, next_session_id, joinable>>
    BY <1>16, <2>2 DEF WorkerClose, acceptVars
  <2>4. interrupted'[s] /\ \A r \in Ids : interrupted[r] => interrupted'[r]
    BY <1>0, <2>3, Interrupting
  <2> QED BY <1>0, <1>4, <2>1, <2>2, <2>3, <2>4
<1>17. ASSUME NEW s \in Ids, WorkerUncount(s) PROVE Staged'
  <2>1. Stage(s)
    BY <1>1
  <2>2. /\ WorkerTo(s, "exit") /\ worker[s] = "uncount" /\ joinable[s]
        /\ UNCHANGED <<acceptor, next_session_id, joinable, live, interrupted>>
    BY <1>17 DEF WorkerUncount, acceptVars
  <2>3. ~live[s] /\ interrupted[s]
    BY <2>1, <2>2 DEF Stage
  <2> QED BY <1>4, <2>2, <2>3
<1> QED BY <1>5, <1>6, <1>7, <1>8, <1>9, <1>11, <1>12, <1>13, <1>14, <1>15, <1>16, <1>17
        DEF Next, AcceptLoop, SessionLoop

-----------------------------------------------------------------------------
\* The steps of the workers' threads leave the rest alone.
SessionStep(s) == SessionLoop(s) \/ HandlerEnds(s)

LEMMA SessionStepKeeps ==
  ASSUME NEW s \in Ids, SessionStep(s)
  PROVE  UNCHANGED <<max_clients, running, lifecycle_mutex, acceptVars, sessions, joinable,
                     callVars, quiet>>
  BY DEF SessionStep, SessionLoop, WorkerCheck, WorkerReceive, WorkerTimers, WorkerClose,
         WorkerUncount, HandlerEnds

\* Those of the accept thread leave the calls alone.
LEMMA AcceptLoopKeeps ==
  ASSUME AcceptLoop
  PROVE  UNCHANGED <<max_clients, running, lifecycle_mutex, callVars, quiet>>
  BY DEF AcceptLoop, AcceptCheck, AcceptNothing, AcceptClient, AcceptPush, AcceptCount,
         AcceptSpawn, AcceptUndo, Reap, ReapJoin

\* Who joins a worker keeps it on his list until then.
JoinerOf(s) == \E t \in Threads : call[t] = "join" /\ s \in todo[t]

LEMMA JoinersKept ==
  ASSUME ManagerTypes, NEW t \in Threads, call[t] # "join", NEW l \in CallLabels, Enter(t, l),
         \A u \in Threads \ {t} : todo'[u] = todo[u]
  PROVE  \A s \in Ids : JoinerOf(s) => JoinerOf(s)'
<1>1. \A u \in Threads \ {t} : call'[u] = call[u]
  BY Entering DEF ManagerTypes
<1>2. ASSUME NEW s \in Ids, JoinerOf(s) PROVE JoinerOf(s)'
  <2>1. PICK u \in Threads : call[u] = "join" /\ s \in todo[u]
    BY <1>2 DEF JoinerOf
  <2>2. u # t
    BY <2>1
  <2> QED BY <1>1, <2>1, <2>2 DEF JoinerOf
<1> QED BY <1>2

LEMMA RegisteredStep ==
  ASSUME ManagerTypes, Staged, Registered, Lifecycle, [Next]_vars
  PROVE  Registered'
<1>0. /\ sessions \subseteq Ids /\ reaping \subseteq Ids /\ joinable \in [Ids -> BOOLEAN]
      /\ todo \in [Threads -> SUBSET Ids]
  BY DEF ManagerTypes
<1>1. /\ acceptor \in {"count", "spawn", "undo"} => Arriving \in sessions
      /\ acceptor \notin {"join", "last_join"} => reaping = {}
      /\ sessions \cap reaping = {}
      /\ \A s \in Ids : joinable[s] => s \in sessions \cup reaping \/ JoinerOf(s)
  BY DEF Registered, JoinerOf
<1>2. ASSUME acceptor' \in {"count", "spawn", "undo"} => Arriving' \in sessions',
             acceptor' \notin {"join", "last_join"} => reaping' = {},
             sessions' \cap reaping' = {},
             \A s \in Ids : joinable'[s] => s \in sessions' \cup reaping' \/ JoinerOf(s)'
      PROVE  Registered'
  BY <1>2 DEF Registered, JoinerOf
<1>3. ASSUME UNCHANGED <<acceptor, next_session_id, sessions, reaping>>,
             \A s \in Ids : joinable'[s] => joinable[s],
             \A s \in Ids : joinable'[s] /\ JoinerOf(s) => JoinerOf(s)'
      PROVE  Registered'
  <2>1. Arriving' = Arriving
    BY <1>3 DEF Arriving
  <2> QED BY <1>1, <1>2, <1>3, <2>1
<1>4. CASE UNCHANGED vars
  BY <1>3, <1>4 DEF vars, acceptVars, sessionVars, callVars, JoinerOf
<1>5. ASSUME NEW s \in Ids, SessionStep(s) PROVE Registered'
  BY <1>3, <1>5, SessionStepKeeps DEF acceptVars, callVars, JoinerOf
<1>6. ASSUME NEW t \in Threads, QuietCall(t) \/ InterruptAll(t) \/ Send(t) PROVE Registered'
  <2>1. PICK l \in CallLabels : Enter(t, l)
    BY <1>6, CallsEnter DEF QuietCall, CallStep
  <2>2. /\ call[t] # "join"
        /\ UNCHANGED <<acceptor, next_session_id, sessions, reaping, joinable>>
    BY <1>6 DEF QuietCall, CallStop, CallStart, CallSend, CanCall, Lock, Request, Unlock,
                InterruptAll, Send, acceptVars, sessionVars
  <2>3. \A u \in Threads \ {t} : todo'[u] = todo[u]
    BY <1>0, <1>6 DEF QuietCall, CallStop, CallStart, CallSend, Lock, Request, Unlock,
                      InterruptAll, Send
  <2>4. \A s \in Ids : JoinerOf(s) => JoinerOf(s)'
    BY <2>1, <2>2, <2>3, JoinersKept
  <2> QED BY <1>3, <2>2, <2>4
<1>7. ASSUME NEW t \in Threads, JoinAccept(t) \/ Run(t) PROVE Registered'
  <2>1. PICK l \in CallLabels : Enter(t, l)
    BY <1>7, CallsEnter DEF CallStep
  <2>2. /\ call[t] # "join" /\ acceptor \in {"none", "exit"} /\ acceptor' \in {"none", "check"}
        /\ UNCHANGED <<sessions, reaping, joinable, todo>>
    <3>1. CASE JoinAccept(t)
      BY <3>1 DEF JoinAccept, sessionVars
    <3>2. CASE Run(t)
      <4>1. acceptor = "none"
        BY <3>2 DEF Run, Lifecycle, Progress
      <4> QED BY <3>2, <4>1 DEF Run, sessionVars
    <3> QED BY <1>7, <3>1, <3>2
  <2>3. \A s \in Ids : JoinerOf(s) => JoinerOf(s)'
    BY <2>1, <2>2, JoinersKept
  <2> QED BY <1>1, <1>2, <2>2, <2>3
<1>8. ASSUME NEW t \in Threads, Swap(t) PROVE Registered'
  <2>1. /\ call[t] = "swap" /\ acceptor = "none" /\ reaping = {}
        /\ todo' = [todo EXCEPT ![t] = sessions] /\ sessions' = {} /\ Enter(t, "join")
        /\ UNCHANGED <<acceptor, reaping, joinable>>
    BY <1>1, <1>8 DEF Swap, Lifecycle, Progress, acceptVars
  <2>2. \A s \in Ids : JoinerOf(s) => JoinerOf(s)'
    BY <1>0, <2>1, JoinersKept DEF CallLabels
  <2>3. call'[t] = "join" /\ todo'[t] = sessions
    BY <1>0, <2>1, Entering DEF ManagerTypes, CallLabels
  <2>4. \A s \in sessions : JoinerOf(s)'
    BY <2>3 DEF JoinerOf
  <2> QED BY <1>1, <1>2, <2>1, <2>2, <2>4
<1>9. ASSUME NEW t \in Threads, Join(t) PROVE Registered'
  <2>1. /\ joinable' = [s \in Ids |-> joinable[s] /\ s \notin todo[t]]
        /\ todo' = [todo EXCEPT ![t] = {}]
        /\ UNCHANGED <<acceptor, next_session_id, sessions, reaping>>
        /\ \E l \in CallLabels : Enter(t, l)
    BY <1>9, CallsEnter DEF Join, acceptVars, CallStep
  <2>2. \A u \in Threads \ {t} : call'[u] = call[u] /\ todo'[u] = todo[u]
    BY <1>0, <2>1, Entering DEF ManagerTypes
  <2>3. \A s \in Ids : joinable'[s] => joinable[s] /\ s \notin todo[t]
    BY <2>1
  <2>4. \A s \in Ids : joinable'[s] /\ JoinerOf(s) => JoinerOf(s)'
    BY <2>2, <2>3 DEF JoinerOf
  <2> QED BY <1>3, <2>1, <2>3, <2>4
\* The accept thread makes no call.
<1>10. ASSUME AcceptLoop PROVE \A s \in Ids : JoinerOf(s) <=> JoinerOf(s)'
  BY <1>10, AcceptLoopKeeps DEF callVars, JoinerOf
<1>11. CASE AcceptCheck \/ AcceptNothing \/ AcceptClient
  <2>1. /\ acceptor \in {"check", "accept"}
        /\ acceptor' \in {"accept", "last_reap", "reap", "check", "push"}
        /\ UNCHANGED <<sessions, reaping, joinable>>
    BY <1>11 DEF AcceptCheck, AcceptNothing, AcceptClient, sessionVars
  <2> QED BY <1>1, <1>2, <1>10, <1>11, <2>1 DEF AcceptLoop
<1>12. CASE AcceptPush \/ AcceptCount
  <2>1. /\ acceptor \in {"push", "count"} /\ acceptor' \in {"count", "check", "spawn"}
        /\ sessions \subseteq sessions' /\ UNCHANGED <<reaping, joinable, next_session_id>>
        /\ acceptor' \in {"count", "spawn"} => Arriving \in sessions'
    BY <1>1, <1>12 DEF AcceptPush, AcceptCount
  <2>2. Arriving' = Arriving /\ reaping = {}
    BY <1>1, <2>1 DEF Arriving
  <2> QED BY <1>1, <1>2, <1>10, <1>12, <2>1, <2>2 DEF AcceptLoop
<1>13. CASE AcceptSpawn
  <2>1. PICK a \in sessions : a = Arriving
    BY <1>1, <1>13 DEF AcceptSpawn
  <2>2. /\ acceptor = "spawn" /\ acceptor' \in {"reap", "undo"} /\ Arriving' = a
        /\ joinable' = joinable \/ joinable' = [joinable EXCEPT ![a] = TRUE]
        /\ UNCHANGED <<sessions, reaping>>
    BY <1>13, <2>1 DEF AcceptSpawn, Arriving
  <2>3. \A s \in Ids : joinable'[s] => joinable[s] \/ s = a
    BY <1>0, <2>2
  <2> QED BY <1>1, <1>2, <1>10, <1>13, <2>1, <2>2, <2>3 DEF AcceptLoop
<1>14. CASE AcceptUndo
  <2>1. PICK a \in sessions : a = Arriving
    BY <1>1, <1>14 DEF AcceptUndo
  <2>2. /\ acceptor = "undo" /\ acceptor' = "check" /\ sessions' = sessions \ {a}
        /\ UNCHANGED <<reaping, joinable>>
    BY <1>14, <2>1 DEF AcceptUndo
  <2>3. ~joinable[a]
    BY <1>0, <2>1, <2>2 DEF Staged, Stage
  <2> QED BY <1>1, <1>2, <1>10, <1>14, <2>1, <2>2, <2>3 DEF AcceptLoop
<1>15. CASE Reap
  <2>1. /\ acceptor \in {"reap", "last_reap"} /\ acceptor' \in {"join", "last_join"}
        /\ reaping' = Finished /\ sessions' = sessions \ Finished /\ UNCHANGED joinable
    BY <1>15 DEF Reap
  <2>2. Finished \subseteq sessions /\ reaping = {}
    BY <1>1, <2>1 DEF Finished
  <2> QED BY <1>1, <1>2, <1>10, <1>15, <2>1, <2>2 DEF AcceptLoop
<1>16. CASE ReapJoin
  <2>1. /\ acceptor' \in {"check", "exit"} /\ reaping' = {} /\ UNCHANGED sessions
        /\ \A s \in Ids : joinable'[s] => joinable[s] /\ s \notin reaping
    BY <1>16 DEF ReapJoin
  <2> QED BY <1>1, <1>2, <1>10, <1>16, <2>1 DEF AcceptLoop
<1> QED BY <1>4, <1>5, <1>6, <1>7, <1>8, <1>9, <1>11, <1>12, <1>13, <1>14, <1>15, <1>16
        DEF Next, AcceptLoop, SessionStep, QuietCall, CallStep

-----------------------------------------------------------------------------
\* What start() and stop() have done, and how far they are.
LEMMA LifecycleStep ==
  ASSUME ManagerTypes, Staged, Registered, Lifecycle, [Next]_vars
  PROVE  Lifecycle'
<1>0. /\ call \in [Threads -> CallLabels] /\ Ids \subseteq Threads /\ Callers \subseteq Threads
      /\ Callers \cap Ids = {} /\ NoThread \notin Threads
      /\ Threads = Callers \cup Ids
  BY IdsTyped DEF ManagerTypes, Threads
<1>1. /\ \A t \in Ids : call[t] \in {"none", "request", "interrupt", "send"}
      /\ \A t \in Threads : Progress(t)
      /\ quiet => ~running /\ acceptor = "none" /\ sessions = {} /\ Idle
  BY DEF Lifecycle
<1>2. \A t \in Threads : Holds(t) => t \in Callers /\ lifecycle_mutex = t
  BY <1>0, <1>1 DEF Progress, Holds, HoldingLabels
\* No call goes on, and what the calls rely on stays.
<1>3. ASSUME UNCHANGED <<lifecycle_mutex, running, call, quiet>>,
             acceptor = "none" => UNCHANGED acceptor /\ UNCHANGED sessions /\ (Idle => Idle')
      PROVE  Lifecycle'
  <2>1. ASSUME NEW t \in Threads PROVE Progress(t)'
    <3>1. Progress(t)
      BY <1>1
    <3> QED BY <1>3, <3>1 DEF Progress, Holds
  <2> QED BY <1>1, <1>3, <2>1 DEF Lifecycle
<1>4. CASE UNCHANGED vars
  BY <1>3, <1>4 DEF vars, acceptVars, sessionVars, callVars, Idle
<1>5. ASSUME NEW s \in Ids, SessionStep(s) PROVE Lifecycle'
  <2>1. worker[s] \notin {"new", "exit"}
    BY <1>5 DEF SessionStep, SessionLoop, WorkerCheck, WorkerReceive, WorkerTimers, WorkerClose,
                WorkerUncount, HandlerEnds
  <2>2. ~Idle
    BY <2>1 DEF Idle
  <2> QED BY <1>3, <1>5, <2>2, SessionStepKeeps DEF acceptVars, callVars
<1>6. CASE AcceptLoop
  <2>1. acceptor # "none"
    BY <1>6 DEF AcceptLoop, AcceptCheck, AcceptNothing, AcceptClient, AcceptPush, AcceptCount,
                AcceptSpawn, AcceptUndo, Reap, ReapJoin
  <2> QED BY <1>3, <1>6, <2>1, AcceptLoopKeeps DEF callVars
\* A call of t goes on to l; the others stay where they are.
<1>7. ASSUME NEW t \in Threads, NEW l \in CallLabels, Enter(t, l),
             t \in Ids => l \in {"none", "request", "interrupt", "send"},
             \A u \in Threads \ {t} : Holds(u) =>
                /\ lifecycle_mutex' = lifecycle_mutex
                /\ ~running => ~running'
                /\ UNCHANGED <<acceptor, sessions, worker, joinable>>,
             \A u \in Threads \ {t} : ~Holds(u) => lifecycle_mutex' # u,
             Progress(t)',
             quiet' => ~running' /\ acceptor' = "none" /\ sessions' = {} /\ Idle'
      PROVE  Lifecycle'
  <2>1. call'[t] = l /\ \A u \in Threads \ {t} : call'[u] = call[u]
    BY <1>0, <1>7, Entering
  <2>2. ASSUME NEW u \in Threads \ {t} PROVE Progress(u)'
    <3>1. Progress(u) /\ call'[u] = call[u]
      BY <1>1, <2>1
    <3>2. Holds(u)' <=> Holds(u)
      BY <3>1 DEF Holds
    <3>3. CASE Holds(u)
      <4>1. Idle => Idle'
        BY <1>7, <3>3 DEF Idle
      <4> QED BY <1>7, <3>1, <3>2, <3>3, <4>1 DEF Progress
    <3>4. CASE ~Holds(u)
      BY <1>7, <3>1, <3>2, <3>4 DEF Progress, Holds, HoldingLabels
    <3> QED BY <3>3, <3>4
  <2>3. \A u \in Ids : call'[u] \in {"none", "request", "interrupt", "send"}
    BY <1>0, <1>1, <1>7, <2>1
  <2> QED BY <1>7, <2>2, <2>3 DEF Lifecycle
\* Calls that begin, or end, without the mutex.
<1>8. ASSUME NEW t \in Threads, NEW l \in CallLabels, Enter(t, l), ~Holds(t),
             l \in {"none", "lock", "send", "request", "interrupt"},
             t \in Ids => l # "lock",
             t \in Callers => l \notin {"request", "interrupt"},
             UNCHANGED <<lifecycle_mutex, acceptor, sessions, worker, joinable, quiet>>,
             ~running => ~running'
      PROVE  Lifecycle'
  <2>1. call'[t] = l
    BY <1>0, <1>8, Entering
  <2>2. ~Holds(t)' /\ lifecycle_mutex # t
    BY <1>1, <1>8, <2>1 DEF Holds, HoldingLabels, Progress
  <2>3. Progress(t)'
    BY <1>8, <2>1, <2>2 DEF Progress
  <2>4. \A u \in Threads \ {t} : ~Holds(u) => lifecycle_mutex' # u
    BY <1>1, <1>8 DEF Progress
  <2>5. Idle => Idle'
    BY <1>8 DEF Idle
  <2>6. quiet' => ~running' /\ acceptor' = "none" /\ sessions' = {} /\ Idle'
    BY <1>1, <1>8, <2>5
  <2> QED BY <1>7, <1>8, <2>3, <2>4, <2>6
\* Calls that go on with the mutex.
<1>9. ASSUME NEW t \in Threads, NEW l \in CallLabels, Enter(t, l), lifecycle_mutex = t,
             l \in HoldingLabels \cup {"interrupt"},
             lifecycle_mutex' = t, ~running', quiet' => quiet,
             acceptor = "none" => acceptor' = "none",
             sessions = {} => sessions' = {},
             Idle => Idle',
             l \in {"swap", "join", "run", "unlock"} => acceptor' = "none",
             l \in {"join", "run", "unlock"} => sessions' = {},
             l \in {"run", "unlock"} => Idle'
      PROVE  Lifecycle'
  <2>1. call'[t] = l
    BY <1>0, <1>9, Entering
  <2>2. Holds(t) /\ t \in Callers
    BY <1>1, <1>2, <1>9 DEF Progress
  <2>3. Progress(t)'
    BY <1>9, <2>1, <2>2 DEF Progress, Holds, HoldingLabels
  <2>4. \A u \in Threads \ {t} : ~Holds(u) /\ lifecycle_mutex' # u
    BY <1>2, <1>9
  <2>5. t \notin Ids
    BY <1>0, <2>2
  <2>6. quiet' => ~running' /\ acceptor' = "none" /\ sessions' = {} /\ Idle'
    BY <1>1, <1>9
  <2> QED BY <1>7, <1>9, <2>3, <2>4, <2>5, <2>6
<1>10. ASSUME NEW t \in Threads, CallStop(t) \/ CallStart(t) \/ CallSend(t) PROVE Lifecycle'
  <2>1. /\ call[t] = "none"
        /\ UNCHANGED <<lifecycle_mutex, acceptor, sessions, worker, joinable, quiet, running>>
    BY <1>10 DEF CallStop, CallStart, CallSend, CanCall, acceptVars, sessionVars
  <2>2. ~Holds(t)
    BY <2>1 DEF Holds, HoldingLabels
  <2>3. \E l \in {"lock", "send", "request"} :
           Enter(t, l) /\ (t \in Ids => l # "lock") /\ (t \in Callers => l # "request")
    <3>1. t \in Ids <=> t \notin Callers
      BY <1>0
    <3>2. CASE CallStop(t)
      BY <3>1, <3>2 DEF CallStop, CanCall, InHandler
    <3>3. CASE CallStart(t) \/ CallSend(t)
      BY <3>1, <3>3 DEF CallStart, CallSend
    <3> QED BY <1>10, <3>2, <3>3
  <2> QED BY <1>8, <2>1, <2>2, <2>3 DEF CallLabels
<1>11. ASSUME NEW t \in Threads, Send(t) PROVE Lifecycle'
  <2>1. /\ call[t] = "send"
        /\ UNCHANGED <<lifecycle_mutex, acceptor, sessions, worker, joinable, quiet, running>>
        /\ \E l \in {"none", "send"} : Enter(t, l)
    BY <1>11 DEF Send, acceptVars
  <2>2. ~Holds(t)
    BY <2>1 DEF Holds, HoldingLabels
  <2> QED BY <1>8, <2>1, <2>2 DEF CallLabels
<1>12. ASSUME NEW t \in Threads, Lock(t) PROVE Lifecycle'
  <2>1. /\ call[t] = "lock" /\ lifecycle_mutex = NoThread
        /\ UNCHANGED <<acceptor, sessions, worker, joinable, quiet, running>>
    BY <1>12 DEF Lock, acceptVars, sessionVars
  <2>2. t \in Callers /\ t \notin Ids /\ ~Holds(t)
    BY <1>0, <1>1, <2>1 DEF Holds, HoldingLabels
  <2>3. \A u \in Threads : ~Holds(u)
    BY <1>2, <2>1, IdsTyped
  <2>4. CASE Enter(t, "none") /\ UNCHANGED lifecycle_mutex
    BY <1>8, <2>1, <2>2, <2>4 DEF CallLabels
  <2>5. ASSUME NEW l \in {"join_accept", "request"}, Enter(t, l), lifecycle_mutex' = t,
               l = "join_accept" => ~running
        PROVE  Lifecycle'
    <3>1. call'[t] = l /\ l \in CallLabels
      BY <1>0, <2>5, Entering DEF CallLabels
    <3>2. Progress(t)'
      BY <2>1, <2>2, <2>5, <3>1 DEF Progress, Holds, HoldingLabels
    <3>3. Idle => Idle'
      BY <2>1 DEF Idle
    <3>4. quiet' => ~running' /\ acceptor' = "none" /\ sessions' = {} /\ Idle'
      BY <1>1, <2>1, <3>3
    <3> QED BY <1>7, <2>2, <2>3, <2>5, <3>1, <3>2, <3>4
  <2> QED BY <1>12, <2>4, <2>5 DEF Lock, Return
<1>13. ASSUME NEW t \in Threads, Request(t) PROVE Lifecycle'
  <2>1. /\ call[t] = "request" /\ Enter(t, "interrupt") /\ ~running'
        /\ UNCHANGED <<lifecycle_mutex, acceptor, sessions, worker, joinable, quiet>>
    BY <1>13 DEF Request, acceptVars, sessionVars
  <2>2. CASE t \in Callers
    <3>1. lifecycle_mutex = t
      BY <1>1, <2>1, <2>2 DEF Progress, Holds
    <3> QED BY <1>9, <2>1, <3>1 DEF CallLabels, Idle
  <2>3. CASE t \notin Callers
    <3>1. ~Holds(t)
      BY <2>1, <2>3 DEF Holds, HoldingLabels
    <3> QED BY <1>8, <2>1, <2>3, <3>1 DEF CallLabels
  <2> QED BY <2>2, <2>3
<1>14. ASSUME NEW t \in Threads, InterruptAll(t) PROVE Lifecycle'
  <2>1. /\ call[t] = "interrupt"
        /\ Enter(t, IF lifecycle_mutex = t THEN "join_accept" ELSE "none")
        /\ UNCHANGED <<lifecycle_mutex, acceptor, sessions, worker, joinable, quiet, running>>
    BY <1>14 DEF InterruptAll, acceptVars
  <2>2. CASE lifecycle_mutex = t
    <3>1. ~running
      BY <1>1, <2>1, <2>2 DEF Progress
    <3> QED BY <1>9, <2>1, <2>2, <3>1 DEF CallLabels, Idle, HoldingLabels
  <2>3. CASE lifecycle_mutex # t
    <3>1. ~Holds(t)
      BY <1>2, <2>3
    <3> QED BY <1>8, <2>1, <2>3, <3>1 DEF CallLabels
  <2> QED BY <2>2, <2>3
\* The calls below are made with the mutex, while nothing runs.
<1>15. ASSUME NEW t \in Threads, call[t] \in HoldingLabels
       PROVE  lifecycle_mutex = t /\ ~running
  BY <1>1, <1>15 DEF Progress, Holds, HoldingLabels
<1>16. ASSUME NEW t \in Threads, JoinAccept(t) PROVE Lifecycle'
  <2>1. /\ call[t] \in HoldingLabels /\ Enter(t, "swap") /\ acceptor' = "none"
        /\ UNCHANGED <<lifecycle_mutex, sessions, worker, joinable, quiet, running>>
    BY <1>16 DEF JoinAccept, sessionVars, HoldingLabels
  <2> QED BY <1>9, <1>15, <2>1 DEF CallLabels, Idle, HoldingLabels
<1>17. ASSUME NEW t \in Threads, Swap(t) PROVE Lifecycle'
  <2>1. /\ call[t] = "swap" /\ Enter(t, "join") /\ sessions' = {}
        /\ UNCHANGED <<lifecycle_mutex, acceptor, worker, joinable, quiet, running>>
    BY <1>17 DEF Swap, acceptVars
  <2>2. acceptor = "none" /\ lifecycle_mutex = t /\ ~running
    BY <1>1, <1>15, <2>1 DEF Progress, HoldingLabels
  <2> QED BY <1>9, <2>1, <2>2 DEF CallLabels, Idle, HoldingLabels
<1>18. ASSUME NEW t \in Threads, Join(t) PROVE Lifecycle'
  <2>1. /\ call[t] = "join"
        /\ \E l \in {"run", "unlock"} : Enter(t, l)
        /\ \A s \in todo[t] : joinable[s] => worker[s] = "exit"
        /\ joinable' = [s \in Ids |-> joinable[s] /\ s \notin todo[t]]
        /\ UNCHANGED <<lifecycle_mutex, acceptor, sessions, worker, quiet, running>>
    BY <1>18 DEF Join, acceptVars
  <2>2. acceptor = "none" /\ sessions = {} /\ lifecycle_mutex = t /\ ~running
    BY <1>1, <1>15, <2>1 DEF Progress, HoldingLabels
  <2>3. reaping = {}
    BY <2>2 DEF Registered
  <2>4. \A u \in Threads : call[u] = "join" => u = t
    BY <1>2, <2>2 DEF Holds, HoldingLabels
  <2>5. \A s \in Ids : joinable[s] => s \in todo[t]
    BY <2>2, <2>3, <2>4 DEF Registered
  <2>6. Idle'
    <3> SUFFICES ASSUME NEW s \in Ids PROVE worker[s] \in {"new", "exit"} /\ ~joinable'[s]
      BY <2>1 DEF Idle
    <3>1. ~joinable'[s]
      BY <2>1, <2>5
    <3>2. Stage(s) /\ worker[s] \in WorkerLabels
      BY DEF Staged, ManagerTypes
    <3>3. joinable[s] => worker[s] = "exit"
      BY <2>1, <2>5
    <3>4. worker[s] \in {"new", "exit"}
      BY <2>2, <3>2, <3>3 DEF Stage, WorkerLabels, ServedLabels
    <3> QED BY <3>1, <3>4
  <2> QED BY <1>9, <2>1, <2>2, <2>6 DEF CallLabels, HoldingLabels
\* The mutex is given up.
<1>19. ASSUME NEW t \in Threads, Run(t) \/ Unlock(t) PROVE Lifecycle'
  <2>1. /\ call[t] \in {"run", "unlock"} /\ Enter(t, "none") /\ lifecycle_mutex' = NoThread
        /\ UNCHANGED <<sessions, worker, joinable>>
        /\ quiet' => UNCHANGED <<running, acceptor>>
    BY <1>19 DEF Run, Unlock, Return, acceptVars, sessionVars
  <2>2. /\ Progress(t) /\ lifecycle_mutex = t /\ ~running /\ acceptor = "none" /\ sessions = {}
        /\ Idle /\ t \in Callers
    BY <1>1, <1>2, <1>15, <2>1 DEF Progress, HoldingLabels
  <2>3. call'[t] = "none"
    BY <1>0, <2>1, Entering DEF CallLabels
  <2>4. NoThread \notin Threads /\ \A u \in Threads : Holds(u) => u = t
    BY <1>0, <1>2, <2>2
  <2>5. Progress(t)'
    BY <2>1, <2>2, <2>3, <2>4 DEF Progress, Holds, HoldingLabels
  <2>6. quiet' => ~running' /\ acceptor' = "none" /\ sessions' = {} /\ Idle'
    BY <2>1, <2>2 DEF Idle
  <2>7. \A u \in Threads : lifecycle_mutex' # u
    BY <1>0, <2>1
  <2> QED BY <1>0, <1>7, <2>1, <2>2, <2>4, <2>5, <2>6, <2>7 DEF CallLabels
<1> QED BY <1>4, <1>5, <1>6, <1>10, <1>11, <1>12, <1>13, <1>14, <1>16, <1>17, <1>18, <1>19
        DEF Next, SessionStep, CallStep

-----------------------------------------------------------------------------
\* The labels of the workers that are counted as active.
CountedLabels == {"counted", "uncount"} \cup ServedLabels

LEMMA CountedFinite == IsFiniteSet(Ids) /\ IsFiniteSet(Counted) /\ Cardinality(Counted) \in Nat
<1>1. IsFiniteSet(Ids)
  BY FS_Interval, BoundAssumption DEF Ids
<1>2. Counted \in SUBSET Ids
  BY DEF Counted
<1> QED BY <1>1, <1>2, FS_Subset, FS_CardinalityType

\* The counters are raised when a session enters the set and lowered when it
\* leaves it.
LEMMA Uncounting ==
  ASSUME Counts, Uncount, NEW s \in Counted, Counted' = Counted \ {s}
  PROVE  /\ stats' \in [accepted : Nat, active : Nat, disconnected : Nat]
         /\ stats'.accepted = stats'.active + stats'.disconnected
         /\ stats'.active = Cardinality(Counted')
         /\ stats'.active < stats.active
<1> DEFINE x == stats.active - 1
           y == stats.disconnected + 1
<1>1. /\ stats \in [accepted : Nat, active : Nat, disconnected : Nat]
      /\ stats.accepted \in Nat /\ stats.active \in Nat /\ stats.disconnected \in Nat
      /\ stats.accepted = stats.active + stats.disconnected
      /\ stats.active = Cardinality(Counted)
  BY DEF Counts
<1>2. Cardinality(Counted \ {s}) = Cardinality(Counted) - 1 /\ Cardinality(Counted \ {s}) \in Nat
  BY CountedFinite, FS_RemoveElement, FS_CardinalityType
<1>3. x \in Nat /\ y \in Nat /\ stats.accepted = x + y /\ x = Cardinality(Counted') /\ x < stats.active
  BY <1>1, <1>2
<1>4. stats' = [stats EXCEPT !.active = x, !.disconnected = y]
  BY DEF Uncount
<1> HIDE DEF x, y
<1>5. /\ stats' \in [accepted : Nat, active : Nat, disconnected : Nat]
      /\ stats'.accepted = stats.accepted /\ stats'.active = x /\ stats'.disconnected = y
  BY <1>1, <1>3, <1>4
<1> QED BY <1>3, <1>5

LEMMA CountsStep ==
  ASSUME ManagerTypes, Staged, Counts, [Next]_vars
  PROVE  Counts'
<1>0. /\ stats \in [accepted : Nat, active : Nat, disconnected : Nat]
      /\ stats.accepted \in Nat /\ stats.active \in Nat /\ stats.disconnected \in Nat
      /\ stats.accepted = stats.active + stats.disconnected
      /\ stats.active = Cardinality(Counted)
      /\ stats.active <= max_clients /\ max_clients \in Nat
      /\ acceptor \in {"push", "count"} => stats.active < max_clients
      /\ worker \in [Ids -> WorkerLabels]
  BY DEF Counts, ManagerTypes
<1>1. ASSUME UNCHANGED <<stats, max_clients>>, Counted' = Counted,
             acceptor' \in {"push", "count"} =>
                acceptor \in {"push", "count"} \/ stats.active < max_clients
      PROVE  Counts'
  BY <1>0, <1>1 DEF Counts
<1>2. ASSUME NEW s \in Ids, NEW l \in WorkerLabels, WorkerTo(s, l),
             worker[s] \in CountedLabels <=> l \in CountedLabels
      PROVE  Counted' = Counted
  BY <1>0, <1>2, WorkerMoves DEF Counted, CountedLabels
<1>3. ASSUME UNCHANGED worker PROVE Counted' = Counted
  BY <1>3 DEF Counted
<1>4. acceptor \in {"push", "count", "spawn", "undo"} => Arriving \in Ids
  BY DEF Staged
<1>5. CASE UNCHANGED vars
  BY <1>1, <1>3, <1>5 DEF vars, acceptVars, sessionVars
<1>6. ASSUME NEW t \in Threads, CallStop(t) \/ CallStart(t) \/ CallSend(t) \/ CallStep(t)
      PROVE  Counts'
  <2>1. CASE QuietCall(t)
    BY <1>1, <1>3, <2>1, QuietCallKeeps DEF acceptVars, sessionVars
  <2>2. CASE InterruptAll(t) \/ JoinAccept(t) \/ Swap(t) \/ Join(t) \/ Run(t) \/ Send(t)
    <3>1. /\ UNCHANGED <<stats, max_clients, worker>>
          /\ acceptor' = acceptor \/ acceptor' \in {"none", "check"}
      BY <2>2 DEF InterruptAll, JoinAccept, Swap, Join, Run, Send, acceptVars, sessionVars
    <3> QED BY <1>1, <1>3, <3>1
  <2> QED BY <1>6, <2>1, <2>2 DEF QuietCall, CallStep
<1>7. CASE AcceptCheck \/ AcceptNothing \/ Reap \/ ReapJoin
  <2>1. UNCHANGED <<stats, max_clients, worker>> /\ acceptor' \notin {"push", "count"}
    BY <1>7 DEF AcceptCheck, AcceptNothing, Reap, ReapJoin, sessionVars
  <2> QED BY <1>1, <1>3, <2>1
<1>8. CASE AcceptClient
  <2>1. UNCHANGED <<stats, max_clients, worker>>
    BY <1>8 DEF AcceptClient, sessionVars
  <2>2. acceptor' = "push" => stats.active < max_clients
    BY <1>0, <1>8 DEF AcceptClient, AtLimit
  <2>3. acceptor' \in {"check", "push"}
    BY <1>8 DEF AcceptClient
  <2> QED BY <1>1, <1>3, <2>1, <2>2, <2>3
<1> USE DEF CountedLabels, WorkerLabels, ServedLabels
<1>9. CASE AcceptPush
  <2>1. PICK a \in Ids : a = Arriving
    BY <1>4, <1>9 DEF AcceptPush
  <2>2. worker[a] = "new"
    BY <1>9, <2>1 DEF AcceptPush, Staged, Stage
  <2>3. UNCHANGED worker \/ WorkerTo(a, "queued")
    BY <1>9, <2>1 DEF AcceptPush
  <2>4. Counted' = Counted
    BY <1>2, <1>3, <2>2, <2>3
  <2> QED BY <1>1, <1>9, <2>4 DEF AcceptPush
<1>10. CASE AcceptSpawn
  <2>1. PICK a \in Ids : a = Arriving
    BY <1>4, <1>10 DEF AcceptSpawn
  <2>2. worker[a] = "counted"
    BY <1>10, <2>1 DEF AcceptSpawn, Staged, Stage
  <2>3. WorkerTo(a, "check") \/ WorkerTo(a, "uncount")
    BY <1>10, <2>1 DEF AcceptSpawn
  <2>4. Counted' = Counted
    BY <1>2, <2>2, <2>3
  <2> QED BY <1>1, <1>10, <2>4 DEF AcceptSpawn
<1>11. CASE AcceptCount
  <2>1. PICK a \in Ids : a = Arriving
    BY <1>4, <1>11 DEF AcceptCount
  <2>2. /\ worker[a] = "queued" /\ WorkerTo(a, "counted") /\ stats.active < max_clients
        /\ stats' = [stats EXCEPT !.accepted = @ + 1, !.active = @ + 1]
        /\ acceptor' = "spawn" /\ UNCHANGED max_clients
    BY <1>0, <1>11, <2>1 DEF AcceptCount, Staged, Stage
  <2>3. Counted' = Counted \cup {a} /\ a \notin Counted
    BY <1>0, <2>2, WorkerMoves DEF Counted
  <2>4. Cardinality(Counted') = stats.active + 1
    BY <1>0, <2>3, CountedFinite, FS_AddElement
  <2> DEFINE x == stats.active + 1
             y == stats.accepted + 1
  <2>5. x \in Nat /\ y \in Nat /\ y = x + stats.disconnected /\ x <= max_clients
    BY <1>0, <2>2
  <2>6. stats' = [stats EXCEPT !.accepted = y, !.active = x]
    BY <2>2
  <2>7. x = Cardinality(Counted')
    BY <2>4
  <2> HIDE DEF x, y
  <2>8. /\ stats' \in [accepted : Nat, active : Nat, disconnected : Nat]
        /\ stats'.accepted = y /\ stats'.active = x /\ stats'.disconnected = stats.disconnected
    BY <1>0, <2>5, <2>6
  <2> QED BY <2>2, <2>5, <2>7, <2>8 DEF Counts
<1>12. ASSUME NEW s \in Ids, worker[s] = "uncount", WorkerTo(s, "exit"), Uncount,
              UNCHANGED max_clients,
              acceptor' \in {"push", "count"} => acceptor \in {"push", "count"}
       PROVE  Counts'
  <2>1. s \in Counted /\ Counted' = Counted \ {s}
    BY <1>0, <1>12, WorkerMoves DEF Counted
  <2>2. /\ stats' \in [accepted : Nat, active : Nat, disconnected : Nat]
        /\ stats'.accepted = stats'.active + stats'.disconnected
        /\ stats'.active = Cardinality(Counted')
        /\ stats'.active < stats.active
    BY <1>12, <2>1, Uncounting
  <2>3. stats'.active \in Nat
    BY <2>2
  <2>4. stats'.active < max_clients
    BY <1>0, <2>2, <2>3
  <2>5. stats'.active <= max_clients' /\ stats'.active < max_clients'
    BY <1>0, <1>12, <2>3, <2>4
  <2> QED BY <2>2, <2>5 DEF Counts
<1>13. CASE AcceptUndo
  <2>1. PICK a \in Ids : a = Arriving
    BY <1>4, <1>13 DEF AcceptUndo
  <2>2. worker[a] = "uncount"
    BY <1>13, <2>1 DEF AcceptUndo, Staged, Stage
  <2> QED BY <1>12, <1>13, <2>1, <2>2 DEF AcceptUndo
<1>14. ASSUME NEW s \in Ids, WorkerUncount(s) PROVE Counts'
  BY <1>12, <1>14 DEF WorkerUncount, acceptVars
<1>15. ASSUME NEW s \in Ids,
              \/ WorkerCheck(s) \/ WorkerReceive(s) \/ WorkerTimers(s) \/ HandlerEnds(s)
              \/ WorkerClose(s)
       PROVE  Counts'
  <2>1. /\ worker[s] \in ServedLabels
        /\ \E l \in ServedLabels \cup {"uncount"} : WorkerTo(s, l)
        /\ UNCHANGED <<stats, max_clients, acceptor>>
    <3>1. CASE WorkerClose(s)
      <4>1. live[s]
        BY <3>1 DEF WorkerClose, Staged, Stage
      <4> QED BY <3>1, <4>1 DEF WorkerClose, acceptVars
    <3> QED BY <1>15, <3>1 DEF WorkerCheck, WorkerReceive, WorkerTimers, HandlerEnds, acceptVars
  <2>2. Counted' = Counted
    BY <1>2, <2>1
  <2> QED BY <1>1, <2>1, <2>2
<1> QED BY <1>5, <1>6, <1>7, <1>8, <1>9, <1>10, <1>11, <1>13, <1>14, <1>15
        DEF Next, AcceptLoop, SessionLoop

-----------------------------------------------------------------------------
LEMMA ManagerInitially == Init => ManagerInv
<1> SUFFICES ASSUME Init PROVE ManagerInv
  OBVIOUS
<1>1. ManagerTypes
  <2>1. max_clients \in Nat /\ next_session_id \in 1..(MaxSessions + 1)
    BY LimitAssumption, BoundAssumption DEF Init
  <2> QED BY <2>1 DEF Init, ManagerTypes, WorkerLabels, CallLabels
<1>2. \A s \in Ids : s \in Nat /\ s >= 1
  BY BoundAssumption DEF Ids
<1>3. Staged
  BY <1>2 DEF Init, Staged, Stage, ServedLabels
<1>4. Registered
  BY DEF Init, Registered
<1>5. Lifecycle
  BY IdsTyped DEF Init, Lifecycle, Progress, Holds, HoldingLabels
<1>6. Counts
  <2>1. Counted = {}
    BY DEF Init, Counted, ServedLabels
  <2>2. max_clients \in Nat
    BY <1>1 DEF ManagerTypes
  <2> QED BY <2>1, <2>2, FS_EmptySet DEF Init, Counts
<1> QED BY <1>1, <1>3, <1>4, <1>5, <1>6 DEF ManagerInv

LEMMA ManagerStep == ManagerInv /\ [Next]_vars => ManagerInv'
<1> SUFFICES ASSUME ManagerInv, [Next]_vars PROVE ManagerInv'
  OBVIOUS
<1>1. ManagerTypes /\ Staged /\ Registered /\ Lifecycle /\ Counts
  BY DEF ManagerInv
<1>2. ManagerTypes' /\ Staged'
  BY <1>1, TypesStep, StagedStep
<1>3. Registered' /\ Lifecycle' /\ Counts'
  BY <1>1, RegisteredStep, LifecycleStep, CountsStep
<1> QED BY <1>2, <1>3 DEF ManagerInv

LEMMA ManagerAlways == Spec => []ManagerInv
  BY ManagerInitially, ManagerStep, PTL DEF Spec

\* The sets of sessions that the counters speak of.
LEMMA ActiveCounted ==
  ASSUME ManagerInv
  PROVE  /\ Cardinality(Active) \in Nat
         /\ Cardinality({s \in Ids : worker[s] = "uncount"}) \in Nat
         /\ Cardinality({s \in Ids : worker[s] = "queued"}) = IF acceptor = "count" THEN 1 ELSE 0
         /\ Cardinality(Active) + Cardinality({s \in Ids : worker[s] = "uncount"})
              = stats.active + Cardinality({s \in Ids : worker[s] = "queued"})
<1> DEFINE U == {s \in Ids : worker[s] = "uncount"}
           Q == {s \in Ids : worker[s] = "queued"}
<1>1. IsFiniteSet(U) /\ IsFiniteSet(Q) /\ IsFiniteSet(Active) /\ IsFiniteSet(Counted)
  <2>1. U \in SUBSET Ids /\ Q \in SUBSET Ids /\ Active \in SUBSET Ids
    BY DEF Active
  <2> QED BY <2>1, CountedFinite, FS_Subset
<1>2. \A s \in Ids : live[s] <=> worker[s] \in {"queued", "counted"} \cup ServedLabels
  BY DEF ManagerInv, Staged, Stage
<1>3. Active \cup U = Counted \cup Q /\ Active \cap U = {} /\ Counted \cap Q = {}
  BY <1>2 DEF Active, Counted, ServedLabels
<1>4. Q = IF acceptor = "count" THEN {Arriving} ELSE {}
  BY DEF ManagerInv, Staged, Stage
<1>5. Cardinality(Q) = IF acceptor = "count" THEN 1 ELSE 0
  BY <1>4, FS_Singleton, FS_EmptySet
<1>6. /\ Cardinality(Active \cup U) = Cardinality(Active) + Cardinality(U) - Cardinality({})
      /\ Cardinality(Counted \cup Q) = Cardinality(Counted) + Cardinality(Q) - Cardinality({})
  BY <1>1, <1>3, FS_Union
<1>7. /\ Cardinality(Active) \in Nat /\ Cardinality(U) \in Nat /\ Cardinality(Counted) \in Nat
      /\ Cardinality(Q) \in Nat /\ Cardinality({}) = 0
  BY <1>1, FS_CardinalityType, FS_EmptySet
<1>8. Cardinality(Active) + Cardinality(U) = Cardinality(Counted) + Cardinality(Q)
  <2>1. Cardinality(Active \cup U) = Cardinality(Counted \cup Q)
    BY <1>3
  <2> HIDE DEF U, Q
  <2> QED BY <1>6, <1>7, <2>1
<1>9. stats.active = Cardinality(Counted)
  BY DEF ManagerInv, Counts
<1> QED BY <1>5, <1>7, <1>8, <1>9

(***************************************************************************)
(* Never more sessions are served than max_clients, for any limit and any  *)
(* number of workers that end on their own while the accept thread         *)
(* compares the counter with the limit.                                    *)
(***************************************************************************)
THEOREM LimitKept == Spec => []ClientLimit
<1>1. ManagerInv => ClientLimit
  <2> SUFFICES ASSUME ManagerInv PROVE ClientLimit
    OBVIOUS
  <2>1. /\ stats.active <= max_clients /\ max_clients \in Nat /\ stats.active \in Nat
        /\ acceptor = "count" => stats.active < max_clients
    BY DEF ManagerInv, Counts, ManagerTypes
  <2>2. Cardinality(Active) <= stats.active + (IF acceptor = "count" THEN 1 ELSE 0)
    BY <2>1, ActiveCounted
  <2>3. Cardinality(Active) \in Nat
    BY ActiveCounted
  <2>4. Cardinality(Active) <= max_clients
    BY <2>1, <2>2, <2>3
  <2> QED BY <2>1, <2>4 DEF ClientLimit
<1> QED BY <1>1, ManagerAlways, PTL

(***************************************************************************)
(* Every admitted session is counted active and then disconnected exactly  *)
(* once, whether its worker ends it or could not be started.               *)
(***************************************************************************)
THEOREM SessionsCounted == Spec => []SessionAccounting
<1>1. ManagerInv => SessionAccounting
  <2> SUFFICES ASSUME ManagerInv PROVE SessionAccounting
    OBVIOUS
  <2>1. stats.accepted = stats.active + stats.disconnected /\ stats.active \in Nat
    BY DEF ManagerInv, Counts
  <2>2. Cardinality({s \in Ids : worker[s] = "queued"}) \in Nat
    BY ActiveCounted
  <2>3. stats.active = Cardinality(Active) + Cardinality({s \in Ids : worker[s] = "uncount"})
                         - Cardinality({s \in Ids : worker[s] = "queued"})
    BY <2>1, <2>2, ActiveCounted
  <2> QED BY <2>1, <2>3 DEF SessionAccounting
<1> QED BY <1>1, ManagerAlways, PTL

(***************************************************************************)
(* No worker is lost unjoined and none is joined by two threads: a         *)
(* joinable one is registered, or on the list of exactly one of the accept *)
(* thread that reaps and the thread inside finish_stop_locked.             *)
(***************************************************************************)
THEOREM WorkersNotLost == Spec => []WorkersJoined
<1>1. ManagerInv => WorkersJoined
  <2> DEFINE Lists(s) == {t \in {u \in Threads : call[u] = "join"} : s \in todo[t]}
  <2> SUFFICES ASSUME ManagerInv, NEW s \in Ids, joinable[s]
               PROVE  Cardinality(Lists(s))
                        + (IF s \in sessions THEN 1 ELSE 0) + (IF s \in reaping THEN 1 ELSE 0) = 1
    BY DEF WorkersJoined
  <2>1. /\ s \in sessions \cup reaping \/ \E t \in Threads : call[t] = "join" /\ s \in todo[t]
        /\ sessions \cap reaping = {}
        /\ acceptor \notin {"join", "last_join"} => reaping = {}
    BY DEF ManagerInv, Registered
  <2>2. ASSUME NEW t \in Threads, call[t] = "join"
        PROVE  sessions = {} /\ reaping = {} /\ lifecycle_mutex = t
    <3>1. Progress(t)
      BY DEF ManagerInv, Lifecycle
    <3> QED BY <2>1, <2>2, <3>1 DEF Progress, Holds, HoldingLabels
  <2>3. CASE s \in sessions \cup reaping
    <3>1. Lists(s) = {}
      BY <2>2, <2>3
    <3>2. Cardinality(Lists(s)) = 0
      BY <3>1, FS_EmptySet
    <3> HIDE DEF Lists
    <3> QED BY <2>1, <2>3, <3>2
  <2>4. CASE s \notin sessions \cup reaping
    <3>1. PICK t \in Threads : call[t] = "join" /\ s \in todo[t]
      BY <2>1, <2>4
    <3>2. Lists(s) = {t}
      BY <2>2, <3>1
    <3>3. Cardinality(Lists(s)) = 1
      BY <3>2, FS_Singleton
    <3> HIDE DEF Lists
    <3> QED BY <2>4, <3>3
  <2> QED BY <2>3, <2>4
<1> QED BY <1>1, ManagerAlways, PTL

(***************************************************************************)
(* A stop() that has finished leaves nothing behind: no accept thread, no  *)
(* worker, no session and no usable connection, for any number of clients  *)
(* admitted and of threads that start and stop at the same time.           *)
(***************************************************************************)
THEOREM StopFinal == Spec => []StopQuiesces
<1>1. ManagerInv => StopQuiesces
  <2> SUFFICES ASSUME ManagerInv, quiet PROVE StopQuiesces
    BY DEF StopQuiesces
  <2>1. ~running /\ acceptor = "none" /\ sessions = {} /\ Idle
    BY DEF ManagerInv, Lifecycle
  <2>2. stats.active = 0
    <3>1. Counted = {}
      BY <2>1 DEF Counted, Idle, ServedLabels
    <3> QED BY <3>1, FS_EmptySet DEF ManagerInv, Counts
  <2>3. ASSUME NEW s \in Ids, s < next_session_id PROVE interrupted[s]
    BY <2>1, <2>3 DEF ManagerInv, Staged, Stage, Idle
  <2> QED BY <2>1, <2>2, <2>3 DEF StopQuiesces, Idle
<1> QED BY <1>1, ManagerAlways, PTL
=============================================================================

-------------------------- MODULE ThreadPoolProofs --------------------------
(***************************************************************************)
(* Machine-checked proofs about ThreadPool, for every number of workers    *)
(* and tasks and every finite set of clients.                              *)
(***************************************************************************)
EXTENDS ThreadPool, FiniteSetTheorems, SequenceTheorems, TLAPS

Labels == PostLabels \cup ShutdownLabels \cup {"new", "idle", "pop", "run", "count", "exit"}
Fates == {"unused", "offered", "refused", "queued", "running", "ok", "threw"}

\* The handles: while the constructor runs they are the workers it has started;
\* a shutdown takes them all.
Handles ==
  /\ phase \in {"building", "unwinding"} =>
        /\ \A i \in 1..Len(workers_) : workers_[i] = i
        /\ \A w \in Workers : w > Len(workers_) => pc[w] = "new"
  /\ phase = "building" => Len(workers_) < worker_count
  /\ phase # "ready" => /\ ~shutdown_in_progress_ /\ ~shutdown_finished_
                        /\ \A t \in Threads : pc[t] \notin ShutdownLabels
  /\ phase = "ready" /\ ~shutdown_in_progress_ /\ ~shutdown_finished_ =>
        \A w \in Workers : \E i \in 1..Len(workers_) : workers_[i] = w
  /\ phase = "failed" => \A w \in Workers : pc[w] \in {"new", "exit"}

\* The thread that took the handles has left no worker out.
Joins ==
  /\ ~(shutdown_in_progress_ /\ shutdown_finished_)
  /\ \A t \in Threads : pc[t] = "sd_join" => shutdown_in_progress_ /\ t = joiner
  /\ shutdown_in_progress_ \/ shutdown_finished_ =>
        /\ tasksClosed
        /\ \A w \in Workers : \/ w = joiner \/ pc[w] = "exit"
                              \/ \E i \in 1..Len(joining) : joining[i] = w
  /\ shutdown_finished_ => joining = << >>
  /\ \A c \in returned : shutdown_finished_

\* A worker leaves its loop only when the queue is closed and empty, and then
\* it stays so.
Drained ==
  /\ \A t \in Threads : pc[t] \in {"sd_lock", "sd_wait", "sd_join"} => tasksClosed
  /\ \A w \in Workers : pc[w] = "exit" => tasksClosed /\ tasks = << >>

\* A worker has a task from taking it to counting it; a caller of post has one
\* from the check to the push.
Holds ==
  /\ \A w \in Workers : task[w] # NoTask
        <=> pc[w] \in {"run", "count"} \cup PostLabels \cup ShutdownLabels
  /\ \A t \in Threads : arg[t] # NoTask <=> pc[t] \in PostLabels

\* The tasks being offered, queued and running are different ones, and their
\* fates say so.
Fated ==
  /\ \A t \in Threads : arg[t] # NoTask => fate[arg[t]] = "offered"
  /\ \A t, u \in Threads : arg[t] # NoTask /\ arg[t] = arg[u] => t = u
  /\ \A i \in 1..Len(tasks) : fate[tasks[i]] = "queued"
  /\ \A i, j \in 1..Len(tasks) : tasks[i] = tasks[j] => i = j
  /\ \A w \in Workers : task[w] # NoTask /\ pc[w] # "count" => fate[task[w]] = "running"
  /\ \A v, w \in Workers :
        task[v] # NoTask /\ pc[v] # "count" /\ pc[w] # "count" /\ task[v] = task[w] => v = w

\* The inductive invariant.
PoolInv == TypeOK /\ Handles /\ Joins /\ Drained /\ Holds /\ Fated /\ Accounting

-----------------------------------------------------------------------------
LEMMA ThreadKinds ==
  /\ Workers \subseteq Threads /\ Clients \subseteq Threads
  /\ Clients \cap Workers = {} /\ Threads = Workers \cup Clients
  /\ Workers \subseteq Nat \ {0} /\ Workers # {}
  /\ IsFiniteSet(Workers) /\ IsFiniteSet(Threads) /\ IsFiniteSet(Tasks)
  /\ NoTask \notin Tasks
<1>1. IsFiniteSet(Workers) /\ IsFiniteSet(Tasks)
  BY FS_Interval, WorkerCountAssumption, MaxTasksAssumption DEF Workers, Tasks
<1>2. IsFiniteSet(Threads)
  BY <1>1, FS_Union, ClientsAssumption DEF Threads
<1> QED BY <1>1, <1>2, WorkerCountAssumption, MaxTasksAssumption, ClientsAssumption
        DEF Workers, Threads, Tasks, NoTask

\* What a step does to the program counters, with everything else kept apart.
LEMMA ResumeLabel == \A t \in Threads : Resume(t) \in {"run", "idle"}
  BY DEF Resume

LEMMA TypeInit == Init => TypeOK
<1> SUFFICES ASSUME Init PROVE TypeOK
  OBVIOUS
<1>1. << >> \in Seq(Workers) /\ << >> \in Seq(Tasks)
  OBVIOUS
<1>2. /\ shutdown_in_progress_ \in BOOLEAN /\ shutdown_finished_ \in BOOLEAN
      /\ accepting \in BOOLEAN /\ tasksClosed \in BOOLEAN
  BY DEF Init
<1> QED BY <1>1, <1>2 DEF Init, TypeOK

LEMMA TypeStep ==
  ASSUME TypeOK, Handles, Holds, Accounting, [Next]_vars
  PROVE  TypeOK'
<1> USE DEF TypeOK, Goto
<1> USE ThreadKinds
<1>1. CASE UNCHANGED vars
  BY <1>1 DEF vars, poolVars, stateVars
<1>2. CASE SpawnWorker
  <2>1. Len(workers_) + 1 \in Workers
    BY <1>2, WorkerCountAssumption DEF SpawnWorker, Handles, Workers
  <2>2. workers_' \in Seq(Workers)
    BY <1>2, <2>1 DEF SpawnWorker
  <2> QED BY <1>2, <2>1, <2>2 DEF SpawnWorker, stateVars
<1>3. CASE SpawnFails
  BY <1>3 DEF SpawnFails, poolVars
<1>4. CASE UnwindJoin \/ NoPool
  BY <1>4 DEF UnwindJoin, NoPool, vars, poolVars, stateVars
<1>5. ASSUME NEW w \in Workers, WorkerPop(w) PROVE TypeOK'
  <2>1. tasks # << >> => Head(tasks) \in Tasks /\ Tail(tasks) \in Seq(Tasks)
    OBVIOUS
  <2>2. CASE tasks # << >>
    <3>4. task' = [task EXCEPT ![w] = Head(tasks)] /\ tasks' = Tail(tasks)
      BY <1>5, <2>2 DEF WorkerPop
    <3>1. task' \in [Workers -> Tasks \cup {NoTask}] /\ tasks' \in Seq(Tasks)
      BY <2>1, <2>2, <3>4
    <3>2. fate' = [fate EXCEPT ![Head(tasks)] = "running"]
      BY <1>5, <2>2 DEF WorkerPop
    <3>3. fate' \in [Tasks -> Fates]
      BY <3>2 DEF Fates
    <3> QED BY <1>5, <2>2, <3>1, <3>3 DEF WorkerPop, poolVars, Fates
  <2>3. CASE tasks = << >>
    BY <1>5, <2>3 DEF WorkerPop, poolVars
  <2> QED BY <2>2, <2>3
<1>6. ASSUME NEW w \in Workers, WorkerCount(w) PROVE TypeOK'
  BY <1>6 DEF WorkerCount, poolVars
<1>16. ASSUME NEW w \in Workers, TaskEnds(w) PROVE TypeOK'
  <2>1. PICK outcome \in {"ok", "threw"} :
          /\ fate' = [fate EXCEPT ![task[w]] = outcome]
          /\ failed' = IF outcome = "threw" THEN failed + 1 ELSE failed
    BY <1>16 DEF TaskEnds
  <2>2. fate' \in [Tasks -> Fates]
    BY <2>1 DEF Fates
  <2> QED BY <1>16, <2>1, <2>2 DEF TaskEnds, poolVars, Fates
<1>7. ASSUME NEW t \in Threads, PostCheck(t) PROVE TypeOK'
  <2>1. PICK k \in Tasks :
          \/ fate' = [fate EXCEPT ![k] = "refused"] /\ UNCHANGED <<pc, arg>>
          \/ /\ fate' = [fate EXCEPT ![k] = "offered"] /\ arg' = [arg EXCEPT ![t] = k]
             /\ Goto(t, "post_add")
    BY <1>7 DEF PostCheck
  <2>2. fate' \in [Tasks -> Fates]
    BY <2>1 DEF Fates
  <2>3. arg' \in [Threads -> Tasks \cup {NoTask}]
    BY <2>1
  <2>4. pc' \in [Threads -> Labels]
    BY <2>1 DEF Labels, PostLabels
  <2> QED BY <1>7, <2>2, <2>3, <2>4 DEF PostCheck, poolVars, stateVars, Labels, Fates
<1>8. ASSUME NEW t \in Threads, PostAdd(t) PROVE TypeOK'
  BY <1>8 DEF PostAdd, poolVars, PostLabels
<1>9. ASSUME NEW t \in Threads, PostPush(t) PROVE TypeOK'
  <2>1. arg[t] \in Tasks
    BY <1>9 DEF PostPush, Holds, PostLabels
  <2>2. Append(tasks, arg[t]) \in Seq(Tasks)
    BY <2>1
  <2>3. pc' \in [Threads -> Labels]
    BY <1>9, ResumeLabel DEF PostPush, Labels, PostLabels
  <2>4. fate' \in [Tasks -> Fates] /\ arg' \in [Threads -> Tasks \cup {NoTask}]
    BY <1>9 DEF PostPush, Fates
  <2>5. tasks' \in Seq(Tasks)
    BY <1>9, <2>2 DEF PostPush
  <2> QED BY <1>9, <2>3, <2>4, <2>5 DEF PostPush, poolVars, Labels, Fates
<1>10. ASSUME NEW t \in Threads, PostUndo(t) PROVE TypeOK'
  <2>1. submitted - 1 \in Nat
    <3>1. IsFiniteSet(Counted) /\ IsFiniteSet(Busy) /\ t \in Counted
      BY <1>10, FS_Subset DEF PostUndo, Counted, Busy
    <3>2. Cardinality(Counted) \in Nat /\ Cardinality(Busy) \in Nat
      BY <3>1, FS_CardinalityType
    <3>3. Cardinality(Counted) # 0
      BY <3>1, FS_EmptySet
    <3> QED BY <3>2, <3>3 DEF Accounting
  <2> QED BY <1>10, <2>1, ResumeLabel DEF PostUndo, poolVars
<1>11. ASSUME NEW t \in Threads, ShutdownStop(t) \/ ShutdownClose(t) PROVE TypeOK'
  BY <1>11 DEF ShutdownStop, ShutdownClose, poolVars, ShutdownLabels
<1>12. ASSUME NEW t \in Threads, ShutdownReturn(t)
       PROVE  returned' \subseteq Clients /\ pc' \in [Threads -> Labels]
  BY <1>12, ResumeLabel DEF ShutdownReturn, Labels
<1>13. ASSUME NEW t \in Threads, ShutdownLock(t) PROVE TypeOK'
  <2>1. << >> \in Seq(Workers)
    OBVIOUS
  <2>2. CASE ShutdownReturn(t) /\ UNCHANGED poolVars
    BY <1>12, <1>13, <2>2 DEF ShutdownLock, poolVars, stateVars, Labels
  <2>3. CASE Goto(t, "sd_wait") /\ UNCHANGED <<poolVars, returned>>
    BY <1>13, <2>3 DEF ShutdownLock, poolVars, stateVars, ShutdownLabels
  <2>4. CASE /\ shutdown_in_progress_' = TRUE /\ joining' = workers_ /\ workers_' = << >>
             /\ joiner' = t /\ Goto(t, "sd_join")
             /\ UNCHANGED <<shutdown_finished_, returned>>
    BY <1>13, <2>1, <2>4 DEF ShutdownLock, stateVars, ShutdownLabels
  <2> QED BY <1>13, <2>2, <2>3, <2>4 DEF ShutdownLock
<1>14. ASSUME NEW t \in Threads, ShutdownWait(t) \/ ShutdownFinish(t) PROVE TypeOK'
  BY <1>12, <1>14 DEF ShutdownWait, ShutdownFinish, poolVars, stateVars, Labels
<1>15. ASSUME NEW t \in Threads, ShutdownJoin(t) PROVE TypeOK'
  BY <1>15 DEF ShutdownJoin, stateVars
<1> QED BY <1>1, <1>2, <1>3, <1>4, <1>5, <1>6, <1>7, <1>8, <1>9, <1>10, <1>11, <1>13,
           <1>14, <1>15, <1>16
        DEF Next, WorkerStep, PostStep, ShutdownStep

-----------------------------------------------------------------------------
LEMMA HandlesStep ==
  ASSUME TypeOK, Handles, [Next]_vars
  PROVE  Handles'
<1> USE DEF Goto
<1> USE ThreadKinds
<1>0. pc \in [Threads -> Labels] /\ workers_ \in Seq(Workers) /\ Len(workers_) \in Nat
  BY DEF TypeOK, Labels
\* A thread inside the pool's code moves; the handles stay.
<1>1. ASSUME NEW t \in Threads, NEW l, pc' = [pc EXCEPT ![t] = l],
             pc[t] \notin {"new", "exit"},
             l \in ShutdownLabels => phase = "ready",
             UNCHANGED <<phase, workers_, shutdown_in_progress_, shutdown_finished_>>
      PROVE  Handles'
  BY <1>0, <1>1 DEF Handles
<1>2. CASE UNCHANGED vars
  BY <1>2 DEF vars, poolVars, Handles
<1>3. CASE SpawnWorker
  <2> DEFINE w == Len(workers_) + 1
  <2>1. /\ w \in Workers /\ workers_' = Append(workers_, w) /\ pc' = [pc EXCEPT ![w] = "pop"]
        /\ phase = "building" /\ phase' = IF w = worker_count THEN "ready" ELSE "building"
        /\ UNCHANGED <<shutdown_in_progress_, shutdown_finished_>>
    BY <1>0, <1>3, WorkerCountAssumption DEF SpawnWorker, Handles, Workers
  <2>2. /\ Len(workers_') = w
        /\ \A i \in 1..Len(workers_) : workers_'[i] = workers_[i]
        /\ workers_'[w] = w
    BY <1>0, <2>1, AppendProperties
  <2>3. \A i \in 1..w : workers_'[i] = i
    BY <1>0, <2>1, <2>2 DEF Handles
  <2>4. \A v \in Workers : v > w => pc'[v] = "new"
    BY <1>0, <2>1 DEF Handles, Workers
  <2>5. w # worker_count => w < worker_count
    BY <2>1, WorkerCountAssumption DEF Workers
  <2>6. w = worker_count => \A v \in Workers : \E i \in 1..Len(workers_') : workers_'[i] = v
    BY <2>2, <2>3, WorkerCountAssumption DEF Workers
  <2>7. \A t \in Threads : pc'[t] \notin ShutdownLabels
    BY <1>0, <2>1 DEF Handles, ShutdownLabels
  <2> HIDE DEF w
  <2> QED BY <2>1, <2>2, <2>3, <2>4, <2>5, <2>6, <2>7 DEF Handles
<1>4. CASE SpawnFails
  BY <1>4 DEF SpawnFails, poolVars, Handles
<1>5. CASE UnwindJoin
  <2>1. \A w \in Workers : w \in 1..Len(workers_) \/ w > Len(workers_)
    BY <1>0
  <2>2. \A i \in 1..Len(workers_) : pc[workers_[i]] = "exit"
    BY <1>0, <1>5, LenProperties DEF UnwindJoin
  <2> QED BY <1>5, <2>1, <2>2 DEF UnwindJoin, poolVars, Handles
<1>6. CASE NoPool
  BY <1>6 DEF NoPool, vars, poolVars, Handles
<1>7. ASSUME NEW w \in Workers, WorkerPop(w) \/ WorkerCount(w) \/ TaskEnds(w)
      PROVE  Handles'
  <2>1. PICK l \in {"run", "exit", "pop", "count"} : pc' = [pc EXCEPT ![w] = l]
    BY <1>7 DEF WorkerPop, WorkerCount, TaskEnds
  <2>2. pc[w] \notin {"new", "exit"}
    BY <1>7 DEF WorkerPop, WorkerCount, TaskEnds
  <2>3. UNCHANGED <<phase, workers_, shutdown_in_progress_, shutdown_finished_>>
    BY <1>7 DEF WorkerPop, WorkerCount, TaskEnds, poolVars
  <2> QED BY <1>1, <2>1, <2>2, <2>3 DEF ShutdownLabels
<1>8. ASSUME NEW t \in Threads, PostCheck(t) PROVE Handles'
  <2>1. /\ UNCHANGED <<phase, workers_, shutdown_in_progress_, shutdown_finished_>>
        /\ pc[t] \notin {"new", "exit"}
        /\ UNCHANGED pc \/ pc' = [pc EXCEPT ![t] = "post_add"]
    BY <1>8, ResumeLabel DEF PostCheck, CanCall, poolVars
  <2>2. CASE UNCHANGED pc
    BY <2>1, <2>2 DEF Handles
  <2>3. CASE pc' = [pc EXCEPT ![t] = "post_add"]
    BY <1>1, <2>1, <2>3 DEF ShutdownLabels
  <2> QED BY <2>1, <2>2, <2>3
<1>9. ASSUME NEW t \in Threads, PostStep(t) PROVE Handles'
  <2>1. PICK l \in {"post_push", "post_undo", "run", "idle"} : pc' = [pc EXCEPT ![t] = l]
    BY <1>9, ResumeLabel DEF PostStep, PostAdd, PostPush, PostUndo
  <2>2. /\ UNCHANGED <<phase, workers_, shutdown_in_progress_, shutdown_finished_>>
        /\ pc[t] \notin {"new", "exit"}
    BY <1>9 DEF PostStep, PostAdd, PostPush, PostUndo, poolVars
  <2> QED BY <1>1, <2>1, <2>2 DEF ShutdownLabels
<1>10. ASSUME NEW t \in Threads, ShutdownStop(t) PROVE Handles'
  <2>1. /\ UNCHANGED <<phase, workers_, shutdown_in_progress_, shutdown_finished_>>
        /\ pc[t] \notin {"new", "exit"} /\ pc' = [pc EXCEPT ![t] = "sd_close"]
        /\ phase = "ready"
    BY <1>10, ResumeLabel DEF ShutdownStop, CanCall, poolVars
  <2> QED BY <1>1, <2>1
<1>11. ASSUME NEW t \in Threads, ShutdownStep(t) PROVE Handles'
  <2>1. /\ phase = "ready" /\ phase' = phase /\ pc[t] \notin {"new", "exit"}
        /\ \E l : pc' = [pc EXCEPT ![t] = l]
    <3>1. pc[t] \in ShutdownLabels
      BY <1>11 DEF ShutdownStep, ShutdownClose, ShutdownLock, ShutdownWait, ShutdownJoin,
                   ShutdownFinish, ShutdownLabels
    <3>2. phase' = phase
      BY <1>11 DEF ShutdownStep, ShutdownClose, ShutdownLock, ShutdownWait, ShutdownJoin,
                   ShutdownFinish
    <3>3. \E l : pc' = [pc EXCEPT ![t] = l]
      <4>1. CASE ShutdownJoin(t)
        <5>1. pc' = [pc EXCEPT ![t] = pc[t]]
          BY <1>0, <4>1 DEF ShutdownJoin
        <5> QED BY <5>1
      <4>2. CASE ~ShutdownJoin(t)
        BY <1>11, <4>2 DEF ShutdownStep, ShutdownClose, ShutdownLock, ShutdownWait,
                           ShutdownFinish, ShutdownReturn
      <4> QED BY <4>1, <4>2
    <3> QED BY <3>1, <3>2, <3>3 DEF Handles, ShutdownLabels
  <2>2. CASE UNCHANGED <<workers_, shutdown_in_progress_, shutdown_finished_>>
    BY <1>1, <2>1, <2>2
  <2>3. CASE shutdown_in_progress_' \/ shutdown_finished_'
    BY <2>1, <2>3 DEF Handles
  <2>4. \/ UNCHANGED <<workers_, shutdown_in_progress_, shutdown_finished_>>
        \/ shutdown_in_progress_' \/ shutdown_finished_'
    BY <1>11 DEF ShutdownStep, ShutdownClose, ShutdownLock, ShutdownWait, ShutdownJoin,
                 ShutdownFinish, poolVars
  <2> QED BY <2>2, <2>3, <2>4
<1> QED BY <1>2, <1>3, <1>4, <1>5, <1>6, <1>7, <1>8, <1>9, <1>10, <1>11
        DEF Next, WorkerStep

-----------------------------------------------------------------------------
\* A step of construction, a worker or a post, or the first two steps of a
\* shutdown: threads that join or have left stay, and nothing of the shutdown
\* changes but that the queue may be closed.
Ordinary ==
  /\ UNCHANGED <<shutdown_in_progress_, shutdown_finished_, joiner, joining, returned>>
  /\ tasksClosed => tasksClosed'
  /\ \A t \in Threads : /\ pc'[t] = "sd_join" => pc[t] = "sd_join"
                        /\ pc[t] = "exit" => pc'[t] = "exit"

LEMMA OrdinarySteps ==
  ASSUME TypeOK, Handles, [Next]_vars
  PROVE  \/ Ordinary
         \/ \E t \in Threads :
               ShutdownLock(t) \/ ShutdownWait(t) \/ ShutdownJoin(t) \/ ShutdownFinish(t)
<1> USE DEF Goto, poolVars, stateVars
<1> USE ThreadKinds
<1>0. pc \in [Threads -> Labels]
  BY DEF TypeOK, Labels
<1>1. ASSUME NEW t \in Threads, NEW l, pc' = [pc EXCEPT ![t] = l], l # "sd_join",
             pc[t] # "exit", tasksClosed => tasksClosed',
             UNCHANGED <<shutdown_in_progress_, shutdown_finished_, joiner, joining, returned>>
      PROVE  Ordinary
  BY <1>0, <1>1 DEF Ordinary
<1>2. CASE UNCHANGED vars
  BY <1>2 DEF vars, Ordinary
<1>3. CASE SpawnWorker
  <2>1. Len(workers_) + 1 \in Workers /\ pc[Len(workers_) + 1] = "new"
    BY <1>3, WorkerCountAssumption DEF SpawnWorker, Handles, Workers, TypeOK
  <2> QED BY <1>1, <1>3, <2>1 DEF SpawnWorker
<1>4. CASE SpawnFails \/ UnwindJoin \/ NoPool
  BY <1>4 DEF SpawnFails, UnwindJoin, NoPool, vars, Ordinary
<1>5. ASSUME NEW w \in Workers, WorkerPop(w) PROVE Ordinary
  BY <1>1, <1>5 DEF WorkerPop
<1>6. ASSUME NEW w \in Workers, WorkerCount(w) PROVE Ordinary
  BY <1>1, <1>6 DEF WorkerCount
<1>7. ASSUME NEW w \in Workers, TaskEnds(w) PROVE Ordinary
  BY <1>1, <1>7 DEF TaskEnds
<1>8. ASSUME NEW t \in Threads, PostCheck(t) PROVE Ordinary
  <2>1. CASE UNCHANGED pc
    BY <1>8, <2>1 DEF PostCheck, Ordinary
  <2>2. CASE pc' = [pc EXCEPT ![t] = "post_add"]
    BY <1>1, <1>8, <2>2, ResumeLabel DEF PostCheck, CanCall
  <2> QED BY <1>8, <2>1, <2>2 DEF PostCheck
<1>9. ASSUME NEW t \in Threads, PostStep(t) PROVE Ordinary
  <2>1. PICK l \in {"post_push", "post_undo", "run", "idle"} : pc' = [pc EXCEPT ![t] = l]
    BY <1>9, ResumeLabel DEF PostStep, PostAdd, PostPush, PostUndo
  <2>2. /\ UNCHANGED <<shutdown_in_progress_, shutdown_finished_, joiner, joining, returned,
                       tasksClosed>>
        /\ pc[t] # "exit"
    BY <1>9 DEF PostStep, PostAdd, PostPush, PostUndo
  <2> QED BY <1>1, <2>1, <2>2
<1>10. ASSUME NEW t \in Threads, ShutdownStop(t) PROVE Ordinary
  BY <1>1, <1>10, ResumeLabel DEF ShutdownStop, CanCall
<1>11. ASSUME NEW t \in Threads, ShutdownClose(t) PROVE Ordinary
  BY <1>1, <1>11 DEF ShutdownClose
<1> QED BY <1>2, <1>3, <1>4, <1>5, <1>6, <1>7, <1>8, <1>9, <1>10, <1>11
        DEF Next, WorkerStep, ShutdownStep

LEMMA JoinsStep ==
  ASSUME TypeOK, Handles, Joins, Drained, [Next]_vars
  PROVE  Joins'
<1> USE DEF Goto, poolVars, stateVars
<1> USE ThreadKinds
<1>0. /\ pc \in [Threads -> Labels] /\ returned \subseteq Clients
      /\ workers_ \in Seq(Workers) /\ joining \in Seq(Workers)
  BY DEF TypeOK, Labels
<1>1. CASE Ordinary
  BY <1>1 DEF Ordinary, Joins
<1>2. ASSUME NEW t \in Threads, ShutdownLock(t) PROVE Joins'
  <2>1. tasksClosed /\ tasksClosed' = tasksClosed /\ pc[t] = "sd_lock"
    BY <1>2 DEF ShutdownLock, Drained
  <2>2. CASE /\ shutdown_finished_ \/ (shutdown_in_progress_ /\ t \in Workers)
             /\ ShutdownReturn(t) /\ UNCHANGED poolVars
    <3>1. \A u \in Threads : /\ pc'[u] = "sd_join" => pc[u] = "sd_join"
                             /\ pc[u] = "exit" => pc'[u] = "exit"
      BY <1>0, <2>1, <2>2, ResumeLabel DEF ShutdownReturn
    <3>2. \A c \in returned' : shutdown_finished_
      BY <2>2 DEF ShutdownReturn, Joins
    <3> QED BY <2>1, <2>2, <3>1, <3>2 DEF Joins
  <2>3. CASE Goto(t, "sd_wait") /\ UNCHANGED <<poolVars, returned>>
    <3>1. \A u \in Threads : /\ pc'[u] = "sd_join" => pc[u] = "sd_join"
                             /\ pc[u] = "exit" => pc'[u] = "exit"
      BY <1>0, <2>1, <2>3
    <3> QED BY <2>1, <2>3, <3>1 DEF Joins
  <2>4. CASE /\ ~shutdown_finished_ /\ ~shutdown_in_progress_
             /\ shutdown_in_progress_' = TRUE /\ joining' = workers_
             /\ joiner' = t /\ Goto(t, "sd_join")
             /\ UNCHANGED <<shutdown_finished_, returned>>
    <3>1. phase = "ready"
      BY <2>1 DEF Handles, ShutdownLabels
    <3>2. \A w \in Workers : \E i \in 1..Len(joining') : joining'[i] = w
      BY <2>4, <3>1 DEF Handles
    <3>3. \A u \in Threads : pc'[u] = "sd_join" => u = t
      BY <1>0, <2>4 DEF Joins
    <3> QED BY <2>1, <2>4, <3>2, <3>3 DEF Joins
  <2> QED BY <1>2, <2>2, <2>3, <2>4 DEF ShutdownLock
<1>3. ASSUME NEW t \in Threads, ShutdownWait(t) PROVE Joins'
  <2>1. \A u \in Threads : /\ pc'[u] = "sd_join" => pc[u] = "sd_join"
                           /\ pc[u] = "exit" => pc'[u] = "exit"
    BY <1>0, <1>3, ResumeLabel DEF ShutdownWait, ShutdownReturn
  <2> QED BY <1>3, <2>1 DEF ShutdownWait, ShutdownReturn, Joins
<1>4. ASSUME NEW t \in Threads, ShutdownJoin(t) PROVE Joins'
  <2>1. /\ joining # << >> /\ joining' = Tail(joining) /\ pc[t] = "sd_join"
        /\ Head(joining) = t \/ pc[Head(joining)] = "exit"
        /\ UNCHANGED <<shutdown_in_progress_, shutdown_finished_, joiner, returned, pc,
                       tasksClosed>>
    BY <1>4 DEF ShutdownJoin
  <2>2. t = joiner /\ shutdown_in_progress_ /\ ~shutdown_finished_
    BY <2>1 DEF Joins
  <2>3. /\ Len(joining) \in Nat /\ Len(Tail(joining)) = Len(joining) - 1
        /\ \A i \in 1..Len(Tail(joining)) : Tail(joining)[i] = joining[i + 1]
        /\ Head(joining) = joining[1]
    BY <1>0, <2>1, HeadTailProperties, LenProperties
  <2>4. \A i \in 1..Len(joining) :
           \/ joining[i] = Head(joining)
           \/ \E j \in 1..Len(Tail(joining)) : Tail(joining)[j] = joining[i]
    <3> SUFFICES ASSUME NEW i \in 1..Len(joining), i # 1
                 PROVE  \E j \in 1..Len(Tail(joining)) : Tail(joining)[j] = joining[i]
      BY <2>3
    <3>1. i - 1 \in 1..Len(Tail(joining)) /\ (i - 1) + 1 = i
      BY <2>3
    <3> QED BY <2>3, <3>1
  <2>5. \A w \in Workers : \/ w = joiner \/ pc[w] = "exit"
                           \/ \E i \in 1..Len(joining') : joining'[i] = w
    BY <2>1, <2>2, <2>4 DEF Joins
  <2> QED BY <2>1, <2>2, <2>5 DEF Joins
<1>5. ASSUME NEW t \in Threads, ShutdownFinish(t) PROVE Joins'
  <2>1. /\ pc[t] = "sd_join" /\ joining = << >> /\ shutdown_finished_' = TRUE
        /\ shutdown_in_progress_' = FALSE /\ pc' = [pc EXCEPT ![t] = Resume(t)]
        /\ UNCHANGED <<joiner, joining, tasksClosed>>
    BY <1>5 DEF ShutdownFinish, ShutdownReturn
  <2>2. \A u \in Threads : /\ pc'[u] # "sd_join"
                           /\ pc[u] = "exit" => pc'[u] = "exit"
    BY <1>0, <2>1, ResumeLabel DEF Joins
  <2> QED BY <2>1, <2>2 DEF Joins
<1> QED BY <1>1, <1>2, <1>3, <1>4, <1>5, OrdinarySteps

-----------------------------------------------------------------------------
LEMMA DrainedStep ==
  ASSUME TypeOK, Handles, Drained, [Next]_vars
  PROVE  Drained'
<1> USE DEF Goto, poolVars, stateVars
<1> USE ThreadKinds
<1>0. pc \in [Threads -> Labels] /\ tasks \in Seq(Tasks)
  BY DEF TypeOK, Labels
\* One thread moves, not out of its loop; the queue may be closed.
<1>1. ASSUME NEW t \in Threads, NEW l, pc' = [pc EXCEPT ![t] = l], tasks' = tasks,
             tasksClosed => tasksClosed', l # "exit",
             l \in {"sd_lock", "sd_wait", "sd_join"} => tasksClosed'
      PROVE  Drained'
  BY <1>0, <1>1 DEF Drained
<1>2. CASE UNCHANGED vars
  BY <1>2 DEF vars, Drained
<1>3. CASE SpawnWorker
  <2>1. Len(workers_) + 1 \in Workers
    BY <1>3, WorkerCountAssumption DEF SpawnWorker, Handles, Workers, TypeOK
  <2>2. PICK w \in Workers : pc' = [pc EXCEPT ![w] = "pop"]
    BY <1>3, <2>1 DEF SpawnWorker
  <2>3. UNCHANGED <<tasks, tasksClosed>>
    BY <1>3 DEF SpawnWorker
  <2> QED BY <1>1, <2>2, <2>3
<1>4. CASE SpawnFails \/ UnwindJoin \/ NoPool
  BY <1>4 DEF SpawnFails, UnwindJoin, NoPool, vars, Drained
<1>5. ASSUME NEW w \in Workers, WorkerPop(w) PROVE Drained'
  <2>1. CASE tasks # << >>
    <3>1. pc' = [pc EXCEPT ![w] = "run"] /\ tasksClosed' = tasksClosed
      BY <1>5, <2>1 DEF WorkerPop
    <3>2. \A v \in Workers : pc[v] # "exit"
      BY <2>1 DEF Drained
    <3> QED BY <1>0, <3>1, <3>2 DEF Drained
  <2>2. CASE tasks = << >>
    <3>1. pc' = [pc EXCEPT ![w] = "exit"] /\ tasksClosed /\ UNCHANGED <<tasks, tasksClosed>>
      BY <1>5, <2>2 DEF WorkerPop
    <3> QED BY <1>0, <2>2, <3>1 DEF Drained
  <2> QED BY <2>1, <2>2
<1>6. ASSUME NEW w \in Workers, WorkerCount(w) PROVE Drained'
  BY <1>1, <1>6 DEF WorkerCount
<1>7. ASSUME NEW w \in Workers, TaskEnds(w) PROVE Drained'
  BY <1>1, <1>7 DEF TaskEnds
<1>8. ASSUME NEW t \in Threads, PostCheck(t) PROVE Drained'
  <2>1. CASE UNCHANGED pc
    BY <1>8, <2>1 DEF PostCheck, Drained
  <2>2. CASE pc' = [pc EXCEPT ![t] = "post_add"]
    BY <1>1, <1>8, <2>2 DEF PostCheck
  <2> QED BY <1>8, <2>1, <2>2 DEF PostCheck
<1>9. ASSUME NEW t \in Threads, PostAdd(t) PROVE Drained'
  BY <1>1, <1>9 DEF PostAdd
<1>10. ASSUME NEW t \in Threads, PostPush(t) PROVE Drained'
  <2>1. CASE ~tasksClosed
    <3>1. PICK l \in {"run", "idle", "post_undo"} : pc' = [pc EXCEPT ![t] = l]
      BY <1>10, ResumeLabel DEF PostPush
    <3> QED BY <1>0, <1>10, <2>1, <3>1 DEF PostPush, Drained
  <2>2. CASE tasksClosed
    BY <1>1, <1>10, <2>2 DEF PostPush
  <2> QED BY <2>1, <2>2
<1>11. ASSUME NEW t \in Threads, PostUndo(t) PROVE Drained'
  BY <1>1, <1>11, ResumeLabel DEF PostUndo
<1>12. ASSUME NEW t \in Threads, ShutdownStop(t) PROVE Drained'
  BY <1>1, <1>12 DEF ShutdownStop
<1>13. ASSUME NEW t \in Threads, ShutdownClose(t) PROVE Drained'
  BY <1>1, <1>13 DEF ShutdownClose
<1>14. ASSUME NEW t \in Threads, ShutdownLock(t) PROVE Drained'
  <2>1. PICK l \in {"run", "idle", "sd_wait", "sd_join"} : pc' = [pc EXCEPT ![t] = l]
    BY <1>14, ResumeLabel DEF ShutdownLock, ShutdownReturn
  <2>2. tasksClosed
    BY <1>14 DEF ShutdownLock, Drained
  <2> QED BY <1>1, <1>14, <2>1, <2>2 DEF ShutdownLock
<1>15. ASSUME NEW t \in Threads, ShutdownWait(t) \/ ShutdownFinish(t) PROVE Drained'
  <2>1. PICK l \in {"run", "idle"} : pc' = [pc EXCEPT ![t] = l]
    BY <1>15, ResumeLabel DEF ShutdownWait, ShutdownFinish, ShutdownReturn
  <2>2. UNCHANGED <<tasks, tasksClosed>>
    BY <1>15 DEF ShutdownWait, ShutdownFinish
  <2> QED BY <1>1, <2>1, <2>2
<1>16. ASSUME NEW t \in Threads, ShutdownJoin(t) PROVE Drained'
  BY <1>16 DEF ShutdownJoin, Drained
<1> QED BY <1>2, <1>3, <1>4, <1>5, <1>6, <1>7, <1>8, <1>9, <1>10, <1>11, <1>12, <1>13,
           <1>14, <1>15, <1>16
        DEF Next, WorkerStep, PostStep, ShutdownStep

-----------------------------------------------------------------------------
LEMMA HoldsStep ==
  ASSUME TypeOK, Handles, Holds, [Next]_vars
  PROVE  Holds'
<1> USE DEF Goto, poolVars, stateVars
<1> USE ThreadKinds
<1>0. /\ pc \in [Threads -> Labels]
      /\ task \in [Workers -> Tasks \cup {NoTask}] /\ arg \in [Threads -> Tasks \cup {NoTask}]
  BY DEF TypeOK, Labels
\* A thread moves between labels at which the same things are held.
<1>1. ASSUME NEW t \in Threads, NEW l, pc' = [pc EXCEPT ![t] = l], UNCHANGED <<task, arg>>,
             l \in PostLabels <=> pc[t] \in PostLabels,
             t \in Workers => (l \in {"run", "count"} \cup PostLabels \cup ShutdownLabels
                <=> pc[t] \in {"run", "count"} \cup PostLabels \cup ShutdownLabels)
      PROVE  Holds'
  BY <1>0, <1>1 DEF Holds
<1>2. \A t \in Threads : /\ Resume(t) \notin PostLabels
                         /\ t \in Workers => Resume(t) = "run"
  BY DEF Resume, PostLabels
<1>3. CASE UNCHANGED vars
  BY <1>3 DEF vars, Holds
<1>4. CASE SpawnWorker
  <2>1. Len(workers_) + 1 \in Workers /\ pc[Len(workers_) + 1] = "new"
    BY <1>4, WorkerCountAssumption DEF SpawnWorker, Handles, Workers, TypeOK
  <2> QED BY <1>1, <1>4, <2>1 DEF SpawnWorker, PostLabels, ShutdownLabels
<1>5. CASE SpawnFails \/ UnwindJoin \/ NoPool
  BY <1>5 DEF SpawnFails, UnwindJoin, NoPool, vars, Holds
<1>6. ASSUME NEW w \in Workers, WorkerPop(w) PROVE Holds'
  <2>1. CASE tasks # << >>
    <3>1. Head(tasks) \in Tasks
      BY <2>1 DEF TypeOK
    <3>2. /\ pc[w] = "pop" /\ pc' = [pc EXCEPT ![w] = "run"] /\ arg' = arg
          /\ task' = [task EXCEPT ![w] = Head(tasks)]
      BY <1>6, <2>1 DEF WorkerPop
    <3> QED BY <1>0, <3>1, <3>2 DEF Holds, PostLabels
  <2>2. CASE tasks = << >>
    BY <1>1, <1>6, <2>2 DEF WorkerPop, PostLabels, ShutdownLabels
  <2> QED BY <2>1, <2>2
<1>7. ASSUME NEW w \in Workers, WorkerCount(w) PROVE Holds'
  BY <1>0, <1>7 DEF WorkerCount, Holds, PostLabels, ShutdownLabels
<1>8. ASSUME NEW w \in Workers, TaskEnds(w) PROVE Holds'
  BY <1>1, <1>8 DEF TaskEnds, PostLabels
<1>9. ASSUME NEW t \in Threads, PostCheck(t) PROVE Holds'
  <2>1. CASE UNCHANGED <<pc, arg>>
    BY <1>9, <2>1 DEF PostCheck, Holds
  <2>2. CASE pc' = [pc EXCEPT ![t] = "post_add"] /\ \E k \in Tasks : arg' = [arg EXCEPT ![t] = k]
    <3>1. pc[t] = Resume(t) /\ task' = task
      BY <1>9 DEF PostCheck, CanCall
    <3> QED BY <1>0, <1>2, <2>2, <3>1 DEF Holds, PostLabels
  <2> QED BY <1>9, <2>1, <2>2 DEF PostCheck
<1>10. ASSUME NEW t \in Threads, PostAdd(t) PROVE Holds'
  BY <1>1, <1>10 DEF PostAdd, PostLabels
<1>11. ASSUME NEW t \in Threads, pc[t] \in PostLabels, arg' = [arg EXCEPT ![t] = NoTask],
              pc' = [pc EXCEPT ![t] = Resume(t)], task' = task
       PROVE  Holds'
  BY <1>0, <1>2, <1>11 DEF Holds
<1>12. ASSUME NEW t \in Threads, PostPush(t) PROVE Holds'
  <2>1. CASE pc' = [pc EXCEPT ![t] = "post_undo"] /\ arg' = arg
    BY <1>1, <1>12, <2>1 DEF PostPush, PostLabels
  <2> QED BY <1>11, <1>12, <2>1 DEF PostPush, PostLabels
<1>13. ASSUME NEW t \in Threads, PostUndo(t) PROVE Holds'
  BY <1>11, <1>13 DEF PostUndo, PostLabels
<1>14. ASSUME NEW t \in Threads, ShutdownStop(t) PROVE Holds'
  BY <1>1, <1>2, <1>14 DEF ShutdownStop, CanCall, ShutdownLabels, PostLabels
<1>15. ASSUME NEW t \in Threads, ShutdownClose(t) PROVE Holds'
  BY <1>1, <1>15 DEF ShutdownClose, ShutdownLabels, PostLabels
<1>16. ASSUME NEW t \in Threads, ShutdownLock(t) \/ ShutdownWait(t) \/ ShutdownFinish(t)
       PROVE  Holds'
  <2>1. PICK l \in {Resume(t), "sd_wait", "sd_join"} : pc' = [pc EXCEPT ![t] = l]
    BY <1>16 DEF ShutdownLock, ShutdownWait, ShutdownFinish, ShutdownReturn
  <2>2. pc[t] \in ShutdownLabels /\ UNCHANGED <<task, arg>>
    BY <1>16 DEF ShutdownLock, ShutdownWait, ShutdownFinish, ShutdownLabels
  <2>3. \A x \in ShutdownLabels : x \notin PostLabels
    BY DEF ShutdownLabels, PostLabels
  <2>4. "sd_wait" \in ShutdownLabels /\ "sd_join" \in ShutdownLabels
    BY DEF ShutdownLabels
  <2> QED BY <1>1, <1>2, <2>1, <2>2, <2>3, <2>4
<1>17. ASSUME NEW t \in Threads, ShutdownJoin(t) PROVE Holds'
  BY <1>17 DEF ShutdownJoin, Holds
<1> QED BY <1>3, <1>4, <1>5, <1>6, <1>7, <1>8, <1>9, <1>10, <1>12, <1>13, <1>14, <1>15,
           <1>16, <1>17
        DEF Next, WorkerStep, PostStep, ShutdownStep

-----------------------------------------------------------------------------
LEMMA FatedStep ==
  ASSUME TypeOK, Handles, Holds, Fated, [Next]_vars
  PROVE  Fated'
<1> USE DEF Goto, poolVars, stateVars
<1> USE ThreadKinds
<1>0. /\ pc \in [Threads -> Labels] /\ tasks \in Seq(Tasks) /\ fate \in [Tasks -> Fates]
      /\ task \in [Workers -> Tasks \cup {NoTask}] /\ arg \in [Threads -> Tasks \cup {NoTask}]
  BY DEF TypeOK, Labels, Fates
<1>1. /\ Len(tasks) \in Nat
      /\ \A i \in 1..Len(tasks) : tasks[i] \in Tasks
  BY <1>0, ElementOfSeq, LenProperties
\* Tasks and fates stay as they are, and no worker comes back from counting.
<1>2. ASSUME UNCHANGED <<fate, tasks, task, arg>>,
             \A w \in Workers : pc[w] = "count" => pc'[w] = "count"
      PROVE  Fated'
  BY <1>2 DEF Fated
<1>3. ASSUME NEW t \in Threads, NEW l, pc' = [pc EXCEPT ![t] = l], pc[t] # "count",
             UNCHANGED <<fate, tasks, task, arg>>
      PROVE  Fated'
  BY <1>0, <1>2, <1>3
<1>4. CASE UNCHANGED vars
  BY <1>2, <1>4 DEF vars
<1>5. CASE SpawnWorker
  <2>1. Len(workers_) + 1 \in Workers /\ pc[Len(workers_) + 1] = "new"
    BY <1>5, WorkerCountAssumption DEF SpawnWorker, Handles, Workers, TypeOK
  <2>2. pc' = [pc EXCEPT ![Len(workers_) + 1] = "pop"] /\ UNCHANGED <<fate, tasks, task, arg>>
    BY <1>5 DEF SpawnWorker
  <2> QED BY <1>3, <2>1, <2>2
<1>6. CASE SpawnFails \/ UnwindJoin \/ NoPool
  BY <1>2, <1>6 DEF SpawnFails, UnwindJoin, NoPool, vars
<1>7. ASSUME NEW w \in Workers, WorkerPop(w) PROVE Fated'
  <2>1. CASE tasks # << >>
    <3> DEFINE h == Head(tasks)
               q == Tail(tasks)
    <3>1. /\ pc[w] = "pop" /\ pc' = [pc EXCEPT ![w] = "run"] /\ arg' = arg
          /\ task' = [task EXCEPT ![w] = h] /\ tasks' = q
          /\ fate' = [fate EXCEPT ![h] = "running"]
      BY <1>7, <2>1 DEF WorkerPop
    <3>2. /\ h \in Tasks /\ h = tasks[1] /\ 1 \in 1..Len(tasks)
          /\ Len(q) = Len(tasks) - 1
          /\ \A i \in 1..Len(q) : q[i] = tasks[i + 1]
      BY <1>0, <1>1, <2>1, HeadTailProperties, EmptySeq
    <3>3. \A i \in 1..Len(q) : i + 1 \in 1..Len(tasks) /\ i + 1 # 1
      BY <1>1, <3>2
    <3>4. \A i \in 1..Len(q) : q[i] \in Tasks /\ q[i] # h /\ fate[q[i]] = "queued"
      BY <1>1, <3>2, <3>3 DEF Fated
    <3>5. \A i, j \in 1..Len(q) : q[i] = q[j] => i = j
      BY <3>2, <3>3 DEF Fated
    <3>6. fate[h] = "queued"
      BY <3>2 DEF Fated
    <3> HIDE DEF h, q
    <3>7. \A t \in Threads : arg'[t] # NoTask => fate'[arg'[t]] = "offered"
      BY <1>0, <3>1, <3>2, <3>6 DEF Fated
    <3>8. \A t, u \in Threads : arg'[t] # NoTask /\ arg'[t] = arg'[u] => t = u
      BY <3>1 DEF Fated
    <3>9. \A i \in 1..Len(q) : fate'[q[i]] = "queued"
      BY <1>0, <3>1, <3>2, <3>4
    <3>10. \A v \in Workers : task'[v] # NoTask /\ pc'[v] # "count" => fate'[task'[v]] = "running"
      BY <1>0, <3>1, <3>2 DEF Fated
    <3>11. \A v \in Workers : task[v] # NoTask /\ pc[v] # "count" => task[v] # h
      BY <3>6 DEF Fated
    <3>12. \A u, v \in Workers : task'[u] # NoTask /\ pc'[u] # "count" /\ pc'[v] # "count"
                                  /\ task'[u] = task'[v] => u = v
      BY <1>0, <3>1, <3>2, <3>11 DEF Fated
    <3> QED BY <3>1, <3>5, <3>7, <3>8, <3>9, <3>10, <3>12 DEF Fated
  <2>2. CASE tasks = << >>
    BY <1>3, <1>7, <2>2 DEF WorkerPop
  <2> QED BY <2>1, <2>2
<1>8. ASSUME NEW w \in Workers, TaskEnds(w) PROVE Fated'
  <2> DEFINE k == task[w]
  <2>1. PICK outcome \in {"ok", "threw"} : fate' = [fate EXCEPT ![k] = outcome]
    BY <1>8 DEF TaskEnds
  <2>2. /\ pc[w] = "run" /\ pc' = [pc EXCEPT ![w] = "count"] /\ UNCHANGED <<tasks, task, arg>>
    BY <1>8 DEF TaskEnds
  <2>3. k \in Tasks /\ fate[k] = "running"
    BY <1>0, <2>2 DEF Holds, Fated
  <2>4. \A v \in Workers : v # w /\ pc[v] # "count" => task[v] # k
    BY <2>2, <2>3 DEF Fated
  <2>5. /\ \A t \in Threads : arg[t] # NoTask => fate'[arg[t]] = "offered"
        /\ \A i \in 1..Len(tasks) : fate'[tasks[i]] = "queued"
    BY <1>0, <1>1, <2>1, <2>3 DEF Fated
  <2>6. \A v \in Workers : task[v] # NoTask /\ pc'[v] # "count" => fate'[task[v]] = "running"
    BY <1>0, <2>1, <2>2, <2>4 DEF Fated
  <2>7. \A u, v \in Workers : task[u] # NoTask /\ pc'[u] # "count" /\ pc'[v] # "count"
                               /\ task[u] = task[v] => u = v
    BY <1>0, <2>2 DEF Fated
  <2> QED BY <2>2, <2>5, <2>6, <2>7 DEF Fated
<1>9. ASSUME NEW w \in Workers, WorkerCount(w) PROVE Fated'
  <2>1. /\ pc' = [pc EXCEPT ![w] = "pop"] /\ task' = [task EXCEPT ![w] = NoTask]
        /\ UNCHANGED <<tasks, arg, fate>>
    BY <1>9 DEF WorkerCount
  <2> QED BY <1>0, <2>1 DEF Fated
<1>10. ASSUME NEW t \in Threads, PostCheck(t) PROVE Fated'
  <2>1. PICK k \in Tasks :
          /\ fate[k] = "unused"
          /\ \/ fate' = [fate EXCEPT ![k] = "refused"] /\ UNCHANGED <<pc, arg>>
             \/ /\ fate' = [fate EXCEPT ![k] = "offered"] /\ arg' = [arg EXCEPT ![t] = k]
                /\ pc' = [pc EXCEPT ![t] = "post_add"]
    BY <1>10 DEF PostCheck
  <2>2. UNCHANGED <<tasks, task>> /\ pc[t] # "count"
    BY <1>10, ResumeLabel DEF PostCheck, CanCall
  <2>3. /\ \A i \in 1..Len(tasks) : tasks[i] # k
        /\ \A u \in Threads : arg[u] # k
        /\ \A w \in Workers : task[w] # NoTask /\ pc[w] # "count" => task[w] # k
    BY <2>1 DEF Fated
  <2>4. \A j \in Tasks : j # k => fate'[j] = fate[j]
    BY <1>0, <2>1
  <2>5. \A w \in Workers : pc'[w] # "count" => pc[w] # "count"
    BY <1>0, <2>1, <2>2
  <2>6. /\ \A u \in Threads : arg'[u] # NoTask => fate'[arg'[u]] = "offered"
        /\ \A u, v \in Threads : arg'[u] # NoTask /\ arg'[u] = arg'[v] => u = v
    BY <1>0, <2>1, <2>3, <2>4 DEF Fated
  <2>7. \A i \in 1..Len(tasks) : fate'[tasks[i]] = "queued"
    BY <1>1, <2>3, <2>4 DEF Fated
  <2>8. \A w \in Workers : task[w] # NoTask /\ pc'[w] # "count" => fate'[task[w]] = "running"
    BY <1>0, <2>3, <2>4, <2>5 DEF Fated
  <2> QED BY <2>2, <2>5, <2>6, <2>7, <2>8 DEF Fated
<1>11. ASSUME NEW t \in Threads, PostAdd(t) PROVE Fated'
  BY <1>3, <1>11 DEF PostAdd
\* The task a caller of post held is queued or refused.
<1>12. ASSUME NEW t \in Threads, pc[t] \in PostLabels,
              NEW f \in {"queued", "refused"}, fate' = [fate EXCEPT ![arg[t]] = f],
              arg' = [arg EXCEPT ![t] = NoTask], pc' = [pc EXCEPT ![t] = Resume(t)],
              task' = task
       PROVE  /\ arg[t] \in Tasks /\ fate'[arg[t]] = f
              /\ \A i \in 1..Len(tasks) : tasks[i] # arg[t] /\ fate'[tasks[i]] = "queued"
              /\ \A u \in Threads : arg'[u] # NoTask => fate'[arg'[u]] = "offered"
              /\ \A u, v \in Threads : arg'[u] # NoTask /\ arg'[u] = arg'[v] => u = v
              /\ \A w \in Workers : task[w] # NoTask /\ pc'[w] # "count"
                                         => fate'[task[w]] = "running"
              /\ \A v, w \in Workers : task[v] # NoTask /\ pc'[v] # "count" /\ pc'[w] # "count"
                                           /\ task[v] = task[w] => v = w
  <2> DEFINE k == arg[t]
  <2>1. k \in Tasks /\ fate[k] = "offered"
    BY <1>0, <1>12 DEF Holds, Fated
  <2>2. /\ \A i \in 1..Len(tasks) : tasks[i] # k
        /\ \A u \in Threads : u # t => arg[u] # k
        /\ \A w \in Workers : task[w] # NoTask /\ pc[w] # "count" => task[w] # k
    BY <2>1 DEF Fated
  <2>3. fate'[k] = f /\ \A j \in Tasks : j # k => fate'[j] = fate[j]
    BY <1>0, <1>12, <2>1
  <2>4. \A w \in Workers : pc'[w] # "count" => pc[w] # "count"
    BY <1>0, <1>12 DEF PostLabels
  <2>5. \A i \in 1..Len(tasks) : tasks[i] # k /\ fate'[tasks[i]] = "queued"
    BY <1>1, <2>2, <2>3 DEF Fated
  <2>6. /\ \A u \in Threads : arg'[u] # NoTask => fate'[arg'[u]] = "offered"
        /\ \A u, v \in Threads : arg'[u] # NoTask /\ arg'[u] = arg'[v] => u = v
    BY <1>0, <1>12, <2>2, <2>3 DEF Fated
  <2>7. \A w \in Workers : task[w] # NoTask /\ pc'[w] # "count" => fate'[task[w]] = "running"
    BY <1>0, <2>2, <2>3, <2>4 DEF Fated
  <2>8. \A v, w \in Workers : task[v] # NoTask /\ pc'[v] # "count" /\ pc'[w] # "count"
                               /\ task[v] = task[w] => v = w
    BY <2>4 DEF Fated
  <2> QED BY <2>1, <2>3, <2>5, <2>6, <2>7, <2>8
<1>13. ASSUME NEW t \in Threads, PostPush(t) PROVE Fated'
  <2>1. CASE pc' = [pc EXCEPT ![t] = "post_undo"] /\ UNCHANGED <<tasks, fate, arg>>
    BY <1>3, <1>13, <2>1 DEF PostPush
  <2>2. CASE /\ tasks' = Append(tasks, arg[t]) /\ fate' = [fate EXCEPT ![arg[t]] = "queued"]
             /\ arg' = [arg EXCEPT ![t] = NoTask] /\ pc' = [pc EXCEPT ![t] = Resume(t)]
    <3>1. pc[t] \in PostLabels /\ task' = task
      BY <1>13 DEF PostPush, PostLabels
    <3>2. /\ arg[t] \in Tasks /\ fate'[arg[t]] = "queued"
          /\ \A i \in 1..Len(tasks) : tasks[i] # arg[t] /\ fate'[tasks[i]] = "queued"
          /\ \A u \in Threads : arg'[u] # NoTask => fate'[arg'[u]] = "offered"
          /\ \A u, v \in Threads : arg'[u] # NoTask /\ arg'[u] = arg'[v] => u = v
          /\ \A w \in Workers : task[w] # NoTask /\ pc'[w] # "count"
                                     => fate'[task[w]] = "running"
          /\ \A v, w \in Workers : task[v] # NoTask /\ pc'[v] # "count" /\ pc'[w] # "count"
                                       /\ task[v] = task[w] => v = w
      BY <1>12, <2>2, <3>1
    <3>3. /\ Len(tasks') = Len(tasks) + 1
          /\ \A i \in 1..Len(tasks) : tasks'[i] = tasks[i]
          /\ tasks'[Len(tasks) + 1] = arg[t]
      BY <1>0, <2>2, <3>2, AppendProperties
    <3>4. \A i \in 1..Len(tasks') : i \in 1..Len(tasks) \/ i = Len(tasks) + 1
      BY <1>1, <3>3
    <3>5. \A i \in 1..Len(tasks') : fate'[tasks'[i]] = "queued"
      BY <3>2, <3>3, <3>4
    <3>6. \A i, j \in 1..Len(tasks') : tasks'[i] = tasks'[j] => i = j
      BY <3>2, <3>3, <3>4 DEF Fated
    <3> QED BY <3>1, <3>2, <3>5, <3>6 DEF Fated
  <2> QED BY <1>13, <2>1, <2>2 DEF PostPush
<1>14. ASSUME NEW t \in Threads, PostUndo(t) PROVE Fated'
  <2>1. /\ pc[t] \in PostLabels /\ task' = task /\ tasks' = tasks
        /\ fate' = [fate EXCEPT ![arg[t]] = "refused"]
        /\ arg' = [arg EXCEPT ![t] = NoTask] /\ pc' = [pc EXCEPT ![t] = Resume(t)]
    BY <1>14 DEF PostUndo, PostLabels
  <2>2. /\ \A i \in 1..Len(tasks) : tasks[i] # arg[t] /\ fate'[tasks[i]] = "queued"
        /\ \A u \in Threads : arg'[u] # NoTask => fate'[arg'[u]] = "offered"
        /\ \A u, v \in Threads : arg'[u] # NoTask /\ arg'[u] = arg'[v] => u = v
        /\ \A w \in Workers : task[w] # NoTask /\ pc'[w] # "count"
                                   => fate'[task[w]] = "running"
        /\ \A v, w \in Workers : task[v] # NoTask /\ pc'[v] # "count" /\ pc'[w] # "count"
                                     /\ task[v] = task[w] => v = w
    BY <1>12, <2>1
  <2> QED BY <2>1, <2>2 DEF Fated
<1>15. ASSUME NEW t \in Threads, ShutdownStop(t) PROVE Fated'
  BY <1>3, <1>15, ResumeLabel DEF ShutdownStop, CanCall
<1>16. ASSUME NEW t \in Threads, ShutdownStep(t) PROVE Fated'
  <2>1. UNCHANGED <<fate, tasks, task, arg>> /\ pc[t] # "count"
    BY <1>16 DEF ShutdownStep, ShutdownClose, ShutdownLock, ShutdownWait, ShutdownJoin,
                 ShutdownFinish
  <2>2. CASE UNCHANGED pc
    BY <1>2, <2>1, <2>2
  <2>3. CASE \E l : pc' = [pc EXCEPT ![t] = l]
    BY <1>3, <2>1, <2>3
  <2> QED BY <1>16, <2>2, <2>3 DEF ShutdownStep, ShutdownClose, ShutdownLock, ShutdownWait,
                                   ShutdownJoin, ShutdownFinish, ShutdownReturn
<1> QED BY <1>4, <1>5, <1>6, <1>7, <1>8, <1>9, <1>10, <1>11, <1>13, <1>14, <1>15, <1>16
        DEF Next, WorkerStep, PostStep

-----------------------------------------------------------------------------
\* The tasks that threw.
Threw == {k \in Tasks : fate[k] = "threw"}

\* How the balance of submitted tasks may move: a task is taken, counted, about
\* to be pushed, pushed, or taken back.
LEMMA BalanceMoves ==
  ASSUME NEW s \in Nat, NEW c \in Nat, NEW b \in Nat, NEW q \in Nat, NEW n \in Nat,
         s = c + b + q + n
  PROVE  /\ s = c + (b + 1) + (q - 1) + n
         /\ s = (c + 1) + (b - 1) + q + n
         /\ s + 1 = c + b + q + (n + 1)
         /\ s = c + b + (q + 1) + (n - 1)
         /\ s - 1 = c + b + q + (n - 1)
  OBVIOUS

LEMMA AccountingStep ==
  ASSUME TypeOK, Handles, Holds, Fated, Accounting, [Next]_vars
  PROVE  Accounting'
<1> USE DEF Goto, poolVars, stateVars
<1> USE ThreadKinds
<1>0. /\ pc \in [Threads -> Labels] /\ tasks \in Seq(Tasks) /\ fate \in [Tasks -> Fates]
      /\ task \in [Workers -> Tasks \cup {NoTask}] /\ arg \in [Threads -> Tasks \cup {NoTask}]
      /\ submitted \in Nat /\ completed \in Nat /\ failed \in Nat /\ Len(tasks) \in Nat
  BY DEF TypeOK, Labels, Fates
<1>1. IsFiniteSet(Busy) /\ IsFiniteSet(Counted) /\ IsFiniteSet(Threw)
  BY FS_Subset DEF Busy, Counted, Threw
<1> DEFINE s == submitted
           c == completed
           b == Cardinality(Busy)
           q == Len(tasks)
           n == Cardinality(Counted)
<1>2. b \in Nat /\ n \in Nat /\ Cardinality(Threw) \in Nat
  BY <1>1, FS_CardinalityType
<1>3. /\ s = c + b + q + n
      /\ s = c + (b + 1) + (q - 1) + n
      /\ s = (c + 1) + (b - 1) + q + n
      /\ s + 1 = c + b + q + (n + 1)
      /\ s = c + b + (q + 1) + (n - 1)
      /\ s - 1 = c + b + q + (n - 1)
  <2>1. /\ s \in Nat /\ c \in Nat /\ b \in Nat /\ q \in Nat /\ n \in Nat
        /\ s = c + b + q + n
    BY <1>0, <1>2 DEF Accounting
  <2> HIDE DEF s, c, b, q, n
  <2> QED BY <2>1, BalanceMoves
<1>4. failed = Cardinality(Threw)
  BY DEF Accounting, Threw
<1>5. ASSUME submitted' = completed' + Cardinality(Busy') + Len(tasks') + Cardinality(Counted'),
             failed' = Cardinality(Threw')
      PROVE  Accounting'
  BY <1>5 DEF Accounting, Threw
\* Nothing that counts changes.
<1>6. ASSUME UNCHANGED <<submitted, completed, failed, tasks, task>>,
             Counted' = Counted, Threw' = Threw
      PROVE  Accounting'
  <2>1. Busy' = Busy
    BY <1>6 DEF Busy
  <2> QED BY <1>3, <1>4, <1>5, <1>6, <2>1
<1>7. ASSUME NEW t \in Threads, NEW l, pc' = [pc EXCEPT ![t] = l],
             l \in {"post_push", "post_undo"} <=> pc[t] \in {"post_push", "post_undo"}
      PROVE  Counted' = Counted
  BY <1>0, <1>7 DEF Counted
<1>8. fate' = fate => Threw' = Threw
  BY DEF Threw
\* A fate that was not "threw" and does not become so.
<1>9. ASSUME NEW k \in Tasks, NEW f, fate' = [fate EXCEPT ![k] = f], fate[k] # "threw",
             f # "threw"
      PROVE  Threw' = Threw
  BY <1>0, <1>9 DEF Threw
<1>10. CASE UNCHANGED vars
  BY <1>10 DEF vars, Accounting, Busy, Counted
<1>11. CASE SpawnWorker
  <2>1. Len(workers_) + 1 \in Workers /\ pc[Len(workers_) + 1] = "new"
    BY <1>11, WorkerCountAssumption DEF SpawnWorker, Handles, Workers, TypeOK
  <2>2. PICK w \in Workers : pc[w] = "new" /\ pc' = [pc EXCEPT ![w] = "pop"]
    BY <1>11, <2>1 DEF SpawnWorker
  <2>3. Counted' = Counted
    BY <1>7, <2>2
  <2> QED BY <1>6, <1>8, <1>11, <2>3 DEF SpawnWorker
<1>12. CASE SpawnFails \/ UnwindJoin \/ NoPool
  BY <1>12 DEF SpawnFails, UnwindJoin, NoPool, vars, Accounting, Busy, Counted
<1>13. ASSUME NEW w \in Workers, WorkerPop(w) PROVE Accounting'
  <2>1. CASE tasks # << >>
    <3>1. Head(tasks) \in Tasks /\ Len(Tail(tasks)) = q - 1 /\ Head(tasks) = tasks[1]
          /\ 1 \in 1..Len(tasks)
      BY <1>0, <2>1, HeadTailProperties, EmptySeq
    <3>2. /\ pc[w] = "pop" /\ pc' = [pc EXCEPT ![w] = "run"] /\ tasks' = Tail(tasks)
          /\ task' = [task EXCEPT ![w] = Head(tasks)]
          /\ fate' = [fate EXCEPT ![Head(tasks)] = "running"]
          /\ UNCHANGED <<submitted, completed, failed>>
      BY <1>13, <2>1 DEF WorkerPop
    <3>3. w \notin Busy /\ Busy' = Busy \cup {w}
      BY <1>0, <3>1, <3>2 DEF Busy, Holds, PostLabels, ShutdownLabels
    <3>4. Cardinality(Busy') = b + 1
      BY <1>1, <3>3, FS_AddElement
    <3>5. Counted' = Counted
      BY <1>7, <3>2
    <3>6. fate[Head(tasks)] = "queued"
      BY <3>1 DEF Fated
    <3>7. Threw' = Threw
      BY <1>9, <3>1, <3>2, <3>6
    <3> QED BY <1>3, <1>4, <1>5, <3>1, <3>2, <3>4, <3>5, <3>7
  <2>2. CASE tasks = << >>
    <3>1. Counted' = Counted
      BY <1>7, <1>13, <2>2 DEF WorkerPop
    <3> QED BY <1>6, <1>8, <1>13, <2>2, <3>1 DEF WorkerPop
  <2> QED BY <2>1, <2>2
<1>14. ASSUME NEW w \in Workers, TaskEnds(w) PROVE Accounting'
  <2>1. PICK outcome \in {"ok", "threw"} :
          /\ fate' = [fate EXCEPT ![task[w]] = outcome]
          /\ failed' = IF outcome = "threw" THEN failed + 1 ELSE failed
    BY <1>14 DEF TaskEnds
  <2>2. /\ pc[w] = "run" /\ pc' = [pc EXCEPT ![w] = "count"]
        /\ UNCHANGED <<submitted, completed, tasks, task>>
    BY <1>14 DEF TaskEnds
  <2>3. task[w] \in Tasks /\ fate[task[w]] = "running"
    BY <1>0, <2>2 DEF Holds, Fated
  <2>4. Counted' = Counted /\ Busy' = Busy
    BY <1>7, <2>2 DEF Busy
  <2>5. CASE outcome = "threw"
    <3>1. task[w] \notin Threw /\ Threw' = Threw \cup {task[w]}
      BY <1>0, <2>1, <2>3, <2>5 DEF Threw
    <3>2. Cardinality(Threw') = Cardinality(Threw) + 1
      BY <1>1, <3>1, FS_AddElement
    <3> QED BY <1>3, <1>4, <1>5, <2>1, <2>2, <2>4, <2>5, <3>2
  <2>6. CASE outcome = "ok"
    <3>1. Threw' = Threw
      BY <1>9, <2>1, <2>3, <2>6
    <3> QED BY <1>6, <2>1, <2>2, <2>4, <2>6, <3>1
  <2> QED BY <2>5, <2>6
<1>15. ASSUME NEW w \in Workers, WorkerCount(w) PROVE Accounting'
  <2>1. /\ pc[w] = "count" /\ pc' = [pc EXCEPT ![w] = "pop"] /\ completed' = c + 1
        /\ task' = [task EXCEPT ![w] = NoTask] /\ UNCHANGED <<submitted, tasks, failed, fate>>
    BY <1>15 DEF WorkerCount
  <2>2. w \in Busy /\ Busy' = Busy \ {w}
    BY <1>0, <2>1 DEF Busy, Holds
  <2>3. Cardinality(Busy') = b - 1
    BY <1>1, <2>2, FS_RemoveElement
  <2>4. Counted' = Counted
    BY <1>7, <2>1
  <2> QED BY <1>3, <1>4, <1>5, <1>8, <2>1, <2>3, <2>4
<1>16. ASSUME NEW t \in Threads, PostCheck(t) PROVE Accounting'
  <2>1. PICK k \in Tasks : fate[k] = "unused" /\ \E f \in {"refused", "offered"} :
                                                    fate' = [fate EXCEPT ![k] = f]
    BY <1>16 DEF PostCheck
  <2>2. Threw' = Threw
    BY <1>9, <2>1
  <2>3. Counted' = Counted
    <3>1. CASE UNCHANGED pc
      BY <3>1 DEF Counted
    <3>2. CASE pc' = [pc EXCEPT ![t] = "post_add"]
      BY <1>7, <1>16, <3>2, ResumeLabel DEF PostCheck, CanCall
    <3> QED BY <1>16, <3>1, <3>2 DEF PostCheck
  <2> QED BY <1>6, <1>16, <2>2, <2>3 DEF PostCheck
<1>17. ASSUME NEW t \in Threads, PostAdd(t) PROVE Accounting'
  <2>1. /\ pc[t] = "post_add" /\ pc' = [pc EXCEPT ![t] = "post_push"] /\ submitted' = s + 1
        /\ UNCHANGED <<completed, failed, tasks, task, fate>>
    BY <1>17 DEF PostAdd
  <2>2. t \notin Counted /\ Counted' = Counted \cup {t} /\ Busy' = Busy
    BY <1>0, <2>1 DEF Counted, Busy
  <2>3. Cardinality(Counted') = n + 1
    BY <1>1, <2>2, FS_AddElement
  <2> QED BY <1>3, <1>4, <1>5, <1>8, <2>1, <2>2, <2>3
\* A caller of post leaves: its task was queued or refused.
<1>18. ASSUME NEW t \in Threads, pc[t] \in {"post_push", "post_undo"},
              NEW f \in {"queued", "refused"}, fate' = [fate EXCEPT ![arg[t]] = f],
              pc' = [pc EXCEPT ![t] = Resume(t)], task' = task
       PROVE  Cardinality(Counted') = n - 1 /\ Threw' = Threw /\ Busy' = Busy
  <2>1. t \in Counted /\ Counted' = Counted \ {t} /\ Busy' = Busy
    BY <1>0, <1>18, ResumeLabel DEF Counted, Busy
  <2>2. Cardinality(Counted') = n - 1
    BY <1>1, <2>1, FS_RemoveElement
  <2>3. arg[t] \in Tasks /\ fate[arg[t]] = "offered"
    BY <1>0, <1>18 DEF Holds, Fated, PostLabels
  <2>4. Threw' = Threw
    BY <1>9, <1>18, <2>3
  <2> QED BY <2>1, <2>2, <2>4
<1>19. ASSUME NEW t \in Threads, PostPush(t) PROVE Accounting'
  <2>1. CASE pc' = [pc EXCEPT ![t] = "post_undo"] /\ UNCHANGED <<tasks, fate, arg>>
    <3>1. Counted' = Counted
      BY <1>7, <1>19, <2>1 DEF PostPush
    <3> QED BY <1>6, <1>8, <1>19, <2>1, <3>1 DEF PostPush
  <2>2. CASE /\ tasks' = Append(tasks, arg[t]) /\ fate' = [fate EXCEPT ![arg[t]] = "queued"]
             /\ pc' = [pc EXCEPT ![t] = Resume(t)]
    <3>1. pc[t] = "post_push" /\ UNCHANGED <<submitted, completed, failed, task>>
      BY <1>19 DEF PostPush
    <3>2. Cardinality(Counted') = n - 1 /\ Threw' = Threw /\ Busy' = Busy
      BY <1>18, <2>2, <3>1
    <3>3. arg[t] \in Tasks
      BY <1>0, <3>1 DEF Holds, PostLabels
    <3>4. Len(tasks') = q + 1
      BY <1>0, <2>2, <3>3, AppendProperties
    <3> QED BY <1>3, <1>4, <1>5, <3>1, <3>2, <3>4
  <2> QED BY <1>19, <2>1, <2>2 DEF PostPush
<1>20. ASSUME NEW t \in Threads, PostUndo(t) PROVE Accounting'
  <2>1. /\ pc[t] = "post_undo" /\ UNCHANGED <<completed, failed, tasks, task>>
        /\ submitted' = s - 1 /\ fate' = [fate EXCEPT ![arg[t]] = "refused"]
        /\ pc' = [pc EXCEPT ![t] = Resume(t)]
    BY <1>20 DEF PostUndo
  <2>2. Cardinality(Counted') = n - 1 /\ Threw' = Threw /\ Busy' = Busy
    BY <1>18, <2>1
  <2> QED BY <1>3, <1>4, <1>5, <2>1, <2>2
<1>21. ASSUME NEW t \in Threads, ShutdownStop(t) PROVE Accounting'
  <2>1. Counted' = Counted
    BY <1>7, <1>21, ResumeLabel DEF ShutdownStop, CanCall
  <2> QED BY <1>6, <1>8, <1>21, <2>1 DEF ShutdownStop
<1>22. ASSUME NEW t \in Threads, ShutdownStep(t) PROVE Accounting'
  <2>1. UNCHANGED <<submitted, completed, failed, tasks, task, fate>>
    BY <1>22 DEF ShutdownStep, ShutdownClose, ShutdownLock, ShutdownWait, ShutdownJoin,
                 ShutdownFinish
  <2>2. pc[t] \notin {"post_push", "post_undo"}
    BY <1>22 DEF ShutdownStep, ShutdownClose, ShutdownLock, ShutdownWait, ShutdownJoin,
                 ShutdownFinish
  <2>3. \/ UNCHANGED pc
        \/ \E l \in {"run", "idle", "sd_lock", "sd_wait", "sd_join"} : pc' = [pc EXCEPT ![t] = l]
    BY <1>22, ResumeLabel DEF ShutdownStep, ShutdownClose, ShutdownLock, ShutdownWait,
                              ShutdownJoin, ShutdownFinish, ShutdownReturn
  <2>4. Counted' = Counted
    <3>1. CASE UNCHANGED pc
      BY <3>1 DEF Counted
    <3> QED BY <1>7, <2>2, <2>3, <3>1
  <2> QED BY <1>6, <1>8, <2>1, <2>4
<1> QED BY <1>10, <1>11, <1>12, <1>13, <1>14, <1>15, <1>16, <1>17, <1>19, <1>20, <1>21,
           <1>22
        DEF Next, WorkerStep, PostStep

-----------------------------------------------------------------------------
\* PoolInv is inductive.
LEMMA PoolInvariant == Spec => []PoolInv
<1>1. Init => PoolInv
  <2> SUFFICES ASSUME Init PROVE PoolInv
    OBVIOUS
  <2>1. TypeOK
    BY TypeInit
  <2>2. Handles
    BY ThreadKinds, WorkerCountAssumption DEF Init, Handles, ShutdownLabels
  <2>3. Joins /\ Drained
    BY ThreadKinds DEF Init, Joins, Drained
  <2>4. Holds /\ Fated
    BY ThreadKinds DEF Init, Holds, Fated, PostLabels, ShutdownLabels
  <2>5. Busy = {} /\ Counted = {} /\ {k \in Tasks : fate[k] = "threw"} = {}
    BY DEF Init, Busy, Counted
  <2>6. /\ Cardinality(Busy) = 0 /\ Cardinality(Counted) = 0
        /\ Cardinality({k \in Tasks : fate[k] = "threw"}) = 0
    BY <2>5, FS_EmptySet
  <2>7. Accounting
    BY <2>6 DEF Init, Accounting
  <2> QED BY <2>1, <2>2, <2>3, <2>4, <2>7 DEF PoolInv
<1>2. PoolInv /\ [Next]_vars => PoolInv'
  BY TypeStep, HandlesStep, JoinsStep, DrainedStep, HoldsStep, FatedStep, AccountingStep
  DEF PoolInv
<1> QED BY <1>1, <1>2, PTL DEF Spec

(***************************************************************************)
(* The type invariant holds in every reachable state.                      *)
(***************************************************************************)
THEOREM TypeCorrect == Spec => []TypeOK
<1>1. PoolInv => TypeOK
  BY DEF PoolInv
<1> QED BY <1>1, PoolInvariant, PTL

(***************************************************************************)
(* The counters of the pool account for every task, whatever posts, undone *)
(* posts, workers and shutdowns interleave.                                *)
(***************************************************************************)
THEOREM TasksAccounted == Spec => []Accounting
<1>1. PoolInv => Accounting
  BY DEF PoolInv
<1> QED BY <1>1, PoolInvariant, PTL

(***************************************************************************)
(* A client whose shutdown() has returned finds the pool shut down: every  *)
(* worker but the one that took the handles has left its loop, and no task *)
(* is left unless that worker is alone.  A constructor that failed has     *)
(* joined every thread it started.                                         *)
(***************************************************************************)
THEOREM ShutdownDrains == Spec => []FinishedMeansDrained
<1>1. ASSUME PoolInv PROVE FinishedMeansDrained
  <2>1. returned # {} => shutdown_finished_
    BY <1>1 DEF PoolInv, Joins
  <2>2. shutdown_finished_ => tasksClosed /\ \A w \in Workers \ {joiner} : pc[w] = "exit"
    BY <1>1 DEF PoolInv, Joins
  <2>3. shutdown_finished_ /\ Workers # {joiner} => tasks = << >>
    <3> SUFFICES ASSUME shutdown_finished_, Workers # {joiner} PROVE tasks = << >>
      OBVIOUS
    <3>1. PICK w \in Workers : w # joiner
      BY ThreadKinds
    <3> QED BY <1>1, <2>2, <3>1 DEF PoolInv, Drained
  <2> QED BY <1>1, <2>1, <2>2, <2>3 DEF PoolInv, Handles, FinishedMeansDrained
<1> QED BY <1>1, PoolInvariant, PTL
=============================================================================

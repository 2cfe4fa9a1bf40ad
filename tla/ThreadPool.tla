----------------------------- MODULE ThreadPool -----------------------------
(***************************************************************************)
(* ThreadPool and its façade Executor (src/executor/thread_pool.cpp,       *)
(* include/robot_middleware/executor): a fixed set of workers fed by a     *)
(* closable unbounded queue, with "drain" shutdown.                        *)
(*                                                                         *)
(* The queue is used through its contract, established in ThreadSafeQueue: *)
(* try_push fails exactly when closed, wait_pop returns the oldest task,   *)
(* or nothing once the queue is closed and empty.  Each atomic access and  *)
(* each critical section of workers_mutex_ is one step.  A running task    *)
(* may itself call post, submit or shutdown on its own pool.               *)
(***************************************************************************)
EXTENDS Integers, Sequences, FiniteSets

CONSTANTS
    worker_count,   \* worker_count_
    Clients,        \* threads outside the pool
    MaxTasks        \* bound: tasks ever offered to the pool

ASSUME WorkerCountAssumption == worker_count \in Nat \ {0}
ASSUME MaxTasksAssumption == MaxTasks \in Nat
ASSUME ClientsAssumption == IsFiniteSet(Clients) /\ Clients \cap Int = {}

Workers == 1..worker_count
Threads == Workers \cup Clients
Tasks == 1..MaxTasks
NoTask == 0
NoThread == 0

VARIABLES
    phase,                  \* of the constructor
    workers_,               \* the thread handles the pool owns
    shutdown_in_progress_,
    shutdown_finished_,
    accepting,
    tasks,                  \* the queue of accepted tasks
    tasksClosed,
    submitted,
    completed,
    failed,
    pc,                     \* what each thread is about to do
    task,                   \* the task a worker runs
    arg,                    \* the task a thread is posting
    fate,                   \* what became of each task (and of its future)
    joiner,                 \* the thread that took the handles over
    joining,                \* the handles it has still to join
    returned                \* history: clients whose shutdown() returned

poolVars == <<workers_, shutdown_in_progress_, shutdown_finished_, joiner, joining>>
stateVars == <<accepting, tasks, tasksClosed, submitted, completed, failed>>
vars == <<phase, poolVars, stateVars, pc, task, arg, fate, returned>>

PostLabels == {"post_add", "post_push", "post_undo"}
ShutdownLabels == {"sd_close", "sd_lock", "sd_wait", "sd_join"}

Init ==
    /\ phase = "building"
    /\ workers_ = << >>
    /\ shutdown_in_progress_ = FALSE
    /\ shutdown_finished_ = FALSE
    /\ accepting = TRUE
    /\ tasks = << >>
    /\ tasksClosed = FALSE
    /\ submitted = 0 /\ completed = 0 /\ failed = 0
    /\ pc = [t \in Threads |-> IF t \in Workers THEN "new" ELSE "idle"]
    /\ task = [w \in Workers |-> NoTask]
    /\ arg = [t \in Threads |-> NoTask]
    /\ fate = [k \in Tasks |-> "unused"]
    /\ joiner = NoThread
    /\ joining = << >>
    /\ returned = {}

Goto(t, label) == pc' = [pc EXCEPT ![t] = label]

\* Where the caller of post or shutdown continues.
Resume(t) == IF t \in Workers THEN "run" ELSE "idle"

\* User code runs: a client between calls, or a worker inside a task.
CanCall(t) == phase = "ready" /\ pc[t] = Resume(t)

-----------------------------------------------------------------------------
(* Construction *)

SpawnWorker ==
    /\ phase = "building"
    /\ LET w == Len(workers_) + 1 IN
          /\ workers_' = Append(workers_, w)
          /\ Goto(w, "pop")
          /\ phase' = IF w = worker_count THEN "ready" ELSE "building"
    /\ UNCHANGED <<shutdown_in_progress_, shutdown_finished_, joiner, joining,
                   stateVars, task, arg, fate, returned>>

\* std::thread throws: close the queue and join the workers already started.
SpawnFails ==
    /\ phase = "building"
    /\ phase' = "unwinding"
    /\ accepting' = FALSE
    /\ tasksClosed' = TRUE
    /\ UNCHANGED <<poolVars, tasks, submitted, completed, failed,
                   pc, task, arg, fate, returned>>

UnwindJoin ==
    /\ phase = "unwinding"
    /\ \A i \in DOMAIN workers_ : pc[workers_[i]] = "exit"
    /\ phase' = "failed"
    /\ UNCHANGED <<poolVars, stateVars, pc, task, arg, fate, returned>>

\* The constructor has thrown: there is no pool.
NoPool == phase = "failed" /\ UNCHANGED vars

-----------------------------------------------------------------------------
(* The worker loop *)

\* Mutant: a worker leaves as soon as the queue is closed, tasks or not.
WorkerPop_no_drain(w) ==
    /\ pc[w] = "pop"
    /\ \/ /\ tasks # << >> /\ ~tasksClosed
          /\ task' = [task EXCEPT ![w] = Head(tasks)]
          /\ tasks' = Tail(tasks)
          /\ fate' = [fate EXCEPT ![Head(tasks)] = "running"]
          /\ Goto(w, "run")
       \/ /\ tasksClosed
          /\ Goto(w, "exit")
          /\ UNCHANGED <<task, tasks, fate>>
    /\ UNCHANGED <<phase, poolVars, accepting, tasksClosed, submitted, completed,
                   failed, arg, returned>>

WorkerPop(w) ==
    /\ pc[w] = "pop"
    /\ \/ /\ tasks # << >>
          /\ task' = [task EXCEPT ![w] = Head(tasks)]
          /\ tasks' = Tail(tasks)
          /\ fate' = [fate EXCEPT ![Head(tasks)] = "running"]
          /\ Goto(w, "run")
       \/ /\ tasks = << >> /\ tasksClosed
          /\ Goto(w, "exit")
          /\ UNCHANGED <<task, tasks, fate>>
    /\ UNCHANGED <<phase, poolVars, accepting, tasksClosed, submitted, completed,
                   failed, arg, returned>>

\* The task ends; an exception is caught at the worker boundary.
TaskEnds(w) ==
    /\ pc[w] = "run"
    /\ \E outcome \in {"ok", "threw"} :
          /\ fate' = [fate EXCEPT ![task[w]] = outcome]
          /\ failed' = IF outcome = "threw" THEN failed + 1 ELSE failed
    /\ Goto(w, "count")
    /\ UNCHANGED <<phase, poolVars, accepting, tasks, tasksClosed, submitted,
                   completed, task, arg, returned>>

WorkerCount(w) ==
    /\ pc[w] = "count"
    /\ completed' = completed + 1
    /\ task' = [task EXCEPT ![w] = NoTask]
    /\ Goto(w, "pop")
    /\ UNCHANGED <<phase, poolVars, accepting, tasks, tasksClosed, submitted,
                   failed, arg, fate, returned>>

-----------------------------------------------------------------------------
(* post and submit: accepting is read, submitted counted, and only then the *)
(* task is pushed.                                                          *)

PostCheck(t) ==
    /\ CanCall(t)
    /\ \E k \in Tasks :
          /\ fate[k] = "unused"
          /\ \A j \in 1..(k - 1) : fate[j] # "unused"
          /\ \/ /\ ~accepting
                /\ fate' = [fate EXCEPT ![k] = "refused"]
                /\ UNCHANGED <<pc, arg>>
             \/ /\ accepting
                /\ fate' = [fate EXCEPT ![k] = "offered"]
                /\ arg' = [arg EXCEPT ![t] = k]
                /\ Goto(t, "post_add")
    /\ UNCHANGED <<phase, poolVars, stateVars, task, returned>>

PostAdd(t) ==
    /\ pc[t] = "post_add"
    /\ submitted' = submitted + 1
    /\ Goto(t, "post_push")
    /\ UNCHANGED <<phase, poolVars, accepting, tasks, tasksClosed, completed,
                   failed, task, arg, fate, returned>>

\* try_push, which fails when close() came first, or throws (bad_alloc).
PostPush(t) ==
    /\ pc[t] = "post_push"
    /\ \/ /\ ~tasksClosed
          /\ tasks' = Append(tasks, arg[t])
          /\ fate' = [fate EXCEPT ![arg[t]] = "queued"]
          /\ arg' = [arg EXCEPT ![t] = NoTask]
          /\ Goto(t, Resume(t))
       \/ /\ Goto(t, "post_undo")
          /\ UNCHANGED <<tasks, fate, arg>>
    /\ UNCHANGED <<phase, poolVars, accepting, tasksClosed, submitted, completed,
                   failed, task, returned>>

PostUndo_forgotten(t) ==
    /\ pc[t] = "post_undo"
    /\ fate' = [fate EXCEPT ![arg[t]] = "refused"]
    /\ arg' = [arg EXCEPT ![t] = NoTask]
    /\ Goto(t, Resume(t))
    /\ UNCHANGED <<phase, poolVars, stateVars, task, returned>>

PostUndo(t) ==
    /\ pc[t] = "post_undo"
    /\ submitted' = submitted - 1
    /\ fate' = [fate EXCEPT ![arg[t]] = "refused"]
    /\ arg' = [arg EXCEPT ![t] = NoTask]
    /\ Goto(t, Resume(t))
    /\ UNCHANGED <<phase, poolVars, accepting, tasks, tasksClosed, completed,
                   failed, task, returned>>

-----------------------------------------------------------------------------
(* shutdown, which the destructor calls too *)

ShutdownStop(t) ==
    /\ CanCall(t)
    /\ accepting' = FALSE
    /\ Goto(t, "sd_close")
    /\ UNCHANGED <<phase, poolVars, tasks, tasksClosed, submitted, completed,
                   failed, task, arg, fate, returned>>

ShutdownClose(t) ==
    /\ pc[t] = "sd_close"
    /\ tasksClosed' = TRUE
    /\ Goto(t, "sd_lock")
    /\ UNCHANGED <<phase, poolVars, accepting, tasks, submitted, completed,
                   failed, task, arg, fate, returned>>

ShutdownReturn(t) ==
    /\ Goto(t, Resume(t))
    /\ returned' = returned \cup ({t} \cap Clients)

\* Mutant: a worker waits too.
ShutdownLock_worker_waits(t) ==
    /\ pc[t] = "sd_lock"
    /\ \/ /\ shutdown_finished_
          /\ ShutdownReturn(t)
          /\ UNCHANGED poolVars
       \/ /\ ~shutdown_finished_ /\ shutdown_in_progress_
          /\ Goto(t, "sd_wait")
          /\ UNCHANGED <<poolVars, returned>>
       \/ /\ ~shutdown_finished_ /\ ~shutdown_in_progress_
          /\ shutdown_in_progress_' = TRUE
          /\ joining' = workers_
          /\ workers_' = << >>
          /\ joiner' = t
          /\ Goto(t, "sd_join")
          /\ UNCHANGED <<shutdown_finished_, returned>>
    /\ UNCHANGED <<phase, stateVars, task, arg, fate>>

\* The first caller takes the handles; a later one waits for it, unless it is
\* a worker, which the first may be joining.
ShutdownLock(t) ==
    /\ pc[t] = "sd_lock"
    /\ \/ /\ shutdown_finished_ \/ (shutdown_in_progress_ /\ t \in Workers)
          /\ ShutdownReturn(t)
          /\ UNCHANGED poolVars
       \/ /\ ~shutdown_finished_ /\ shutdown_in_progress_ /\ t \notin Workers
          /\ Goto(t, "sd_wait")
          /\ UNCHANGED <<poolVars, returned>>
       \/ /\ ~shutdown_finished_ /\ ~shutdown_in_progress_
          /\ shutdown_in_progress_' = TRUE
          /\ joining' = workers_
          /\ workers_' = << >>
          /\ joiner' = t
          /\ Goto(t, "sd_join")
          /\ UNCHANGED <<shutdown_finished_, returned>>
    /\ UNCHANGED <<phase, stateVars, task, arg, fate>>

\* shutdown_complete_.wait: the flag is set under the same mutex.
ShutdownWait(t) ==
    /\ pc[t] = "sd_wait"
    /\ shutdown_finished_
    /\ ShutdownReturn(t)
    /\ UNCHANGED <<phase, poolVars, stateVars, task, arg, fate>>

\* Mutant: every handle is detached.
ShutdownJoin_detaches(t) ==
    /\ pc[t] = "sd_join"
    /\ joining # << >>
    /\ joining' = Tail(joining)
    /\ UNCHANGED <<phase, workers_, shutdown_in_progress_, shutdown_finished_,
                   joiner, stateVars, pc, task, arg, fate, returned>>

\* Join the next worker; a worker only detaches its own handle.
ShutdownJoin(t) ==
    /\ pc[t] = "sd_join"
    /\ joining # << >>
    /\ Head(joining) = t \/ pc[Head(joining)] = "exit"
    /\ joining' = Tail(joining)
    /\ UNCHANGED <<phase, workers_, shutdown_in_progress_, shutdown_finished_,
                   joiner, stateVars, pc, task, arg, fate, returned>>

ShutdownFinish(t) ==
    /\ pc[t] = "sd_join"
    /\ joining = << >>
    /\ shutdown_finished_' = TRUE
    /\ shutdown_in_progress_' = FALSE
    /\ ShutdownReturn(t)
    /\ UNCHANGED <<phase, workers_, joiner, joining, stateVars, task, arg, fate>>

-----------------------------------------------------------------------------
PostStep(t) == PostAdd(t) \/ PostPush(t) \/ PostUndo(t)
ShutdownStep(t) ==
    \/ ShutdownClose(t) \/ ShutdownLock(t) \/ ShutdownWait(t)
    \/ ShutdownJoin(t) \/ ShutdownFinish(t)
WorkerStep(w) == WorkerPop(w) \/ WorkerCount(w)

Next ==
    \/ SpawnWorker \/ SpawnFails \/ UnwindJoin \/ NoPool
    \/ \E w \in Workers : WorkerStep(w) \/ TaskEnds(w)
    \/ \E t \in Threads :
          \/ PostCheck(t) \/ PostStep(t)
          \/ ShutdownStop(t) \/ ShutdownStep(t)

Spec == Init /\ [][Next]_vars

(***************************************************************************)
(* Fairness: threads inside the pool's code keep running, and tasks end    *)
(* (strong fairness, because a task may call into the pool in between).    *)
(* Nothing forces anybody to call post or shutdown.                        *)
(***************************************************************************)
Fairness ==
    /\ \A t \in Threads : WF_vars(PostStep(t)) /\ WF_vars(ShutdownStep(t))
    /\ \A w \in Workers : WF_vars(WorkerStep(w)) /\ SF_vars(TaskEnds(w))

FairSpec == Spec /\ Fairness

-----------------------------------------------------------------------------
TypeOK ==
    /\ phase \in {"building", "unwinding", "ready", "failed"}
    /\ workers_ \in Seq(Workers) /\ joining \in Seq(Workers)
    /\ shutdown_in_progress_ \in BOOLEAN /\ shutdown_finished_ \in BOOLEAN
    /\ accepting \in BOOLEAN /\ tasksClosed \in BOOLEAN
    /\ tasks \in Seq(Tasks)
    /\ submitted \in Nat /\ completed \in Nat /\ failed \in Nat
    /\ pc \in [Threads -> PostLabels \cup ShutdownLabels \cup
                          {"new", "idle", "pop", "run", "count", "exit"}]
    /\ task \in [Workers -> Tasks \cup {NoTask}]
    /\ arg \in [Threads -> Tasks \cup {NoTask}]
    /\ fate \in [Tasks -> {"unused", "offered", "refused", "queued", "running",
                           "ok", "threw"}]
    /\ joiner \in Threads \cup {NoThread}
    /\ returned \subseteq Clients

Busy == {w \in Workers : task[w] # NoTask}
Counted == {t \in Threads : pc[t] \in {"post_push", "post_undo"}}

(***************************************************************************)
(* submitted accounts for every task that is finished, running, queued or  *)
(* on its way into the queue, whatever posts race with close(); so the     *)
(* completed tasks never outnumber the submitted ones, and failed counts   *)
(* exactly the tasks that threw.                                           *)
(***************************************************************************)
Accounting ==
    /\ submitted = completed + Cardinality(Busy) + Len(tasks) + Cardinality(Counted)
    /\ failed = Cardinality({k \in Tasks : fate[k] = "threw"})

(***************************************************************************)
(* A client's shutdown() returns only when the shutdown is finished, and   *)
(* then every worker has left its loop, except the one that called         *)
(* shutdown from a task if it is the one that took the handles; accepted   *)
(* tasks are left over only if that worker is alone.  A constructor that   *)
(* fails half-way leaves no thread behind either.                          *)
(***************************************************************************)
FinishedMeansDrained ==
    /\ returned # {} => shutdown_finished_
    /\ shutdown_finished_ =>
          /\ tasksClosed
          /\ \A w \in Workers \ {joiner} : pc[w] = "exit"
          /\ Workers # {joiner} => tasks = << >>
    /\ phase = "failed" => \A w \in Workers : pc[w] \in {"new", "exit"}

(***************************************************************************)
(* Drain semantics: a task whose post returned true, and so the future of  *)
(* a submit that did not throw, is run to its end whatever the shutdowns.  *)
(***************************************************************************)
AcceptedTasksRun ==
    \A k \in Tasks : fate[k] = "queued" ~> fate[k] \in {"ok", "threw"}

(***************************************************************************)
(* Every shutdown() returns: concurrent calls from clients and from tasks, *)
(* before, during and after each other, never wait for each other in a     *)
(* cycle.                                                                  *)
(***************************************************************************)
ShutdownReturns ==
    \A t \in Threads : pc[t] \in ShutdownLabels ~> pc[t] \notin ShutdownLabels
=============================================================================

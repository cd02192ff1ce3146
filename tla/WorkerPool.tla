----------------------------- MODULE WorkerPool -----------------------------
(***************************************************************************)
(* Tasks that run in a shared pool: PoolProvider and PoolTaskRunner        *)
(* (tasks/), and WorkerManager (workers/worker_manager.py) behind them.    *)
(*                                                                         *)
(* A task is started by the client's thread, when it is the first of its   *)
(* pipeline, or by the completion thread of the task ahead of it.  All of  *)
(* them call add_worker of the same manager, without a lock.               *)
(*                                                                         *)
(* add_worker puts a worker into the table and then gives WorkerContext an *)
(* argument that it does not take: it always raises there, and what is     *)
(* behind (start_worker, the completion threads of workers, the work on    *)
(* what is pending) is never reached.  stop_worker calls a method that     *)
(* there is not, before anything has changed.                              *)
(*                                                                         *)
(* FullLate and FullEarly are faults that the properties find.             *)
(***************************************************************************)
EXTENDS Integers, Sequences, FiniteSets, SequencesExt

CONSTANTS
    Asked,           \* the values of max_parallel that clients ask for
    DefaultParallel, \* PoolTaskRunner.max_parallel
    MaxPools,        \* bound: on calls of add_pool
    MaxTasks,        \* bound: on tasks that are hydrated
    MaxPending       \* bound: on the length of a queue of work

ASSUME WorkerPoolAssumption ==
    /\ Asked \subseteq Nat
    /\ DefaultParallel \in Nat \ {0}
    /\ MaxPools \in Nat /\ MaxTasks \in Nat /\ MaxPending \in Nat

VARIABLES
    limit,   \* limit[m]: max_count of the m-th manager; the last is the pool's
    workers, \* workers[m]: the tasks in its table of workers
    pending, \* pending[m]: its _pending
    runner,  \* runner[t]: the manager that hydration has given the t-th task
    later,   \* the tasks with a task ahead of them in their pipeline
    running, \* the tasks at the head of a pipeline that is RUNNING
    pc,      \* pc[c]: where the thread c stands
    hand     \* the task that the client is starting

managers == <<limit, workers, pending>>
tasks == <<runner, later>>
vars == <<managers, tasks, running, pc, hand>>

\* The thread in which the task t is started when one is ahead of it is called t.
Client == 0
Threads == Client..MaxTasks

Managers == DOMAIN limit
Tasks == DOMAIN runner

TypeOK ==
    /\ limit \in Seq(Nat)
    /\ workers \in [Managers -> SUBSET Tasks]
    /\ pending \in [Managers -> Seq(Tasks)]
    /\ runner \in Seq(Managers) /\ Len(runner) <= MaxTasks
    /\ later \subseteq Tasks /\ running \subseteq Tasks
    /\ pc \in [Threads -> {"idle", "insert", "ended"}]
    /\ hand \in 0..Len(runner)

Init ==
    /\ limit = <<>> /\ workers = <<>> /\ pending = <<>>
    /\ runner = <<>> /\ later = {} /\ running = {}
    /\ pc = [c \in Threads |-> "idle"]
    /\ hand = 0

\* add_pool: the runner's own default takes the place of what was asked for.
\* Tasks that were hydrated before keep the manager they have.
AddPool(asked) ==
    /\ pc[Client] = "idle" /\ Len(limit) < MaxPools
    /\ limit' = Append(limit, DefaultParallel)
    /\ workers' = Append(workers, {})
    /\ pending' = Append(pending, <<>>)
    /\ UNCHANGED <<tasks, running, pc, hand>>

\* define_runner, in the hydration of a plan; a pool that nobody has added is a
\* KeyError.
Hydrate(isLater) ==
    /\ pc[Client] = "idle" /\ Len(runner) < MaxTasks
    /\ limit # <<>>
    /\ runner' = Append(runner, Len(limit))
    /\ later' = IF isLater THEN later \cup {Len(runner) + 1} ELSE later
    /\ UNCHANGED <<managers, running, pc, hand>>

-----------------------------------------------------------------------------
FullLate(m) == Cardinality(workers[m]) > limit[m]
FullEarly(m) == Cardinality(workers[m]) + 1 >= limit[m]

Full(m) == Cardinality(workers[m]) >= limit[m]

\* add_worker, as far as it can be interrupted: the task is put off, or its
\* worker is being made.
AddWorker(c, t, whenDone) ==
    LET m == runner[t]
    IN  IF Full(m)
        THEN /\ Len(pending[m]) < MaxPending
             /\ pending' = [pending EXCEPT ![m] = Append(@, t)]
             /\ pc' = [pc EXCEPT ![c] = whenDone]
        ELSE /\ pc' = [pc EXCEPT ![c] = "insert"]
             /\ UNCHANGED pending

\* start_pipeline.  When add_worker returns the pipeline becomes RUNNING, or the
\* transition raises because it was RUNNING already.
Start(t) ==
    /\ pc[Client] = "idle" /\ t \notin later
    /\ hand' = t
    /\ AddWorker(Client, t, "idle")
    /\ running' = IF Full(runner[t]) THEN running \cup {t} ELSE running
    /\ UNCHANGED <<limit, workers, tasks>>

\* _on_task_success of the task ahead, in the thread that waited for it.
NextTask(t) ==
    /\ t \in later /\ pc[t] = "idle"
    /\ AddWorker(t, t, "ended")
    /\ UNCHANGED <<limit, workers, tasks, running, hand>>

Holds(c) == IF c = Client THEN hand ELSE c

\* reset_worker_instance: the worker is in the table, then WorkerContext raises.
\* The client may go on and start what it likes, a completion thread reports the
\* exception and ends.
InsertWorker(c) ==
    /\ pc[c] = "insert"
    /\ workers' = [workers EXCEPT ![runner[Holds(c)]] = @ \cup {Holds(c)}]
    /\ pc' = [pc EXCEPT ![c] = IF c = Client THEN "idle" ELSE "ended"]
    /\ UNCHANGED <<limit, pending, tasks, running, hand>>

Next ==
    \/ \E asked \in Asked : AddPool(asked)
    \/ \E isLater \in BOOLEAN : Hydrate(isLater)
    \/ \E t \in Tasks : Start(t) \/ NextTask(t)
    \/ \E c \in Threads : InsertWorker(c)

Spec == Init /\ [][Next]_vars

-----------------------------------------------------------------------------
\* "A WorkerManager instance controls concurrency across any task assigned to
\* it": the table may grow beyond the limit, since two threads may both find room
\* before either has taken it, but only by one for each task of the manager that
\* is started in a thread of its own.
PoolBound ==
    \A m \in Managers :
        Cardinality(workers[m]) <= limit[m] + Cardinality({t \in later : runner[t] = m})

\* A pipeline that begins with a pool task is RUNNING only when that task has
\* been put off, and a task is put off only when the table is full: of workers
\* that were never started, so that the task never starts either.
SilentOnlyWhenFull ==
    /\ \A t \in running : Contains(pending[runner[t]], t)
    /\ \A m \in Managers : pending[m] # <<>> => Cardinality(workers[m]) >= limit[m]

=============================================================================

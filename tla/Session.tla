------------------------------ MODULE Session ------------------------------
(***************************************************************************)
(* SessionControl before anything runs: the objects of a session and how   *)
(* reset() replaces them, execute() and the hydration of a plan's          *)
(* pipelines, start() and the loop over what has been hydrated; and the    *)
(* SessionGateway.  What a pipeline does once it is started is the matter  *)
(* of Orchestrator.                                                        *)
(*                                                                         *)
(* Callers are the client and the threads, or sinks, in which the client's *)
(* callbacks call SessionControl again.  A Task's name is a TaskId that    *)
(* register() extends in place and that every PipelineTask made of the     *)
(* Task shares: here it is the number of extensions.                       *)
(*                                                                         *)
(* HydratedEarly, NeverResized and AddContextOnce are faults that the      *)
(* properties find.                                                        *)
(***************************************************************************)
EXTENDS Naturals, SequencesExt

CONSTANTS
    Callers,   \* the threads that call SessionControl
    Ids,       \* the ids of pipelines
    Tasks,     \* the Task objects of the plans
    Pools,     \* the names of pools
    TasksOf,   \* TasksOf[p]: the tasks of pipeline p
    Plans,     \* the plans: sequences of ids
    Backed,    \* the tasks with a backend
    PoolOf,    \* PoolOf[t]: the pool of t's PoolStrategy, for the tasks with one
    Raises,    \* what may raise: "register", "make_runner", "start"
    MaxCalls   \* bound: on the calls

ASSUME SessionAssumption ==
    /\ TasksOf \in [Ids -> Seq(Tasks)] /\ Plans \subseteq Seq(Ids) \ {<<>>}
    /\ Backed \subseteq Tasks
    /\ DOMAIN PoolOf \subseteq Tasks /\ \A t \in DOMAIN PoolOf : PoolOf[t] \in Pools
    /\ Raises \subseteq {"register", "make_runner", "start"}
    /\ MaxCalls \in Nat

VARIABLES
    pools,     \* pools[n]: the pools of PoolProvider n
    orchs,     \* orchs[n]: PipelineOrchestrator n, with its provider and pipelines
    sessions,  \* sessions[n]: Session n, with its state and its orchestrator
    ref,       \* which of each the SessionControl refers to, and its plan, whose
               \*   policy the bus has
    name,      \* name[t]: how often t's name has been extended
    context,   \* context[t]: the name that the runner in the registry writes to
    failed,    \* history: the tasks whose last hydration raised
    at,        \* at[c]: where the call of c stands
    job,       \* job[c]: what it works on
    reply,     \* reply[c]: how its last call ended
    calls,     \* how many calls there have been
    crossed    \* history: a reset met another call

control == <<pools, orchs, sessions, ref>>
tasks == <<name, context, failed>>
vars == <<control, tasks, at, job, reply, calls, crossed>>

Runtime == [id : Ids, session : Nat, tasks : Seq(Tasks), started : BOOLEAN, again : BOOLEAN]
Nobody == [orch |-> 1, session |-> 1, plan |-> <<>>, rest |-> <<>>, tasks |-> <<>>, n |-> 0]
Resetting == {"orchestrator", "session"}
Places == {"idle", "register", "connect", "store", "finish", "loop", "start"} \cup Resetting

TypeOK ==
    /\ pools \in Seq(SUBSET Pools)
    /\ orchs \in Seq([provider : Nat, pipelines : Seq(Runtime)])
    /\ sessions \in Seq([state : {"PENDING", "RUNNING"}, orch : Nat, plan : Seq(Ids)])
    /\ ref \in [provider : 1..Len(pools), orch : 1..Len(orchs), session : 1..Len(sessions),
               plan : Seq(Ids)]
    /\ name \in [Tasks -> Nat] /\ context \in [Tasks -> Nat]
    /\ failed \subseteq Tasks
    /\ at \in [Callers -> Places]
    /\ job \in [Callers -> [orch : 1..Len(orchs), session : 1..Len(sessions), plan : Seq(Ids),
                            rest : Seq(Ids), tasks : Seq(Tasks), n : Nat]]
    /\ reply \in [Callers -> {"none", "executed", "started", "done", "raised",
                              "AttributeError", "TypeError"}]
    /\ calls \in 0..MaxCalls /\ crossed \in BOOLEAN

Empty(provider) == [provider |-> provider, pipelines |-> <<>>]
Pending(orch) == [state |-> "PENDING", orch |-> orch, plan |-> <<>>]

\* SessionControl(): one object of each kind.
Init ==
    /\ pools = << {} >>
    /\ orchs = << Empty(1) >>
    /\ sessions = << Pending(1) >>
    /\ ref = [provider |-> 1, orch |-> 1, session |-> 1, plan |-> <<>>]
    /\ name = [t \in Tasks |-> 0] /\ context = [t \in Tasks |-> 0] /\ failed = {}
    /\ at = [c \in Callers |-> "idle"]
    /\ job = [c \in Callers |-> Nobody]
    /\ reply = [c \in Callers |-> "none"]
    /\ calls = 0 /\ crossed = FALSE

-----------------------------------------------------------------------------
Goto(c, place) ==
    /\ at' = [at EXCEPT ![c] = place]
    /\ crossed' = (crossed \/ \E d, e \in Callers :
                      d # e /\ at'[d] \in Resetting /\ at'[e] # "idle")

Begin(c, place) ==
    /\ at[c] = "idle" /\ calls < MaxCalls
    /\ calls' = calls + 1
    /\ Goto(c, place)

End(c, how) ==
    /\ Goto(c, "idle")
    /\ reply' = [reply EXCEPT ![c] = how]
    /\ job' = [job EXCEPT ![c] = Nobody]
    /\ UNCHANGED calls

\* A call that is over in one step.
Answer(c, how) ==
    /\ Begin(c, "idle")
    /\ reply' = [reply EXCEPT ![c] = how]
    /\ UNCHANGED job

-----------------------------------------------------------------------------
(***************************************************************************)
(* execute, and the orchestrator's add_pipeline.                           *)
(***************************************************************************)
AddPool(c, pool) ==
    /\ pools' = [pools EXCEPT ![ref.provider] = @ \cup {pool}]
    /\ Answer(c, "done")
    /\ UNCHANGED <<orchs, sessions, ref, tasks>>

Hydrate(c, plan, rest) ==
    /\ Begin(c, IF rest = <<>> THEN "finish" ELSE "register")
    /\ job' = [job EXCEPT ![c] = [orch |-> ref.orch, session |-> ref.session, plan |-> plan,
                                  rest |-> rest, tasks |-> <<>>, n |-> 0]]
    /\ UNCHANGED <<pools, orchs, sessions, tasks, reply>>

\* The policy of the bus and _plan are set first, and stay when the plan fails.
Execute(c, plan) == Hydrate(c, plan, plan) /\ ref' = [ref EXCEPT !.plan = plan]
AddPipeline(c, id) == Hydrate(c, <<>>, <<id>>) /\ UNCHANGED ref

TaskNow(c) == TasksOf[Head(job[c].rest)][Len(job[c].tasks) + 1]

HydratedEarly(c) == Len(job[c].tasks) + 1 >= Len(TasksOf[Head(job[c].rest)])
Hydrated(c) == Len(job[c].tasks) = Len(TasksOf[Head(job[c].rest)])

\* In place: whoever holds the TaskId sees the longer name.
Increment(t) == name' = [name EXCEPT ![t] = @ + 1]

\* log_store.register: it extends the task's name first, and then may raise.
Register(c) ==
    /\ at[c] = "register" /\ ~Hydrated(c)
    /\ Increment(TaskNow(c))
    /\ \/ /\ Goto(c, "connect")
          /\ UNCHANGED <<failed, job, reply, calls>>
       \/ /\ "register" \in Raises
          /\ End(c, "raised")
          /\ failed' = failed \cup {TaskNow(c)}
    /\ UNCHANGED <<control, context>>

AddContextOnce(t) == context' = [context EXCEPT ![t] = IF @ = 0 THEN name[t] ELSE @]

\* A runner, with a thread and a file named after the task, for each hydration;
\* the registry keeps the last one.
AddContext(t) == context' = [context EXCEPT ![t] = name[t]]

\* add_task refuses the name of a task that the pipeline has already: that of the
\* same Task, whatever its name is now.
NewHere(c, t) == t \notin ToSet(job[c].tasks)

\* Only a PoolStrategy looks for something that may not be there.
HasRunner(c, t) == t \in DOMAIN PoolOf => PoolOf[t] \in pools[orchs[job[c].orch].provider]

\* _handle_task_persistence, add_task and define_runner.  The last two may raise,
\* behind the runner of the backend; the pipeline is dropped with its tasks.
Connect(c) ==
    LET t == TaskNow(c)
    IN  /\ at[c] = "connect"
        /\ \/ /\ t \in Backed /\ "make_runner" \in Raises
              /\ End(c, "raised")
              /\ failed' = failed \cup {t}
              /\ UNCHANGED context
           \/ /\ IF t \in Backed THEN AddContext(t) ELSE UNCHANGED context
              /\ IF NewHere(c, t) /\ HasRunner(c, t)
                 THEN /\ Goto(c, "register")
                      /\ job' = [job EXCEPT ![c].tasks = Append(@, t)]
                      /\ failed' = failed \ {t}
                      /\ UNCHANGED <<reply, calls>>
                 ELSE /\ End(c, "raised")
                      /\ failed' = failed \cup {t}
        /\ UNCHANGED <<control, name>>

\* A dict: an id that is there already keeps its place and gets the new value.
Stored(pipelines, p) ==
    LET same == {i \in DOMAIN pipelines : pipelines[i].id = p.id}
    IN  IF same = {} THEN Append(pipelines, p)
        ELSE [i \in DOMAIN pipelines |-> IF i \in same THEN [p EXCEPT !.again = TRUE]
                                         ELSE pipelines[i]]

Store(c) ==
    LET p == [id |-> Head(job[c].rest), session |-> job[c].session, tasks |-> job[c].tasks,
              started |-> FALSE, again |-> FALSE]
    IN  /\ at[c] = "register" /\ Hydrated(c)
        /\ orchs' = [orchs EXCEPT ![job[c].orch].pipelines = Stored(@, p)]
        /\ job' = [job EXCEPT ![c].rest = Tail(@), ![c].tasks = <<>>]
        /\ Goto(c, IF Len(job[c].rest) = 1 THEN "finish" ELSE "register")
        /\ UNCHANGED <<pools, sessions, ref, tasks, reply, calls>>

\* The transition of the session that is there now to RUNNING.
MayRun == sessions[ref.session].state = "PENDING"

\* add_pipeline leaves the session alone.
Finish(c) ==
    /\ at[c] = "finish"
    /\ \/ /\ job[c].plan = <<>>
          /\ End(c, "done")
          /\ UNCHANGED sessions
       \/ /\ job[c].plan # <<>> /\ MayRun
          /\ sessions' = [sessions EXCEPT ![ref.session].state = "RUNNING",
                                          ![ref.session].plan = job[c].plan]
          /\ End(c, "executed")
       \/ /\ job[c].plan # <<>> /\ ~MayRun
          /\ End(c, "raised")
          /\ UNCHANGED sessions
    /\ UNCHANGED <<pools, orchs, ref, tasks>>

-----------------------------------------------------------------------------
(***************************************************************************)
(* start, and start_all_pipelines of the orchestrator, which a client also *)
(* calls itself, as start() raises behind execute().                       *)
(***************************************************************************)
Start(c) ==
    \/ /\ MayRun
       /\ sessions' = [sessions EXCEPT ![ref.session].state = "RUNNING"]
       /\ Begin(c, "loop")
       /\ UNCHANGED <<pools, orchs, ref, tasks, job, reply>>
    \/ /\ ~MayRun
       /\ Answer(c, "raised")
       /\ UNCHANGED <<control, tasks>>

StartAll(c) ==
    /\ Begin(c, "loop")
    /\ UNCHANGED <<control, tasks, job, reply>>

\* The loop over self.pipelines.values(): n is the size of the dict then, and
\* rest what is still to come of it.
Loop(c) ==
    LET pipelines == orchs[ref.orch].pipelines
    IN  /\ at[c] = "loop"
        /\ job' = [job EXCEPT ![c].orch = ref.orch, ![c].n = Len(pipelines),
                              ![c].rest = [i \in DOMAIN pipelines |-> pipelines[i].id]]
        /\ Goto(c, "start")
        /\ UNCHANGED <<control, tasks, reply, calls>>

NeverResized(c) == FALSE

\* RuntimeError: dictionary changed size during iteration.
Resized(c) == Len(orchs[job[c].orch].pipelines) # job[c].n

\* start_pipeline looks its pipeline up by the id.  The transition to RUNNING
\* of one that has been started raises, as does anything that Orchestrator has.
StartNext(c) ==
    /\ at[c] = "start" /\ ~Resized(c) /\ job[c].rest # <<>>
    /\ \E i \in DOMAIN orchs[job[c].orch].pipelines :
        LET p == orchs[job[c].orch].pipelines[i]
        IN  /\ p.id = Head(job[c].rest)
            /\ orchs' = [orchs EXCEPT ![job[c].orch].pipelines[i].started = TRUE]
            /\ \/ /\ ~p.started
                  /\ job' = [job EXCEPT ![c].rest = Tail(@)]
                  /\ UNCHANGED <<at, crossed, reply, calls>>
               \/ /\ p.started \/ "start" \in Raises
                  /\ End(c, "raised")
    /\ UNCHANGED <<pools, sessions, ref, tasks>>

LoopEnds(c) ==
    /\ at[c] = "start"
    /\ \/ Resized(c) /\ End(c, "raised")
       \/ ~Resized(c) /\ job[c].rest = <<>> /\ End(c, "started")
    /\ UNCHANGED <<control, tasks>>

-----------------------------------------------------------------------------
(***************************************************************************)
(* reset: three assignments.  The bus, the registry, the log store and the *)
(* plan stay.                                                              *)
(***************************************************************************)
ResetProvider(c) ==
    /\ Begin(c, "orchestrator")
    /\ pools' = Append(pools, {})
    /\ ref' = [ref EXCEPT !.provider = Len(pools')]
    /\ UNCHANGED <<orchs, sessions, tasks, job, reply>>

ResetOrchestrator(c) ==
    /\ at[c] = "orchestrator"
    /\ orchs' = Append(orchs, Empty(ref.provider))
    /\ ref' = [ref EXCEPT !.orch = Len(orchs')]
    /\ Goto(c, "session")
    /\ UNCHANGED <<pools, sessions, tasks, job, reply, calls>>

ResetSession(c) ==
    /\ at[c] = "session"
    /\ sessions' = Append(sessions, Pending(ref.orch))
    /\ ref' = [ref EXCEPT !.session = Len(sessions')]
    /\ End(c, "done")
    /\ UNCHANGED <<pools, orchs, tasks>>

-----------------------------------------------------------------------------
(***************************************************************************)
(* Calls that change nothing.                                              *)
(***************************************************************************)

\* The snapshot of a pipeline asks its tasks for theirs, which read last_error:
\* no task has one.
Readable(p) == p.tasks = <<>>

Snapshot(c) ==
    LET pipelines == ToSet(orchs[sessions[ref.session].orch].pipelines)
    IN  /\ Answer(c, IF \A p \in pipelines : Readable(p) THEN "done" ELSE "AttributeError")
        /\ UNCHANGED <<control, tasks>>

\* parse_plan hands _parse_pools payload["pools"], of which that asks the key
\* "pools" again: a list, which is the default, has no get.
ParsePools(shape) == IF shape = "dict" THEN "done" ELSE "AttributeError"

\* The argument is overwritten by an empty list: whatever the payload has, the
\* plan has no pipelines, and no reference to a pool is looked at.
ParsePipelines(given) == <<>>

ParsePlan(shape, given) ==
    [reply |-> ParsePools(shape), plan |-> ParsePipelines(given)]

\* SessionManager.create calls SessionControl without on_event.
Create == "TypeError"

Submit(c, shape, given) ==
    LET parsed == ParsePlan(shape, given)
    IN  /\ Answer(c, IF parsed.reply # "done" THEN parsed.reply ELSE Create)
        /\ UNCHANGED <<control, tasks>>

-----------------------------------------------------------------------------
Next ==
    \E c \in Callers :
        \/ \E pool \in Pools : AddPool(c, pool)
        \/ \E plan \in Plans : Execute(c, plan) \/ \E s \in {"dict", "list"} : Submit(c, s, plan)
        \/ \E id \in Ids : AddPipeline(c, id)
        \/ Register(c) \/ Connect(c) \/ Store(c) \/ Finish(c)
        \/ Start(c) \/ StartAll(c) \/ Loop(c) \/ StartNext(c) \/ LoopEnds(c)
        \/ ResetProvider(c) \/ ResetOrchestrator(c) \/ ResetSession(c)
        \/ Snapshot(c)

Spec == Init /\ [][Next]_vars

-----------------------------------------------------------------------------
\* A pipeline that commands can reach has all its tasks, although other threads
\* start pipelines, and hydrate them anew, while it is being made, and although
\* any of its tasks may raise.
PipelinesWhole ==
    \A n \in DOMAIN orchs : \A p \in ToSet(orchs[n].pipelines) : p.tasks = TasksOf[p.id]

\* Pipelines are whole; and unless a reset met another call, each belongs to a
\* session over its orchestrator, and a session that execute() moved to RUNNING
\* has all the pipelines of its plan, although a plan that fails half way leaves
\* the ones before.
SessionTellsPlan ==
    /\ PipelinesWhole
    /\ ~crossed =>
        /\ \A n \in DOMAIN orchs : \A p \in ToSet(orchs[n].pipelines) :
            sessions[p.session].orch = n
        /\ \A n \in DOMAIN sessions :
            ToSet(sessions[n].plan)
                \subseteq {p.id : p \in ToSet(orchs[sessions[n].orch].pipelines)}

\* When the loop of start returns, it has started every pipeline that is there,
\* but for those that another thread hydrated anew under the same id.
StartReachesAll ==
    [][\A c \in Callers : at[c] = "start" /\ at'[c] = "idle" /\ reply'[c] = "started" =>
        \A p \in ToSet(orchs[job[c].orch].pipelines) : p.started \/ p.again]_vars

\* The registry's runner of a task writes to the file of the name that the task
\* has now, in however many sessions it has been hydrated, unless the last
\* hydration raised or is under way.
RegistryFollowsName ==
    \A t \in Backed \ failed :
        (\A c \in Callers : at[c] = "connect" => TaskNow(c) # t) => context[t] = name[t]

=============================================================================

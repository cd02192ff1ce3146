---------------------------- MODULE Orchestrator ----------------------------
(***************************************************************************)
(* A session whose pipelines run their tasks as subprocesses: the client's *)
(* thread (SessionControl, PipelineOrchestrator), one SubProcessManager    *)
(* per task with its completion thread, and the processes themselves.      *)
(*                                                                         *)
(* Every step below is what one thread does between two points where       *)
(* another thread can observe it.  A method called on a manager by two     *)
(* different threads (stop_worker) is split at its checks.                 *)
(*                                                                         *)
(* IsLastButOne, ExitedAnyhow, StillAdding, NeverBlocked, VerdictFirst,    *)
(* VerdictForgotten, RestForgotten, FinallyAgain and CleanupAgain are      *)
(* faults: the properties below find each of them.                         *)
(***************************************************************************)
EXTENDS Lifecycle, Integers

CONSTANTS
    NPipelines,     \* pipelines, numbered in the insertion order of the dict
    NTasks,         \* NTasks[p]: how many tasks pipeline p declares
    PairOf,         \* PairOf[t]: the (_done, _init) events of t's manager
    Backed,         \* the tasks declared with a persist backend
    Commands,       \* the client's commands
    Raises,         \* the external calls that may raise
    MaxCancels      \* bound: stop_task is called while on_cancel ran less often

Pipelines == 1..NPipelines
Tasks == UNION {{p} \X (1..NTasks[p]) : p \in Pipelines}
Pairs == {PairOf[t] : t \in Tasks}

AllCommands == {"execute", "start", "start_pipeline", "stop", "stop_pipeline", "stop_task"}
External == {"Popen", "on_event", "on_cancel", "on_finally"}

ASSUME OrchestratorAssumption ==
    /\ NPipelines \in Nat \ {0}
    /\ NTasks \in [Pipelines -> Nat]
    /\ PairOf = [t \in Tasks |-> PairOf[t]]
    /\ Backed \subseteq Tasks
    /\ Commands \subseteq AllCommands
    /\ Raises \subseteq External
    /\ MaxCancels \in Nat \ {0}

VARIABLES
    session,    \* session.cycle.state
    pcycle,     \* pcycle[p]: pipeline.cycle.state
    tcycle,     \* tcycle[t]: task.cycle.state
    proc,       \* proc[t]: manager._process, and its returncode once it exited
    attached,   \* the managers on which add_worker has set on_cancel
    done,       \* the pairs whose _done is set
    init,       \* the pairs whose _init is set
    adder,      \* adder[t]: where the call of add_worker for t stands
    comp,       \* comp[t]: where the completion thread of t stands
    main,       \* where the client's thread stands
    target,     \* the pipeline it is starting
    all,        \* whether it goes on with the pipelines after target
    stopped,    \* the task stop_task is being called on, if any
    refused,    \* the commands that have raised without changing anything
    cancels,    \* cancels[t]: how often the client's on_cancel has been called
    finals      \* finals[t]: how often the client's on_finally has been called

managers == <<attached, done, init>>
cycles == <<session, pcycle, tcycle>>
client == <<main, target, all, stopped, refused>>
calls == <<cancels, finals>>
vars == <<cycles, proc, managers, adder, comp, client, calls>>

AdderAt == {"off", "called", "attached", "spawned", "running"}
CompAt == {"off", "wait", "check", "cancel", "set", "finally", "task",
           "pipeline", "next", "rest", "report", "close", "ended"}
MainAt == {"idle", "next", "adding", "run", "check", "cancel", "set"}

TypeOK ==
    /\ session \in Statuses
    /\ pcycle \in [Pipelines -> Statuses]
    /\ tcycle \in [Tasks -> Statuses]
    /\ proc \in [Tasks -> {"none", "alive", "terminated", "ok", "failed"}]
    /\ attached \subseteq Tasks
    /\ done \subseteq Pairs
    /\ init \subseteq Pairs
    /\ adder \in [Tasks -> AdderAt]
    /\ comp \in [Tasks -> CompAt]
    /\ main \in MainAt
    /\ target \in Pipelines
    /\ all \in BOOLEAN
    /\ stopped \in Tasks \cup {<<>>}
    /\ main \in {"check", "cancel", "set"} => stopped \in Tasks
    /\ refused \subseteq Commands
    /\ cancels \in [Tasks -> Nat]
    /\ finals \in [Tasks -> Nat]

\* The session after its pipelines have been hydrated and before start().
Init ==
    /\ session = "pending"
    /\ pcycle = [p \in Pipelines |-> "pending"]
    /\ tcycle = [t \in Tasks |-> "pending"]
    /\ proc = [t \in Tasks |-> "none"]
    /\ attached = {} /\ done = {} /\ init = {}
    /\ adder = [t \in Tasks |-> "off"]
    /\ comp = [t \in Tasks |-> "off"]
    /\ main = "idle"
    /\ target = 1
    /\ all = FALSE
    /\ stopped = <<>>
    /\ refused = {}
    /\ cancels = [t \in Tasks |-> 0]
    /\ finals = [t \in Tasks |-> 0]

-----------------------------------------------------------------------------
(***************************************************************************)
(* External calls and the call stack.                                      *)
(***************************************************************************)

\* The outcomes of an external call: it raises or it does not.
Outcomes(call) == IF call \in Raises THEN BOOLEAN ELSE {FALSE}

Prev(t) == <<t[1], t[2] - 1>>
Succ(t) == <<t[1], t[2] + 1>>

IsLastButOne(t) == t[2] + 1 >= NTasks[t[1]]

IsLast(t) == t[2] = NTasks[t[1]]

ExitedAnyhow(t) == proc[t] \in {"ok", "failed"}

\* _completion_loop decides between the two callbacks by the return code.
Succeeded(t) == proc[t] = "ok"

StillAdding(t, raised) ==
    /\ adder' = [adder EXCEPT ![t] = "off"]
    /\ IF t[2] = 1
       THEN /\ main' = IF raised THEN "adding" ELSE "run"
            /\ UNCHANGED comp
       ELSE /\ comp' = [comp EXCEPT ![Prev(t)] = "close"]
            /\ UNCHANGED main

\* add_worker for t returns to _next_task, or an exception leaves both.  The
\* first task of a pipeline is run by the client's thread, in start_pipeline,
\* and every other one by the completion thread of the task before it.
AddReturns(t, raised) ==
    /\ adder' = [adder EXCEPT ![t] = "off"]
    /\ IF t[2] = 1
       THEN /\ main' = IF raised THEN "idle" ELSE "run"
            /\ UNCHANGED comp
       ELSE /\ comp' = [comp EXCEPT ![Prev(t)] = IF raised THEN "report" ELSE "close"]
            /\ UNCHANGED main

-----------------------------------------------------------------------------
(***************************************************************************)
(* add_worker and _start of SubProcessManager.                             *)
(***************************************************************************)

NeverBlocked(t) == FALSE

\* add_worker is one-shot: it tests both events of its manager.
Blocked(t) == PairOf[t] \in done \cup init

\* A manager whose events are set returns at once: no process, no error.
AddCheck(t) ==
    /\ adder[t] = "called"
    /\ IF Blocked(t)
       THEN /\ AddReturns(t, FALSE)
            /\ UNCHANGED attached
       ELSE /\ adder' = [adder EXCEPT ![t] = "attached"]
            /\ attached' = attached \cup {t}
            /\ UNCHANGED <<main, comp>>
    /\ UNCHANGED <<cycles, proc, done, init, target, all, stopped, refused, calls>>

Spawn(t) ==
    /\ adder[t] = "attached"
    /\ \E raised \in Outcomes("Popen") :
         IF raised
         THEN /\ AddReturns(t, TRUE)
              /\ UNCHANGED proc
         ELSE /\ proc' = [proc EXCEPT ![t] = "alive"]
              /\ adder' = [adder EXCEPT ![t] = "spawned"]
              /\ UNCHANGED <<main, comp>>
    /\ UNCHANGED <<cycles, managers, target, all, stopped, refused, calls>>

\* on_start, then completion_thread.start(): an exception of on_start leaves a
\* process that no thread waits for.
OnTaskStart(t) ==
    /\ adder[t] = "spawned"
    /\ IF Legal(tcycle[t], "running")
       THEN /\ tcycle' = [tcycle EXCEPT ![t] = "running"]
            /\ \E raised \in Outcomes("on_event") :
                 IF raised
                 THEN AddReturns(t, TRUE)
                 ELSE /\ comp' = [comp EXCEPT ![t] = "wait"]
                      /\ adder' = [adder EXCEPT ![t] = "running"]
                      /\ UNCHANGED main
       ELSE /\ AddReturns(t, TRUE)
            /\ UNCHANGED tcycle
    /\ UNCHANGED <<session, pcycle, proc, managers, target, all, stopped, refused, calls>>

SetInit(t) ==
    /\ adder[t] = "running"
    /\ init' = init \cup {PairOf[t]}
    /\ AddReturns(t, FALSE)
    /\ UNCHANGED <<cycles, proc, attached, done, target, all, stopped, refused, calls>>

\* The process ends by itself, or on the signal it was sent: a program that
\* handles the signal may still return 0.
Exit(t) ==
    /\ proc[t] \in {"alive", "terminated"}
    /\ \E rc \in {"ok", "failed"} : proc' = [proc EXCEPT ![t] = rc]
    /\ UNCHANGED <<cycles, managers, adder, comp, client, calls>>

-----------------------------------------------------------------------------
(***************************************************************************)
(* The completion thread of t: _completion_loop, and in it the callbacks   *)
(* of the orchestrator.                                                    *)
(***************************************************************************)

VerdictFirst(at) ==
    CASE at = "set" -> "finally" [] at = "finally" -> "pipeline" [] OTHER -> "pipeline"

\* What the thread does after each step, in _on_task_success ...
AfterSuccess(at) ==
    CASE at = "set" -> "finally" [] at = "finally" -> "task" [] OTHER -> "pipeline"

VerdictForgotten(at) ==
    CASE at = "task" -> "finally" [] at = "finally" -> "check" [] OTHER -> "rest"
RestForgotten(at) ==
    CASE at = "task" -> "pipeline" [] at = "finally" -> "check" [] OTHER -> "close"
FinallyAgain(at) ==
    CASE at = "task" -> "pipeline" [] at = "finally" -> "check" [] OTHER -> "finally"
CleanupAgain(at) ==
    CASE at = "task" -> "pipeline" [] at = "finally" -> "check" [] OTHER -> "check"

\* ... and in _on_task_failure.
AfterFailure(at) ==
    CASE at = "task" -> "pipeline" [] at = "finally" -> "check" [] OTHER -> "rest"

Then(t, at) == IF Succeeded(t) THEN AfterSuccess(at) ELSE AfterFailure(at)

Continue(t, at, raised) ==
    comp' = [comp EXCEPT ![t] = IF raised THEN "report" ELSE Then(t, at)]

\* process.wait() returns; _execute_callback drops the callback if _done is set.
Completed(t) ==
    /\ comp[t] = "wait"
    /\ proc[t] \in {"ok", "failed"}
    /\ comp' = [comp EXCEPT ![t] = IF PairOf[t] \in done THEN "close"
                                   ELSE IF Succeeded(t) THEN "check" ELSE "task"]
    /\ UNCHANGED <<cycles, proc, managers, adder, client, calls>>

\* stop_worker as called by cleanup: terminate() has no effect on a process
\* that has exited, then on_cancel goes through _execute_callback.
CleanupCheck(t) ==
    /\ comp[t] = "check"
    /\ comp' = [comp EXCEPT ![t] = IF PairOf[t] \in done THEN "set" ELSE "cancel"]
    /\ UNCHANGED <<cycles, proc, managers, adder, client, calls>>

\* An exception of on_cancel is caught and reported as an ERROR event; the
\* client's sink may raise on that event, and then stop_worker itself raises.
CleanupCancel(t) ==
    /\ comp[t] = "cancel"
    /\ cancels' = [cancels EXCEPT ![t] = @ + 1]
    /\ \E raised \in Outcomes("on_cancel"), lost \in Outcomes("on_event") :
         comp' = [comp EXCEPT ![t] = IF raised /\ lost THEN "report" ELSE "set"]
    /\ UNCHANGED <<cycles, proc, managers, adder, client, finals>>

CleanupSet(t) ==
    /\ comp[t] = "set"
    /\ done' = done \cup {PairOf[t]}
    /\ Continue(t, "set", FALSE)
    /\ UNCHANGED <<cycles, proc, attached, init, adder, client, calls>>

OnFinally(t) ==
    /\ comp[t] = "finally"
    /\ finals' = [finals EXCEPT ![t] = @ + 1]
    /\ \E raised \in Outcomes("on_finally") : Continue(t, "finally", raised)
    /\ UNCHANGED <<cycles, proc, managers, adder, client, cancels>>

\* The task's own transition, to SUCCESS or to FAILED.  The cleanup handler of
\* a task with a backend always raises, before the state is assigned.
SettleTask(t) ==
    LET new == IF Succeeded(t) THEN "success" ELSE "failed"
    IN  /\ comp[t] = "task"
        /\ IF LegalAfterCleanup(tcycle[t], new, t \in Backed)
           THEN /\ tcycle' = [tcycle EXCEPT ![t] = new]
                /\ \E raised \in Outcomes("on_event") : Continue(t, "task", raised)
           ELSE /\ Continue(t, "task", TRUE)
                /\ UNCHANGED tcycle
        /\ UNCHANGED <<session, pcycle, proc, managers, adder, client, calls>>

\* _on_task_success goes on unless t is the last task or the next is cancelled.
GoesOn(t) == Succeeded(t) /\ ~IsLast(t) /\ tcycle[Succ(t)] # "canceled"

\* The pipeline's transition: FAILED, SUCCESS after the last task, CANCELED
\* before a task that was cancelled.
SettlePipeline(t) ==
    LET p == t[1]
        new == IF ~Succeeded(t) THEN "failed"
               ELSE IF IsLast(t) THEN "success" ELSE "canceled"
    IN  /\ comp[t] = "pipeline"
        /\ ~GoesOn(t)
        /\ IF Legal(pcycle[p], new)
           THEN /\ pcycle' = [pcycle EXCEPT ![p] = new]
                /\ \E raised \in Outcomes("on_event") :
                     comp' = [comp EXCEPT ![t] = IF raised THEN "report"
                                                 ELSE IF new = "failed" THEN "finally"
                                                 ELSE "close"]
           ELSE /\ comp' = [comp EXCEPT ![t] = "report"]
                /\ UNCHANGED pcycle
        /\ UNCHANGED <<session, tcycle, proc, managers, adder, client, calls>>

\* _next_task: the thread goes on with the task after t.
NextTask(t) ==
    /\ comp[t] = "pipeline"
    /\ GoesOn(t)
    /\ comp' = [comp EXCEPT ![t] = "next"]
    /\ adder' = [adder EXCEPT ![Succ(t)] = "called"]
    /\ UNCHANGED <<cycles, proc, managers, client, calls>>

\* After a failure the tasks behind t are cancelled one by one, up to the
\* first transition that raises.
CancelRest(t) ==
    LET behind(k) == {t[1]} \X ((t[2] + 1)..k)
        cancelable(u) == LegalAfterCleanup(tcycle[u], "canceled", u \in Backed)
    IN  /\ comp[t] = "rest"
        /\ \E k \in t[2]..NTasks[t[1]] :
             /\ \A u \in behind(k) : cancelable(u)
             /\ tcycle' = [u \in Tasks |-> IF u \in behind(k) THEN "canceled" ELSE tcycle[u]]
             /\ \/ /\ k = NTasks[t[1]]
                   /\ comp' = [comp EXCEPT ![t] = "close"]
                \/ /\ k > t[2] /\ TRUE \in Outcomes("on_event")
                   /\ comp' = [comp EXCEPT ![t] = "report"]
                \/ /\ k < NTasks[t[1]] /\ ~cancelable(<<t[1], k + 1>>)
                   /\ comp' = [comp EXCEPT ![t] = "report"]
        /\ UNCHANGED <<session, pcycle, proc, managers, adder, client, calls>>

\* The except clause of _execute_callback emits an ERROR event.  If the sink
\* raises on it the thread dies, without setting _done.
Report(t) ==
    /\ comp[t] = "report"
    /\ \E lost \in Outcomes("on_event") :
         comp' = [comp EXCEPT ![t] = IF lost THEN "ended" ELSE "close"]
    /\ UNCHANGED <<cycles, proc, managers, adder, client, calls>>

Close(t) ==
    /\ comp[t] = "close"
    /\ done' = done \cup {PairOf[t]}
    /\ comp' = [comp EXCEPT ![t] = "ended"]
    /\ UNCHANGED <<cycles, proc, attached, init, adder, client, calls>>

-----------------------------------------------------------------------------
(***************************************************************************)
(* The client's thread.                                                    *)
(***************************************************************************)

Begin(p, goOn) ==
    /\ main' = "next"
    /\ target' = p
    /\ all' = goOn

\* SessionControl.execute on a session that is hydrated: it starts nothing.
Execute ==
    /\ main = "idle" /\ "execute" \in Commands
    /\ Legal(session, "running")
    /\ session' = "running"
    /\ UNCHANGED <<pcycle, tcycle, proc, managers, adder, comp, client, calls>>

Start ==
    /\ main = "idle" /\ "start" \in Commands
    /\ Legal(session, "running")
    /\ session' = "running"
    /\ Begin(1, TRUE)
    /\ UNCHANGED <<pcycle, tcycle, proc, managers, adder, comp, stopped, refused, calls>>

StartPipeline(p) ==
    /\ main = "idle" /\ "start_pipeline" \in Commands
    /\ Begin(p, FALSE)
    /\ UNCHANGED <<cycles, proc, managers, adder, comp, stopped, refused, calls>>

\* start_pipeline first runs the first task; a pipeline without tasks makes
\* _next_task assign a state that does not exist, which raises.
FirstTask ==
    /\ main = "next"
    /\ IF NTasks[target] = 0
       THEN /\ main' = "idle"
            /\ UNCHANGED adder
       ELSE /\ main' = "adding"
            /\ adder' = [adder EXCEPT ![<<target, 1>>] = "called"]
    /\ UNCHANGED <<cycles, proc, managers, comp, target, all, stopped, refused, calls>>

\* ... and only then moves the pipeline to RUNNING.
RunPipeline ==
    /\ main = "run"
    /\ IF Legal(pcycle[target], "running")
       THEN /\ pcycle' = [pcycle EXCEPT ![target] = "running"]
            /\ \E raised \in Outcomes("on_event") :
                 IF ~raised /\ all /\ target < NPipelines
                 THEN Begin(target + 1, TRUE)
                 ELSE main' = "idle" /\ UNCHANGED <<target, all>>
       ELSE /\ main' = "idle"
            /\ UNCHANGED <<pcycle, target, all>>
    /\ UNCHANGED <<session, tcycle, proc, managers, adder, comp, stopped, refused, calls>>

\* stop_task: runner.cleanup, hence stop_worker, from the client's thread.
StopTask(t) ==
    /\ main = "idle" /\ "stop_task" \in Commands
    /\ t \in attached /\ cancels[t] < MaxCancels
    /\ proc' = [proc EXCEPT ![t] = IF @ = "alive" THEN "terminated" ELSE @]
    /\ stopped' = t
    /\ main' = "check"
    /\ UNCHANGED <<cycles, managers, adder, comp, target, all, refused, calls>>

StopCheck ==
    /\ main = "check"
    /\ main' = IF PairOf[stopped] \in done THEN "set" ELSE "cancel"
    /\ UNCHANGED <<cycles, proc, managers, adder, comp, target, all, stopped, refused, calls>>

StopCancel ==
    /\ main = "cancel"
    /\ cancels' = [cancels EXCEPT ![stopped] = @ + 1]
    /\ \E raised \in Outcomes("on_cancel"), lost \in Outcomes("on_event") :
         IF raised /\ lost
         THEN main' = "idle" /\ stopped' = <<>>
         ELSE main' = "set" /\ UNCHANGED stopped
    /\ UNCHANGED <<cycles, proc, managers, adder, comp, target, all, refused, finals>>

StopSet ==
    /\ main = "set"
    /\ done' = done \cup {PairOf[stopped]}
    /\ main' = "idle" /\ stopped' = <<>>
    /\ UNCHANGED <<cycles, proc, attached, init, adder, comp, target, all, refused, calls>>

\* The commands that raise before they change anything: execute and start on a
\* session that is RUNNING, stop and stop_pipeline, whose first transition is to
\* STOPPING, and stop_task on a manager that has no on_cancel attribute yet.
Raising(c) ==
    CASE c \in {"execute", "start"} -> ~Legal(session, "running")
      [] c = "stop"                 -> ~Legal(session, "stopping")
      [] c = "stop_pipeline"        -> \E p \in Pipelines : ~Legal(pcycle[p], "stopping")
      [] c = "stop_task"            -> attached # Tasks
      [] OTHER                      -> FALSE

Refuse(c) ==
    /\ main = "idle"
    /\ Raising(c)
    /\ refused' = refused \cup {c}
    /\ UNCHANGED <<cycles, proc, managers, adder, comp, main, target, all, stopped, calls>>

-----------------------------------------------------------------------------
Adding(t) == AddCheck(t) \/ Spawn(t) \/ OnTaskStart(t) \/ SetInit(t)

Completing(t) ==
    \/ Completed(t) \/ CleanupCheck(t) \/ CleanupCancel(t) \/ CleanupSet(t)
    \/ OnFinally(t) \/ SettleTask(t) \/ SettlePipeline(t) \/ NextTask(t)
    \/ CancelRest(t) \/ Report(t) \/ Close(t)

Resume == FirstTask \/ RunPipeline \/ StopCheck \/ StopCancel \/ StopSet

Command ==
    \/ Execute \/ Start
    \/ \E p \in Pipelines : StartPipeline(p)
    \/ \E t \in Tasks : StopTask(t)
    \/ \E c \in Commands : Refuse(c)

Next ==
    \/ Command
    \/ Resume
    \/ \E t \in Tasks : Adding(t) \/ Completing(t) \/ Exit(t)

Spec == Init /\ [][Next]_vars

\* Threads run, and processes end; the client need not issue any command.
Fairness ==
    /\ WF_vars(Resume)
    /\ \A t \in Tasks : /\ WF_vars(Adding(t))
                        /\ WF_vars(Completing(t))
                        /\ WF_vars(Exit(t))

FairSpec == Spec /\ Fairness

-----------------------------------------------------------------------------
(***************************************************************************)
(* Safety.                                                                 *)
(***************************************************************************)
Of(p) == {t \in Tasks : t[1] = p}
Before(t) == {u \in Of(t[1]) : u[2] < t[2]}
Behind(t) == {u \in Of(t[1]) : u[2] > t[2]}
Exited(t) == proc[t] \in {"ok", "failed"}

\* A task has a process only when every task before it in its pipeline has
\* been recorded SUCCESS after a process that returned 0: whatever the
\* threads interleave, and whichever calls raise, the order is kept.
InOrder ==
    \A t \in Tasks : proc[t] # "none" =>
        \A u \in Before(t) : tcycle[u] = "success" /\ proc[u] = "ok"

\* The recorded outcome of a task is that of its process, and a task recorded
\* CANCELED never had one: no outcome is recorded while the process lives.
StatusMatchesExit ==
    \A t \in Tasks :
        /\ tcycle[t] = "success" => proc[t] = "ok"
        /\ tcycle[t] = "failed" => proc[t] = "failed"
        /\ tcycle[t] = "canceled" => proc[t] = "none"

\* The verdict of a pipeline against its tasks: SUCCESS only when all have
\* succeeded, FAILED only behind a task that failed, and a task is cancelled
\* only in a pipeline that has failed, behind the task that did.
VerdictMatchesTasks ==
    /\ \A p \in Pipelines :
        /\ pcycle[p] = "success" => \A t \in Of(p) : tcycle[t] = "success"
        /\ pcycle[p] = "failed" => \E t \in Of(p) : tcycle[t] = "failed"
        /\ pcycle[p] # "canceled"
    /\ \A t \in Tasks : tcycle[t] = "canceled" =>
        pcycle[t[1]] = "failed" /\ \E u \in Before(t) : tcycle[u] = "failed"

\* on_finally is called at most once for a task, and only after its process
\* has ended, however stop_task and the completion thread meet.
FinallyOnce ==
    \A t \in Tasks : finals[t] <= 1 /\ (finals[t] = 1 => Exited(t))

\* "prevent multiple calls to add_worker": two tasks whose managers have the
\* same events never both get as far as a completion thread.
OneShot ==
    \A t, u \in Tasks :
        t # u /\ PairOf[t] = PairOf[u] => comp[t] = "off" \/ comp[u] = "off"

\* Once a pipeline has its verdict no process of it is started any more, even
\* by a second start_pipeline.
NothingStartsAfterVerdict ==
    [][\A t \in Tasks : pcycle[t[1]] \in Final /\ proc'[t] = "alive" => proc[t] = "alive"]_vars

\* Under every interleaving the pipelines behave as SequentialPipeline says.
Sequential == INSTANCE SequentialPipeline WITH status <- tcycle, verdict <- pcycle
RefinesSequential == Sequential!Spec

-----------------------------------------------------------------------------
(***************************************************************************)
(* The inductive invariant behind the safety properties.                   *)
(***************************************************************************)

\* Whose call of add_worker is in progress: the caller waits for it.
CallerWaits(t) ==
    /\ adder[t] # "off" /\ t[2] = 1 => main = "adding" /\ target = t[1]
    /\ adder[t] # "off" /\ t[2] # 1 => comp[Prev(t)] = "next"

\* A worker with a completion thread is not added again: one of its events is
\* set, or the call that started the thread is about to set _init.
AddedOnce(t) ==
    /\ adder[t] \in {"attached", "spawned"} => comp[t] = "off"
    /\ adder[t] = "running" => comp[t] # "off"
    /\ adder[t] = "spawned" => proc[t] # "none"
    /\ comp[t] # "off" => Blocked(t) \/ adder[t] = "running"

AdderInv == \A t \in Tasks : CallerWaits(t) /\ AddedOnce(t)

\* What a completion thread has established at each of its places: about its
\* task and the task's process ...
TaskAt(t) ==
    /\ comp[t] = "off" => tcycle[t] \notin {"success", "failed"}
    /\ comp[t] # "off" => tcycle[t] \in {"running", "success", "failed"} /\ proc[t] # "none"
    /\ comp[t] \notin {"off", "wait"} => Exited(t)
    /\ comp[t] = "next" => Succeeded(t) /\ ~IsLast(t)
    /\ comp[t] = "rest" => ~Succeeded(t)
    /\ comp[t] \in {"pipeline", "next"} /\ Succeeded(t) => tcycle[t] = "success"
    /\ comp[t] \in {"pipeline", "finally", "check", "cancel", "set", "rest"} /\ ~Succeeded(t)
           => tcycle[t] = "failed"

\* ... about the pipeline, behind a failure ...
PipelineAt(t) ==
    comp[t] \in {"finally", "check", "cancel", "set", "rest"} /\ ~Succeeded(t)
        => pcycle[t[1]] = "failed"

\* ... and about on_finally, which it has not called yet.
FinallyAt(t) ==
    /\ comp[t] \in {"off", "wait"} => finals[t] = 0
    /\ comp[t] \in {"check", "cancel", "set", "finally"} /\ Succeeded(t) => finals[t] = 0
    /\ comp[t] \in {"task", "pipeline", "finally"} /\ ~Succeeded(t) => finals[t] = 0

CompInv == \A t \in Tasks : TaskAt(t) /\ PipelineAt(t) /\ FinallyAt(t)

IInv ==
    /\ TypeOK
    /\ AdderInv
    /\ CompInv
    /\ InOrder
    /\ StatusMatchesExit
    /\ VerdictMatchesTasks
    /\ FinallyOnce

-----------------------------------------------------------------------------
(***************************************************************************)
(* Liveness.                                                               *)
(***************************************************************************)

\* A completion thread that was started comes to its end, whatever raises in
\* the callbacks it runs and whatever the client does meanwhile.
ThreadsEnd == \A t \in Tasks : comp[t] = "wait" ~> comp[t] = "ended"

\* No command of the client blocks for ever.
ClientReturns == main # "idle" ~> main = "idle"

\* A pipeline that is RUNNING while its first process is alive reaches its
\* verdict (when no stop_task is issued and nothing raises).
VerdictReached ==
    \A p \in Pipelines :
        pcycle[p] = "running" /\ (\E t \in Of(p) : t[2] = 1 /\ proc[t] = "alive")
            ~> pcycle[p] \in Final

\* Behind a verdict every task of the pipeline is settled: none is left
\* PENDING or RUNNING (under the same conditions).
VerdictSettlesTasks ==
    \A p \in Pipelines : pcycle[p] \in Final ~> \A t \in Of(p) : tcycle[t] \in Final

-----------------------------------------------------------------------------
(***************************************************************************)
(* What a comment says, and the code does not do.                          *)
(***************************************************************************)

\* "enforce no race condition between FAILED/CANCELED or SUCCESS/CANCELED": a
\* task that succeeded was not reported to the client as cancelled.
CancelExcludesSuccess == \A t \in Tasks : tcycle[t] = "success" => cancels[t] = 0

=============================================================================

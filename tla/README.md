# A verification development for taskweave

taskweave runs pipelines of tasks. A task is a program; a pipeline runs its
tasks one behind the other; a session holds pipelines that run beside each
other, and streams events about all of them to the client. This directory
holds TLA+ models of its core, the TLC configurations that check them, and
proofs that TLAPS checks. Paths below are relative to `src/src/taskweave`
unless they say otherwise.

## 1. Inventory

| Component | State | Operations | Module |
|---|---|---|---|
| Lifecycles (`lifecycle/`, `states/`) | `state` of each session, pipeline, task | `transition` (with a cleanup handler first) | `Lifecycle` |
| Pipeline orchestration (`pipeline/pipeline_orchestrator.py`, `runtime_pipeline.py`) | `pipelines`, their `tasks` and cycles | `execute_plan`, `start_pipeline`, `start_all_pipelines`, `stop_*`, `_next_task`, `_on_task_*` | `Orchestrator`, `SequentialPipeline` |
| Subprocess management (`workers/subprocess_manager.py`, `tasks/task_runner.py`) | `_process`, `_done`, `_init`, three threads | `add_worker`, `_start`, `stop_worker`, `_completion_loop`, `_poll_stdout` | `Orchestrator`, `EventPath` |
| Session control (`session/session_control.py`) | `session`, `orchestrator`, `pool_provider`, `_plan` | `execute`, `add_pool`, `start`, `stop`, `stop_pipeline`, `reset`, `snapshot` | `Session`, `Orchestrator` |
| Hydration (`pipeline_orchestrator.py`) | `pipelines`, names of tasks, the registry's contexts | `execute_plan`, `add_pipeline`, `hydrate_pipeline`, `start_all_pipelines` | `Session` |
| Registry, gateway, session manager (`execution_registry.py`, `session_gateway.py`, `session_manager.py`) | none that is reached | `submit`, `parse_plan`, `create` | `Session` |
| File backend (`persist/persist_backend.py`) | queue, buffer, rotated files, `_thread_died`, `_stop_event` | `write`, `_consume_loop`, `_rotate`, `_cleanup`, `close` | `FileBackend` |
| Circuit breaker (`persist/circuit_breaker.py`) | `_failures`, `_open_since` | `call`, `_is_open` | `CircuitBreaker` |
| MiniBus, observability (`buses/`) | `_last_seen_sequences` | `emit`, `emit_internal` | `EventPath` |
| Heartbeat (`buses/heartbeat.py`) | `_attempts` | `beat`, `_heartbeat_loop` | `EventPath` |
| Stream writer, persist registry (`info_stream/`, `persist/persist_registry.py`) | sinks, contexts | `register_sink`, `_on_event`, `add_context`, `persist` | `EventPath` (`_on_event`), `Session` (`add_context`) |
| Log store (`logging/`) | `_known_names`, the index file | `register`, `resolve`, `cleanup` | `LogStore` |
| Worker pool (`workers/worker_manager.py`, `tasks/pool_provider.py`) | `workers`, `_pending`, `max_count` | `add_pool`, `add_worker`, `stop_worker`, completion | `WorkerPool` |
| Basic worker (`workers/basic_worker.py`) | the subprocess, `success_event`, `failure_event`, `print_queue` | `run`, `read_subprocess_output`, `terminate` | `BasicWorker` |
| Dialect (`src/src/taskweave_dialect`) | the rules of each `Field` | `Field`, `parse`, `Classifier`, diagnostics | `Dialect` |
| Protocol, transport, context, utilities, benchmark, `*_off.py` | see `PROJECT.json` | | not modelled, with the reason in `PROJECT.json` |

### How they interact

The client calls `SessionControl`, which calls the orchestrator in the
client's thread. `start_pipeline` calls `add_worker` of the first task's
manager; that starts a process, a thread that reads its output and a thread
that waits for its end. The second of these, the *completion thread*, runs the
orchestrator's `_on_task_success` or `_on_task_failure` inside
`_execute_callback`, and from there `add_worker` of the next task: a pipeline
moves on in a different thread for every task. Every transition of a pipeline
or a task emits an event that ends in the client's sink, synchronously, in the
thread that made the transition; so the client's code can raise inside any
transition. Lines of output go through heartbeat, bus and stream writer to the
same sinks and, for a task with a backend, to a `FileBackendRunner`, which has
a consumer thread of its own. A `BasicWorker` is a process of its own: its
command's output and its own reports come back through one queue, and its
parent ends it by a word through a connection, and by force after five seconds.

### What is hard

* *Interleaving.* No lock protects cycles, managers, the bus or the breaker.
  `stop_worker` runs in the client's thread and in the completion thread of the
  same task. `start_pipeline` starts the first task before the pipeline is
  RUNNING, so the completion thread may settle a pipeline that is PENDING.
* *Partial failure.* `Popen`, the sink, `on_cancel` and `on_finally` may raise
  in the middle of a callback. `_execute_callback` catches the exception, and
  the steps behind it do not happen.
* *Shared state by default.* `_done` and `_init` of `SubProcessManager` are
  class attributes. The name of a task is an object that every pipeline made of
  the task shares and that `register` extends in place.
* *Replaced state.* `reset` replaces provider, orchestrator and session one
  after the other; hydration replaces a pipeline in a dict over which another
  thread may be iterating.
* *Ends.* The queue of a backend may be full, the disk may fail in the middle
  of a rotation, and `close` may meet a `write` that is ending the runner
  itself. Both join a thread and put a pill into a bounded queue.

The hazards are listed one by one, at their lines and with the properties that
are for them, in `PROJECT.json`.

### What makes each component correct

* Orchestration: tasks run in order, each at most once; a recorded outcome is
  the process's; the verdict of a pipeline is its tasks'; after a verdict
  nothing starts; a pipeline that runs reaches a verdict; `on_finally` once.
* Session: a pipeline that commands can reach has all its tasks; a session that
  `execute` moved to RUNNING has the pipelines of its plan, over its own
  orchestrator; `start` reaches every pipeline; the registry's runner of a task
  writes under the name the task has now.
* File backend: what is on disk and behind it is the end of what was accepted,
  in order and without a gap; what a forced end loses is old; no line twice;
  `write` and `close` return.
* Circuit breaker: opens after `threshold` failures in a row, refuses while it
  is open, lets a call through once the time has passed.
* Event path: every sink sees the lines of a task in order, none twice and none
  left out; a timeout event is only for a task that was silent, and a task that
  is silent gets one.
* Log store: the index can be read, and names every session that has log files;
  the sweep deletes what is too old and only that.
* Worker pool: at most `max_count` workers, and no task is put off while there
  is room.
* Basic worker: what the command printed arrives whole, in order and before the
  report of its end; nothing runs on behind a worker that ended by itself;
  `terminate` ends it.
* Dialect: a target is accepted exactly when it keeps the rules; every field of
  a line has a value or a failure; the groups reported as not consumed are the
  ones no field takes.

## 2. Plan

Done, in this order: `Lifecycle`, `SequentialPipeline` and `Orchestrator`, the
core, with its inductive invariant and its refinement proved; `FileBackend`;
`CircuitBreaker`, `EventPath`, `LogStore` and `WorkerPool`, each with its run and
its proofs; `Dialect` with the diagnostics; `BasicWorker`; and `Session`, the
objects of a session before anything runs. Every invariant and every action
property that a run checks is a theorem by now.

Open:

1. *Composition.* `FileBackend` with `CircuitBreaker` in place of `open`; the two
   meet in one bit in the LOCAL configuration, the default of every backend. The
   readers of `LogStore`, once they no longer raise.
2. *Breadth.* The part of `WorkerManager` that the constructor of
   `WorkerContext` cuts off, should that be repaired.

## 3. The modules

### Lifecycle

The three transition tables are the same over three enumerations, so there is
one: PENDING to RUNNING or CANCELED, RUNNING to SUCCESS, FAILED or CANCELED.
STOPPING is a member of two enumerations and of no table. `Legal` is the check
of `transition`; `LegalAfterCleanup` that of a cycle whose cleanup handler runs
first and may raise.

### Orchestrator

| Variable | Code |
|---|---|
| `session`, `pcycle`, `tcycle` | `session.cycle.state`, `pipeline.cycle.state`, `task.cycle.state` |
| `proc[t]` | `manager._process`: none, alive, terminated (signalled), ok or failed (exited) |
| `attached` | the managers that have an attribute `on_cancel` |
| `done`, `init` | the events that are set, by pair |
| `adder[t]` | where a call of `add_worker` for `t` stands, in the caller's thread |
| `comp[t]` | where the completion thread of `t` stands |
| `main`, `target`, `all`, `stopped` | where the client's thread stands, and in what |
| `refused` | the commands that have raised and changed nothing |
| `cancels`, `finals` | calls of the client's `on_cancel`, `on_finally` |

A task is a pair of its pipeline's number and its place. One action is what a
thread does between two points at which another thread can look: `AddCheck`,
`Spawn`, `OnTaskStart` and `SetInit` are `add_worker`; `Completed` to `Close`
are the completion thread; `Execute` to `Refuse` the client. The order of the
steps of `_on_task_success` (cleanup, `on_finally`, task, pipeline or next
task) and of `_on_task_failure` (task, pipeline, `on_finally`, cleanup, tasks
behind) is in `AfterSuccess` and `AfterFailure`. Whatever raises leads to
`Report`, the `except` of `_execute_callback`. A raising sink there ends the
thread before it sets `_done`.

`Raises` says which external calls may raise. A raising sink is any exception
of `on_event`; the transition that called it has then already changed the
state, as in the code. `Backed` are the tasks with a backend: their cleanup
handler, `_handle_task_persistence.cleanup`, raises always, since no sink was
registered under the name and a `FileBackend` has no `close`, so the final
transition of such a task never happens. `_on_task_start` is not affected,
because RUNNING is not one of the handler's triggers.

`PairOf` is which `_done` and `_init` a manager has. `DefaultPair` is what the
class attributes give: one pair for all. `OwnPair` is a pair per manager: the
constructor of `SubProcessManager` takes `_done` and `_init`, and a client's own
`ExecutionStrategy` may build its manager that way. Most of the interleavings
the code was written for happen only there, so the safety and liveness of the
orchestrator are checked under both.

`stop` and `stop_pipeline` raise at their first transition, to STOPPING, which
no table allows; so what follows in `_cleanup_pipeline` never runs, and
`Refuse` is the whole of them. `stop_task` raises while a manager has no
`on_cancel` and works afterwards; it does not touch any cycle.

Left out of this module: the thread that reads the output (`EventPath`),
hydration, `execute` with its plan and `reset` (`Session`), pools (`WorkerPool`),
`ExternalStrategy` (its
`_get_runner` returns `None`, on which `_run_task` raises), and
`_wait_for_stop`, which nothing calls.

### SequentialPipeline

What the orchestrator promises: a task begins only behind successes and before
a verdict, a verdict follows from the tasks, and tasks are cancelled only
behind a failure. `Orchestrator` implements it with `status <- tcycle` and
`verdict <- pcycle` (`RefinesSequential`).

### Session

| Variable | Code |
|---|---|
| `pools`, `orchs`, `sessions` | every `PoolProvider`, `PipelineOrchestrator` and `Session` there has been |
| `ref` | the ones that `SessionControl` refers to, and its `_plan` |
| `name[t]`, `context[t]` | how often the name of task `t` has been extended; the name under which the registry's runner of `t` writes |
| `at[c]`, `job[c]`, `reply[c]` | where the call of `c` stands, what it works on, how the last one ended |
| `failed`, `crossed` | history: tasks whose last hydration raised; a reset met another call |

Callers are the client and the threads, or sinks, in which its callbacks call
`SessionControl` again. `Execute` sets the plan, `Register`, `Connect` and
`Store` hydrate one task, one task, one pipeline at a time, and `Finish` moves
the session, the one that is there by then, to RUNNING. The loop of
`start_all_pipelines` keeps the size of the dict it began with and looks each
pipeline up by its id. `reset` is its three assignments, with other calls
between them. A `TaskId` is extended in place, which the model has as a
counter: it tells names of a task apart, and who holds the name does not matter,
as all hold the same object.

Some calls change nothing because they raise, and the model has them so that
nobody expects more: `snapshot` reads `last_error`, which no task has;
`parse_pools` asks the list it was given for a key, `parse_pipelines`
overwrites its argument, and `SessionManager.create` calls `SessionControl`
without `on_event`, so that `submit` never gives a session.

### BasicWorker

| Variable | Code |
|---|---|
| `sp`, `signalled`, `printed` | the subprocess, whether it was signalled, its output |
| `taken`, `reader`, `lines` | `read_subprocess_output`: how far it has read, where it stands, the lines of its chunk still to put |
| `main`, `outcome`, `alive` | where `run` stands, the event it has set, the worker's process |
| `exit`, `call` | the word in the connection, and where `terminate` stands in the parent |
| `feed`, `lock`, `told`, `delivered` | the feeder threads of the queue, the lock they share, what has come through |

A character is one that ends a line or one that does not, and the event of a
line holds the positions of its first and last character, so that order, cuts
and loss can be stated. `read(256)` waits for a full chunk or the end; the
buffer is emptied behind each, so that a line which crosses the boundary comes
in two events. `put` leaves an event to the feeder of its process; a worker that
is killed while its feeder has the lock keeps it for ever, and the parent's own
event does not arrive. The command may ignore SIGTERM: `run` then waits without
a limit, and `terminate` kills the worker after its timeout, which may be at any
moment, also when the worker is just done.

### FileBackend

| Variable | Code |
|---|---|
| `queue`, `unfinished` | `_queue` and its `unfinished_tasks` |
| `died`, `stop`, `open` | `_thread_died`, `_stop_event`, `circuit_breaker._open_since` |
| `buffer`, `files`, `index`, `handle` | `buffer`, the files on disk, `file_index`, `handle` |
| `cons`, `hand` | the consumer thread and the line it holds |
| `pc`, `kept`, `clean` | `write` in each thread, `close`, and their locals |
| `puts`, `enders` | history: lines accepted; who began to end the runner |

A line is the number of its `put_nowait`, so order, gaps and duplicates can be
stated. `write` is split at `_thread_died` and the breaker, `put_nowait`, and
the steps of `_cleanup`; `close` at every call that blocks or is seen by
another thread; the consumer at the test of `_stop_event`, `get` and `_append`.
The breaker has its LOCAL configuration: one failure opens it, and since
`recovery_timeout` is 0.0 it is open or closed for a later call depending only
on whether the clock has moved, so the model leaves that open. The message of
last resort is the line itself. There is one writer, the thread that reads the
task's output; with `close` beside it two threads end the runner. `Fails` is what may raise: `open`, `write` after a part of the lines, and the
`sink` that is told of a failure. The handler for it in `_loop` reads `e.msg`,
which raises again, so the consumer ends without an event or `_cleanup`.
`enders` counts the threads that began to end the runner: what is claimed of its
end is claimed for one of them (`Alone`).

Within the repository `PersistRegistry.persist` is reached only for sinks that
nothing registers; the model is of the runner, called as its unit test and a
client's strategy call it.

### CircuitBreaker

| Variable | Code |
|---|---|
| `failures`, `openSince` | `_failures`, `_open_since` |
| `now`, `seen[c]` | `time.monotonic()`, and what thread `c` read of it |
| `at[c]`, `error[c]`, `result[c]` | where `call` stands in thread `c`, what the backend answered, how the call ended |
| `streak`, `opened` | history: failures since the last success, and whether the breaker was opened in it |

There is no lock. A step is what one thread does between two calls (of the
clock, of the backend): CPython switches threads at calls, not between reading
and writing a field in one expression. `_is_open` looks at `_open_since`,
calls the clock (`ReadClock`) and subtracts (`Judge`), so another thread may
have reset it to `None`, which is the `TypeError` that `result` records. Recovery
does not reset `_failures`, and the stamp follows the count in a step of its own.

### EventPath

| Variable | Code |
|---|---|
| `proc`, `written`, `pipe` | the process, and the pipe of its output |
| `pc`, `line` | `_poll_stdout` and `_heartbeat_loop`, and the line in hand |
| `attempts`, `wake`, `quiet` | `_attempts`, what is left of `sleep`, history: time since the last beat |
| `lastSeen`, `event`, `next` | `_last_seen_sequences`, and the call of `emit` in each thread |
| `out` | the events each sink was called with |

The reader beats, then emits; the heartbeat thread sleeps
`threshold * _attempts`, longer each time, and reports once. Both call the same
sinks, without a lock. A sink that raises, or a line that does not decode, ends
the reader; the process then fills the pipe and blocks, so that its task never
ends. Every event carries a new `TaskId`, which compares by identity, so each
gets number 1 and finds no persistent sink: `persist` is not reached.

### LogStore

| Variable | Code |
|---|---|
| `file`, `index`, `logs` | the index file (readable or not), what it says, the log files |
| `pc`, `copy`, `doomed` | where `register` or `cleanup` stands, what it has loaded, what it has still to unlink |
| `made`, `todo` | ids made, tasks of the plan still to hydrate |
| `lastAt`, `overlapped` | history: last `register` of a session; two calls have overlapped |

All sessions share the index file, and no lock. `open(..., "w")` empties it and
`json.dump` fills it, so a killed process leaves it empty (`Crash`), and two
dumps may end up on top of one another ("garbled"); `register` then raises for
good. `register` compares a `TaskId` with the string keys of the reloaded index
and never finds its session: an entry names the last log file of the session
only (`LastIsListed`), where `log_store.py:74` appends to a list and
`console_reader` prints the list as the files of the session. `max_age` counts
milliseconds, the clock seconds: 134 years for the 49 days of the comment. The
clock of the model moves in steps of `max_age`. `resolve` and the readers change
nothing; they ask a `dict` for attributes and raise.

### WorkerPool

| Variable | Code |
|---|---|
| `limit`, `workers`, `pending` | `max_count`, `workers`, `_pending` of each manager |
| `runner`, `later` | the manager hydration gave each task; the tasks behind another one |
| `running` | the tasks at the head of a pipeline that is RUNNING |
| `pc`, `hand` | `add_worker` in each thread, and the client's task |

`add_worker` compares the size of the table with `max_count` and inserts some
statements later; client and completion threads share the manager, without a
lock. As it stands, no worker starts: `WorkerContext(name = name, sink = ...)`
(`worker_manager.py:131`) raises `TypeError`, since the class takes no `sink`,
after the worker is in the table. So four calls raise and leave their pipeline
PENDING, and each call after them is put into `_pending` and returns as if all
were well; nobody works on `_pending`. The limit is `PoolTaskRunner.max_parallel`,
4, whatever `add_pool` was asked for. `stop_worker` calls `_stopp_worker`, which
does not exist, before anything has changed, and is left out. What is behind
the exception in `worker_manager.py` is not reachable and not modelled.

### Dialect

| Variable | Code |
|---|---|
| `target`, `verdict`, `fields` | the target the client writes, what `Field()` gave, the fields made |
| `at`, `results`, `failures`, `ended` | `RExtractorRunner.parse` |

A target is a sequence of tokens. `Read` is the part of `re` the rules depend
on: brackets, bars, classes, names, and which alternations it turns into a
class. `Validate` is `ValidateRule.validate`, rule by rule. The rule on unions
does not look at the target but at `str(rule)`, in which the pattern stands in
quotes, with its backslashes doubled and cut off after 200 characters (`Shown`).
So `\[(.+)|(x)\]` is accepted, `(a\|b)` refused as a union, and `\((.+)` raises
`re.error`. `PlainJudged` says that without backslashes and classes the detour
changes nothing, as long as nothing is cut off. The operators were compared with the real `validate`, on all
targets of up to five of the thirteen tokens of `MCDialect`: the verdicts agree.

`parse` goes on behind a field that does not match, and behind a value that
cannot be cast only under BEST_EFFORT; a negative group, which no rule refuses,
raises `IndexError`. `RExtractor` itself cannot be constructed (it calls
`analyze()` without its argument), so the model begins at its runner.
`Analyze` is `Diagnostics.analyze` over the result, message by message. Given
the runner's own `parse` it raises at the fourth diagnosis, as the result has no
length; the other two forms of the argument are what the signature (a
`Callable`) and the `except DialectError` of `analyze` allow for.

## 4. The runs

All runs use small instances with model values or short sequences for
constants; the `MC` modules define them.

| Run | Instance | What it shows |
|---|---|---|
| `orch_safety` | one pipeline of three tasks, own events, all commands but `stop_pipeline`, every external call may raise | `InOrder`, `StatusMatchesExit`, `VerdictMatchesTasks`, `FinallyOnce`, `NothingStartsAfterVerdict`, and the inductive invariant `IInv`, of which `TypeOK` is a part |
| `orch_default` | two pipelines (2 and 1 tasks), shared events, the last task with a backend, the sink may raise | `OneShot`, `ThreadsEnd`, `ClientReturns` |
| `orch_live` | two pipelines (2 and 1), own events, nothing raises, no `stop_task` | `RefinesSequential`, `VerdictReached`, `VerdictSettlesTasks` |
| `orch_cancel` | one task | violated: `CancelExcludesSuccess` |
| `file` | one writer, a queue of three, two files of two lines, a disk that may fail in `open` and `write`, a sink that may raise, `close` at any moment | `StreamIntact`, `LossIsOldest`, `CleanCloseKeeps`, `CloseReturns`, `WriteReturns` |
| `breaker` | three callers, a threshold of 2, a timeout of one tick, a transient and a permanent error | `OpensAtThreshold`, `ReturnMeansDone`, `ClosesAfterTimeout` |
| `events` | 3 lines, a pipe of 2, two sinks that may raise, lines that may not decode, 4 attempts | `StreamWhole`, `TimeoutAfterSilence`, `EverythingArrives`, `SilenceReported` |
| `logs` | two sessions of two tasks, one cleanup at a time, processes killed | `IndexReadable`, `LastIsListed`, `LogsReachable`, `OnlyOldDeleted` |
| `pool` | two pools, five tasks, a limit of 2 | `PoolBound`, `SilentOnlyWhenFull` |
| `dialect` | targets of up to five of thirteen tokens, or up to seven characters, parentheses and bars, groups -1 to 2, two fields, the diagnostics of the result | `TypeOK`, `PlainJudged`, `EveryFieldAnswered`, `GroupsReported` |
| `worker` | chunks of two, a pipe of three, up to five characters, a command that may ignore SIGTERM, `terminate` at any moment | `TextWhole`, `LeavesNothingBehind`, `TerminateEnds` |
| `session` | two callers, four calls, two pipelines that share a task, one task in a pool, hydration and starts that may raise | `SessionTellsPlan`, `RegistryFollowsName`, `StartReachesAll` |

### Bounds

* Three tasks have a task before, in and behind the one that fails; two
  pipelines are enough for one to be settled while the other starts. `MaxCancels`
  bounds how often `stop_task` is called; one call meets every place of the
  completion thread.
* `file`: six lines (`MaxPuts`) wrap the rotation around two files and leave a
  part of a file and of the queue. `Capacity`, `MaxLines`, `MaxFiles`, `MinDrain`
  and `Keep` are constants of the code (10 000, 100, 3, 100 and 3 by default),
  here small enough for each of them to be reached and passed. Two is the least
  `Keep` that tells the newest from the oldest message. One writer, since a runner belongs to one task and is
  written to by the thread that reads its output; `close` is the second thread.
* `breaker`: three callers let two count failures while a third recovers or
  succeeds; `MaxTime` of 3 is two timeouts and one more tick, `MaxFailures` is
  twice the threshold.
* `events`: the third line is printed when the pipe has been full; with
  `MaxThreshold` at 3 the loop ends by its delay before it ends by its attempts.
  `MaxQuiet` is what all sleeps add up to (`EventPathAssumption` asks for that),
  so that silence is measured as far as the property needs it.
* `logs`: two sessions are the least that can overlap; a session makes
  `MaxIds` = 3 ids, so that one can execute again after a plan that raised at its
  first task; the clock makes two steps, of which the second expires an entry.
* `pool`: five tasks fill a table of two, overfill it by completion threads, and
  leave one to be put off; two pools of one name show which one tasks keep.
* `worker`: five characters are two full chunks and a part of one, and more than
  the pipe takes at once; a line can end in, at and behind the end of a chunk.
* `session`: two callers are the client and a callback; four calls are two of
  each, or a plan, a second one, a start and a reset.
* `dialect`: five tokens are a group with a bar, or with something before or
  behind it; seven are a group in a group, or two alternatives of two
  characters. `ReprLimit` is 9, so that targets with escapes are cut.

### Fairness

`FairSpec` of `Orchestrator` asks that threads that can step do, and that
processes end; no command is ever forced. Python schedules every runnable
thread, and no step of these threads waits for a lock. `ThreadsEnd` and
`ClientReturns` hold while callbacks raise; `VerdictReached` and
`VerdictSettlesTasks` hold only when nothing raises and nobody calls
`stop_task`, since a sink that raises, or a `_done` set by `stop_task`, leaves
a pipeline RUNNING for ever. `FairSpec` of `FileBackend` asks that a call of
`write` or `close` that has begun goes on when it can, and that the consumer
runs; no call is forced to begin, and a blocking `put`, `join` or `get` is
disabled while it blocks. `FairSpec` of `EventPath` asks that reader and
heartbeat run and that time passes; no process has to print or to end.
`FairSpec` of `BasicWorker` asks that the threads of both processes run and that
a `terminate` that has begun goes on, its `join` for five seconds at most; the
command owes nothing. `CircuitBreaker`, `LogStore`, `WorkerPool`, `Session` and
`Dialect` state safety only: their calls have no loop that waits.

Deadlock is checked in all runs of the orchestrator that pass, in `breaker` and
in `events`. The instances of the others really stop: the runner is closed, the
plans are hydrated, the calls are made, the table and its queue are full, the
worker has ended, the line is parsed.

### What the violated run shows

`orch_cancel`: `_on_task_success` begins with `stop_worker`, which calls
`on_cancel` because `_done` is not set before the callback ends. Every task
that succeeds is reported as cancelled first.

Other things the code does that the models show as behaviours, without a check
of their own:

* With the shared `_init` of the default, every `add_worker` after the first one
  returns without a process and without an error (`OneShot`, in `orch_default`).
  The pipeline stays RUNNING and its second task PENDING, where
  `src/README.md:25` promises order.
* `execute` followed by `start` raises; a stopped task and its pipeline stay
  RUNNING; a failing `Popen` leaves the pipeline PENDING or RUNNING; a task with
  a backend never becomes SUCCESS.
* After the clean drain `close` leaves the last, incomplete file of lines in the
  buffer, unwritten (`persist_backend.py:297`): `CleanCloseKeeps` says that
  nothing else stays behind. `close` waits for ever in `queue.join` when the
  disk fails during that drain: `CloseReturns` excepts this state by name
  (`CloseHangs`).
* `close` and a failing `write` that end the runner together may write lines
  twice or raise on a deque that changed (`Alone` keeps them out of two
  properties).
* A `reset` that meets another call may leave a session over an orchestrator that
  is no longer there (`crossed` keeps it out of `SessionTellsPlan`).

### Faults

Operators with names like `NeverBlocked`, `VerdictFirst`, `NextIndexShort`,
`MarkForgotten`, `JoinNobody` or `HydratedEarly` are faults: each is the
definition beside it with a plausible bug. `PROJECT.json`
pairs every property of a passing run with the fault that it finds.

## 5. The proofs

Each proof holds for every value of the constants that the module's assumption
allows; the assumption gives them their types and, where a comment says so, one
fact more. Each goes over an inductive invariant `IInv` of its module.

### Orchestrator

`Orchestrator_proofs` proves, for every number of pipelines and tasks, every
sharing of events, and every set of commands, raising calls and backed tasks:

* `TypeCorrect`: `Spec => []TypeOK`
* `Invariant`: `Spec => []IInv`
* `OrderKept`, `OutcomeTrue`, `VerdictTrue`, `FinallyTrue`: the safety
  properties, as conjuncts of `IInv`
* `VerdictIsLast`: `Spec => NothingStartsAfterVerdict`
* `Refines`: `Spec => RefinesSequential`
* `StartedOnce`: `SharedFromTheStart` implies `Spec => []OneShot`

The only assumption is `OrchestratorAssumption`, which gives constants their
types and that there is at least one pipeline.

The properties are not inductive by themselves. That the process of `t` starts
only behind successes needs to know who is calling `add_worker`: the client for
a first task, otherwise the completion thread of the task before, which stands
at "next" and waits (`CallerWaits`). That this thread has seen a success needs
what each place of a completion thread knows about its process and its task
(`TaskAt`), and that there is at most one thread for a task needs the events:
a worker that was added has one of them set, or the call that adds it is about
to set it (`AddedOnce`). `PipelineAt` carries the pipeline's failure to the
place where the tasks behind are cancelled, and `FinallyAt` says that
`on_finally` is still to come. The proof goes step by step over the actions, in
three passes: types; `AdderInv`; then the facts (`Facts`), in lemmas for a move
of a thread (`MoveFacts`), a change of a process (`ProcessFacts`), of a task's
state (`StatusStep`) and of a pipeline's (`VerdictStep`).

For `Refines` each action is shown to be a step of `SequentialPipeline` under the
mapping, or to leave `status` and `verdict` alone: `OnTaskStart`, `SettleTask`, `SettlePipeline`, `CancelRest` and
the RUNNING of a pipeline are its steps, every other action a stutter. The abstract guards are facts
about other tasks, and come from `IInv` before the step (a task that runs has a
process, `RunningHasProcess`, which has successes before it) or after it
(`VerdictMatchesTasks`).

`OneShot` does not hold for every sharing of events: when two pipelines share
the events of a task that is not their first one, the completion threads that
come to these tasks can both find `_init` unset. `SharedFromTheStart` excludes
that, and both ways in which the code hands out events satisfy it:
the class attributes, one pair for all (`ClassAttributesShared`), and own events
for each manager (`OwnEventsShared`). Then a task that shares its events and is
not a first one shares them with the task before it, and when the completion
thread of that one gets to it `_done` is set (`DoneAt`) and keeps it out; the first
tasks that share are started by the client, one after the other. So only one
manager is ever let through (`OneStarted`).

### CircuitBreaker

`Persist_proofs`: `Opens` (`OpensAtThreshold`), `Returns`
(`ReturnMeansDone`) and `Closes` (`ClosesAfterTimeout`), for every set of callers
and either configuration. That the breaker opens in time needs that no failure
of the streak has been dropped from the count (`StreakCounted`): a success may
reset the count between two failures, but then it ends the streak as well. That
it closes late enough needs that readings of the clock are past (`SeenPast`):
`_open_since` is compared with a reading that may be older than the stamp.
`AnswerKnown` ties the place of a thread to the backend's answer.
`BreakerAssumption` says which kinds of error a backend raises; outside of them
`call` returns as if nothing had happened.

### FileBackend

`Persist_proofs`, for every number of writers, every size of the queue, the
files and the rotation, and whatever fails:

* `BackendTyped` (`TypeOK`), over `TypeCorrect`: `task_done` is not called once
  too often because each message taken is counted until it is (`Counted`).
* `OldestAreLost` (`LossIsOldest`), over `OrderInv`: what is in the queue is newer
  than all that has left it (`QueueNewest`); files, buffer and the line in hand
  hold lines in order (`FilesInTurn`), and behind the consumer's end so does
  what a drain has taken (`TailAt`); a lost line is older than the lines that the
  rotation or the drain kept at that moment, or has as many newer ones (`LostAt`).
  A drain that is alone meets no consumer, since it has joined it
  (`JoinedLast`, `OneEnder`). `Floor` is `Keep`, or what the files hold if they
  hold less.
* `StreamIsIntact` (`StreamIntact`) and `CleanCloseIsKept` (`CleanCloseKeeps`), over
  `StreamInv`: counted back from `puts`, each place of the queue, the hand, the
  buffer and the files has its number (`Numbered`), where the files have been
  rotated some number of times (`RotatedTimes`). `FlattenSeq` is then taken
  apart by length, the same for all files but the one being written, so that no
  induction over the files is needed.

### EventPath

`EventPath_proofs`: `Types` and `Silence` (`TimeoutAfterSilence`).
`SleepWithinSilence` relates the sleeps so far to the time since the last beat,
twice both, since the sum of the delays is `threshold * k * (k - 1) / 2`; a beat
in a sleep resets the attempts, so that the sleep it falls into no longer counts. `Whole` (`StreamWhole`) numbers
the lines: the pipe holds those behind what was read (`PipeAt`), the hand of the
reader the last one read (`HandAt`), and each sink was called with the lines
before, and with the one in hand as far as the loop over the sinks has come
(`SinksAt`).
`EventPathAssumption` makes `MaxQuiet` large enough for the history not to
saturate before.

### LogStore

`LogStore_proofs`: `Readable` (`IndexReadable`) and its `Invariant`. As long as
no two calls overlap, one actor is in a call (`OneCall`), the file it dumps into
is empty (`StillEmpty`), and its entry is in what it dumps (`EntryReady`). `Reachable`
(`LogsReachable`), `Listed` (`LastIsListed`) and `Deleted` (`OnlyOldDeleted`) go
over `Tells`: as long as no two calls overlap, each copy of the index, the one
in the file (`IndexTells`), the one a call has loaded (`CopyTells`), and what
the sweep has set aside (`SweepTells`), agrees with the log files and with the
times of the last registrations.

### WorkerPool

`WorkerPool_proofs`: `Bounded` (`PoolBound`) and `Silent`
(`SilentOnlyWhenFull`). The bound on the table is not inductive; `Counted` adds
the threads that have found room and not inserted yet. When one more finds
room, the table is below its limit, and at most the client and the tasks with a
thread of their own can be on their way, since a thread holds one task
(`HasTask`).

### BasicWorker

`BasicWorker_proofs`: `TypeCorrect`, `NothingLeft` (`LeavesNothingBehind`) and
`TextArrivesWhole` (`TextWhole`), for every size of chunk, pipe and output.
`CommandAt` says at which places of `run` the command has been waited for. For
the text, what was taken is a number of whole chunks or, once the command has
exited, everything (`TakenAt`); each event made of it covers one piece of it, in
one place, in order and without a gap (`AllPlaced`, `InOrder`, `Covered`); and the report of
the end is put behind all of them, since `run` joins the reader before it
(`ReaderAt`, `LastIsLast`).

### Session

`Session_proofs`, for every set of plans, callers and tasks and whatever raises:

* `RegistryFollows` (`RegistryFollowsName`): the context of a task is made again
  in the step that extends its name.
* `AllPipelinesWhole`: a pipeline enters the dict only with all its tasks. That
  needs that a caller in hydration has, of the pipeline at the head of its plan,
  the first tasks (`JobFits`).
* `StartReaches` (`StartReachesAll`): a loop that is at place `n` of a dict has
  started the pipelines at the places before, or they were hydrated anew
  (`LoopsReach`); ids are unique in a dict (`UniqueIds`).
* `SessionsTellPlans` (`SessionTellsPlan`): until a reset meets another call,
  the session is over the orchestrator referred to (`SessionOverOrch`) and who
  hydrates does so for these (`MakersCurrent`), so that each pipeline belongs to
  the session over its orchestrator (`PipelinesTold`) and the plan is there at
  the end (`PlansThere`).

### Dialect

`Dialect_proofs`, for targets of every length:

* `Answered` (`EveryFieldAnswered`), for every extractor, every outcome of a match
  and either policy. Before the end, each field the loop has passed has exactly
  one answer and those behind it have none (`FieldsAt`).
* `Types` (`TypeOK`): in every state of its reading, the reader has a stack of
  levels that are never empty (`Stacked`), and groups at most as many as tokens.
* `GroupsAreReported` (`GroupsReported`): the reader's groups are the opening
  parentheses of the target, and it has no error exactly as long as no
  parenthesis closes what is not open (`Counted`).
* `PlainTargetsAreJudged` (`PlainJudged`): `Shown` puts a plain target in quotes
  and a group (`ShownIs`), so the claim is one about the reader inside them.
  `Judging` says what it has after each token. Either the innermost group has
  only characters and bars so far (`Fresh`): then its alternatives are the
  pieces between bars (`Split`), and closed now it is a class exactly when
  `OfCharacters` holds (`SplitClass`). Or it has a group in it (`Mixed`):
  then it can never be a class, as groups have numbers that differ
  (`Numbered`, `GroupsBranch`), and any bar makes it a branch. In both cases what
  the reader has found, or will find when it closes what is open (`Condemned`),
  is that some bar is in no group of characters (`Loose`).

These need an induction over the tokens. The theorems of the library take an
operator and cannot be used here; `SeqSets` states induction for sets instead: a set
with the empty sequence, and with `Append(s, t)` whenever it has `s`, has every
sequence. It comes from the least element of a set of numbers (`Least`), and that
from the well-founded order of finite sets. `ReadingMore` and `Flattened` unfold
`Reading` and `FlattenSeq`, which are recursive functions, by one step.

### Model-checked only

The liveness properties: `ThreadsEnd`, `ClientReturns`, `VerdictReached`,
`VerdictSettlesTasks`, `CloseReturns`, `WriteReturns`, `EverythingArrives`,
`SilenceReported` and `TerminateEnds`. They rest on fairness and `ENABLED`, which are
beyond this prover. That the operators for `re` say what `re` does is
not proved either; they were compared with it, as said above.

## 6. Checking

    tlc -workers 2 -config MCOrchestrator_safety.cfg MCOrchestrator
    tlapm Orchestrator_proofs.tla

`PROJECT.json` names the module and the configuration of each run. `events`,
`pool` and `worker` run their module itself; the others have an `MC` module with
symmetry, model values or sequences for constants. The runs take from a second
to about three minutes each; the proofs of the orchestrator, the session, the file
backend and the dialect some minutes, the others less.

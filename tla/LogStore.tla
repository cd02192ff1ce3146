------------------------------ MODULE LogStore ------------------------------
(***************************************************************************)
(* logging/log_store.py: the index that names the log files of each        *)
(* session.  Every session has a LogStore of its own, all of them on one   *)
(* index file, in threads or processes that share no lock.  register is    *)
(* called by the hydration of a plan (pipeline_orchestrator.py), for one   *)
(* task after the other; cleanup by whoever keeps the directory.           *)
(*                                                                         *)
(* A log id is the number of the make_log_id that made it, in its session; *)
(* that two ids never agree (clock and random suffix) is left out.         *)
(*                                                                         *)
(* EntryKept, DumpUnlessEmpty, ExpiredInSeconds and UnlinkLast are faults  *)
(* that the properties find.                                               *)
(***************************************************************************)
EXTENDS Integers, Sequences, SequencesExt

CONSTANTS
    Sessions, \* sessions, each with its thread and its LogStore
    NTasks,   \* the tasks of each session's plan
    Window,   \* the 49 days of the comment at cleanup, in seconds
    MaxIds,   \* bound: the log ids of a session
    MaxTime   \* bound: the clock stops here

Cleaner == "cleanup"
Actors == Sessions \cup {Cleaner}

\* max_age counts milliseconds, the clock seconds.
MaxAge == 1000 * Window

ASSUME LogStoreAssumption ==
    /\ Cleaner \notin Sessions
    /\ NTasks \in Nat \ {0} /\ Window \in Nat \ {0}
    /\ MaxIds \in Nat /\ MaxTime \in Nat

VARIABLES
    now,       \* time()
    file,      \* the index file: whether it can be read
    index,     \* what it says, when it can
    logs,      \* the log files there are: <<session, id>>
    pc,        \* pc[a]: where a's call stands
    copy,      \* copy[a]: log_content, or sessions in cleanup
    doomed,    \* to_delete: the sessions whose files cleanup has still to unlink
    made,      \* made[s]: how many ids s has made
    todo,      \* todo[s]: how many tasks of the plan are to be hydrated
    lastAt,    \* history: the timestamp of the last register of s
    overlapped \* history: two calls have run at the same time

disk == <<file, index, logs>>
vars == <<now, disk, pc, copy, doomed, made, todo, lastAt, overlapped>>

Data == [timestamp : Nat, list : Seq(1..MaxIds)]
IsIndex(f) == DOMAIN f \subseteq Sessions /\ f \in [DOMAIN f -> Data]
NoSessions == [s \in {} |-> 0]

\* What json.load cannot read: nothing, or one dump on top of another.
Broken == {"empty", "garbled"}

Places == {"idle", "load", "open", "dump", "backend", "unlink", "crashed"}

TypeOK ==
    /\ now \in Nat
    /\ file \in {"absent", "json"} \cup Broken
    /\ IsIndex(index)
    /\ logs \subseteq Sessions \X (1..MaxIds)
    /\ pc \in [Actors -> Places]
    /\ DOMAIN copy = Actors /\ \A a \in Actors : IsIndex(copy[a])
    /\ doomed \subseteq Sessions
    /\ made \in [Sessions -> 0..MaxIds]
    /\ todo \in [Sessions -> 0..NTasks]
    /\ lastAt \in [Sessions -> Nat]
    /\ overlapped \in BOOLEAN

Init ==
    /\ now = 0
    /\ file = "absent" /\ index = NoSessions /\ logs = {}
    /\ pc = [a \in Actors |-> "idle"]
    /\ copy = [a \in Actors |-> NoSessions]
    /\ doomed = {}
    /\ made = [s \in Sessions |-> 0] /\ todo = [s \in Sessions |-> 0]
    /\ lastAt = [s \in Sessions |-> 0]
    /\ overlapped = FALSE

Goto(a, at) == pc' = [pc EXCEPT ![a] = at]

Busy(a) == pc[a] \notin {"idle", "crashed"}

\* A call begins.
Begin(a, at) ==
    /\ pc[a] = "idle"
    /\ Goto(a, at)
    /\ overlapped' = (overlapped \/ \E b \in Actors : Busy(b))

-----------------------------------------------------------------------------
(***************************************************************************)
(* execute_plan: hydrate the tasks of a plan.                              *)
(***************************************************************************)
Execute(s) ==
    /\ made[s] + NTasks <= MaxIds
    /\ Begin(s, "load")
    /\ todo' = [todo EXCEPT ![s] = NTasks]
    /\ UNCHANGED <<now, disk, copy, doomed, made, lastAt>>

EntryKept(s) ==
    IF s \in DOMAIN index THEN index[s] ELSE [timestamp |-> now, list |-> <<made[s] + 1>>]

\* The entry that register writes for its session.  The index has the session's
\* name for a key, the session_id is an object that equals nothing but itself:
\* the old entry is not found, and the new one takes its place in the dump.
Entry(s) == [timestamp |-> now, list |-> <<made[s] + 1>>]

Loaded(s) == [x \in DOMAIN index \cup {s} |-> IF x = s THEN Entry(s) ELSE index[x]]

\* _get_name: a name that the session has not had.
GetName(s) == made' = [made EXCEPT ![s] = @ + 1]

\* register as far as the new content; an index that cannot be read makes it
\* raise, and execute with it.
Load(s) ==
    /\ pc[s] = "load"
    /\ GetName(s)
    /\ IF file \in Broken
       THEN /\ Goto(s, "idle")
            /\ todo' = [todo EXCEPT ![s] = 0]
            /\ UNCHANGED copy
       ELSE /\ copy' = [copy EXCEPT ![s] = Loaded(s)]
            /\ Goto(s, "open")
            /\ UNCHANGED todo
    /\ UNCHANGED <<now, disk, doomed, lastAt, overlapped>>

\* open(index_path, "w") empties the file.
Open(a) ==
    /\ pc[a] = "open"
    /\ file' = "empty" /\ index' = NoSessions
    /\ Goto(a, "dump")
    /\ UNCHANGED <<now, logs, copy, doomed, made, todo, lastAt, overlapped>>

DumpUnlessEmpty(a) ==
    IF copy[a] = NoSessions
    THEN UNCHANGED <<file, index>>
    ELSE file' = "json" /\ index' = copy[a]

\* json.dump and the close of the file.  What another call has dumped since the
\* open stays behind it, when that was longer.
Dump(a) ==
    \/ file' = "json" /\ index' = copy[a]
    \/ file # "empty" /\ file' = "garbled" /\ index' = NoSessions

Dumped(a) ==
    /\ pc[a] = "dump"
    /\ Dump(a)
    /\ IF a = Cleaner
       THEN Goto(a, "idle") /\ UNCHANGED lastAt
       ELSE Goto(a, "backend") /\ lastAt' = [lastAt EXCEPT ![a] = copy[a][a].timestamp]
    /\ copy' = [copy EXCEPT ![a] = NoSessions]
    /\ UNCHANGED <<now, logs, doomed, made, todo, overlapped>>

\* The rest of the hydration: the runner of a task with a FileBackend creates
\* the task's file.
MakeRunner(s) ==
    /\ pc[s] = "backend"
    /\ \/ logs' = logs \cup {<<s, made[s]>>}
       \/ UNCHANGED logs
    /\ todo' = [todo EXCEPT ![s] = @ - 1]
    /\ Goto(s, IF todo[s] = 1 THEN "idle" ELSE "load")
    /\ UNCHANGED <<now, file, index, copy, doomed, made, lastAt, overlapped>>

-----------------------------------------------------------------------------
(***************************************************************************)
(* cleanup.                                                                *)
(***************************************************************************)
ExpiredInSeconds(s) == now - index[s].timestamp > Window
Expired(s) == now - index[s].timestamp > MaxAge

\* Without an index there is nothing to do, a broken one raises.
Cleanup ==
    /\ file = "json"
    /\ Begin(Cleaner, "unlink")
    /\ doomed' = {s \in DOMAIN index : Expired(s)}
    /\ copy' = [copy EXCEPT ![Cleaner] = Restrict(index, {s \in DOMAIN index : ~Expired(s)})]
    /\ UNCHANGED <<now, disk, made, todo, lastAt>>

UnlinkLast(s) == logs' = logs \ {<<s, made[s]>>}

\* All files of the session: the glob takes the session's name.
Unlink(s) == logs' = {l \in logs : l[1] # s}

UnlinkOne ==
    /\ pc[Cleaner] = "unlink"
    /\ \E s \in doomed : Unlink(s) /\ doomed' = doomed \ {s}
    /\ UNCHANGED <<now, file, index, pc, copy, made, todo, lastAt, overlapped>>

Unlinked ==
    /\ pc[Cleaner] = "unlink" /\ doomed = {}
    /\ Goto(Cleaner, "open")
    /\ UNCHANGED <<now, disk, copy, doomed, made, todo, lastAt, overlapped>>

-----------------------------------------------------------------------------
\* The process is killed in the middle of a call.
Crash(a) ==
    /\ Busy(a)
    /\ Goto(a, "crashed")
    /\ copy' = [copy EXCEPT ![a] = NoSessions]
    /\ UNCHANGED <<now, disk, doomed, made, todo, lastAt, overlapped>>

\* The clock moves in steps of max_age: one step does not expire an entry, two do.
Tick ==
    /\ now + MaxAge <= MaxTime /\ now' = now + MaxAge
    /\ UNCHANGED <<disk, pc, copy, doomed, made, todo, lastAt, overlapped>>

Register(s) == Execute(s) \/ Load(s) \/ MakeRunner(s)

Next ==
    \/ \E s \in Sessions : Register(s)
    \/ Cleanup \/ UnlinkOne \/ Unlinked
    \/ \E a \in Actors : Open(a) \/ Dumped(a) \/ Crash(a)
    \/ Tick

Spec == Init /\ [][Next]_vars

-----------------------------------------------------------------------------
\* The index can be read, except in the middle of a call, unless a call was
\* killed or two calls have overlapped: then it may stay broken, and every
\* register from then on raises.
IndexReadable ==
    file \in Broken => overlapped \/ \E a \in Actors : pc[a] \in {"dump", "crashed"}

\* Between calls that never overlap the index names each session with its last
\* task, although the entry is made anew by every register.
LastIsListed ==
    ~overlapped /\ file = "json" /\ (\A a \in Actors : pc[a] = "idle") =>
        \A s \in DOMAIN index : index[s].list = <<made[s]>>

\* cleanup unlinks no file of a session that has registered a task within
\* max_age, when it runs by itself.
OnlyOldDeleted ==
    [][~overlapped => \A l \in logs \ logs' : now - lastAt[l[1]] > MaxAge]_vars

\* Every log file belongs to a session in the index: otherwise no cleanup would
\* ever delete it.
LogsReachable ==
    ~overlapped /\ file = "json" => \A l \in logs : l[1] \in DOMAIN index

=============================================================================

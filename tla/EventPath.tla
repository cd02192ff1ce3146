------------------------------ MODULE EventPath ------------------------------
(***************************************************************************)
(* The way of a task's output from its process to the client: the pipe,    *)
(* the thread that reads it (workers/subprocess_manager.py, _poll_stdout), *)
(* the heartbeat that watches it (buses/heartbeat.py), the bus that        *)
(* numbers events (buses/mini_bus.py), and the stream writer that calls    *)
(* the sinks (info_stream/stream_writer.py).                               *)
(*                                                                         *)
(* The reader and the heartbeat thread both emit, and nothing locks bus,   *)
(* writer or sinks.  As in CircuitBreaker a step ends at a call.           *)
(*                                                                         *)
(* EndOfProcess, BeatUnreset, WakeUncounted and SkipSink are faults that   *)
(* the properties find.                                                    *)
(***************************************************************************)
EXTENDS Integers, Sequences, SequencesExt

CONSTANTS
    NSinks,       \* how many global sinks the writer has
    Threshold,    \* HeartbeatConfig.threshold, in ticks
    MaxThreshold, \* HeartbeatConfig.max_threshold
    MaxAttempts,  \* HeartbeatConfig.max_attempts
    Fails,        \* what may raise: a "sink" of the client, the "decode" of a line
    MaxLines,     \* bound: the lines a process prints
    PipeSize,     \* the lines a pipe holds
    MaxQuiet      \* bound: silence is not measured beyond this

Sinks == 1..NSinks
Emitters == {"reader", "heartbeat"}

ASSUME EventPathAssumption ==
    /\ NSinks \in Nat /\ MaxLines \in Nat /\ PipeSize \in Nat \ {0}
    /\ Threshold \in Nat /\ MaxThreshold \in Nat /\ MaxAttempts \in Nat \ {0}
    /\ Fails \subseteq {"sink", "decode"}
    \* silence is measured as far as the longest row of sleeps
    /\ MaxQuiet \in Nat
    /\ 2 * MaxQuiet >= Threshold * (MaxAttempts * (MaxAttempts - 1))

VARIABLES
    proc,     \* the process
    written,  \* how many lines it has printed; the n-th line is the number n
    pipe,     \* the lines that nobody has read
    pc,       \* pc[a]: where the thread a stands
    line,     \* the line the reader has in hand
    attempts, \* _attempts
    wake,     \* what is left of the heartbeat's sleep
    quiet,    \* history: the time since the last beat
    lastSeen, \* _last_seen_sequences: a counter for each source object
    event,    \* event[a]: the event that a emits
    next,     \* next[a]: the sink that a calls next
    out       \* out[s]: the events that sink s has been called with

process == <<proc, written>>
beats == <<attempts, wake, quiet>>
bus == <<lastSeen, event, next, out>>
vars == <<process, pipe, pc, line, beats, bus>>

\* A line is a number from 1 on; the event of the heartbeat is 0.
Timeout == 0

Events == [msg : {Timeout} \cup (1..MaxLines), sequence : Nat, source : Nat]
NoEvent == [msg |-> Timeout, sequence |-> 0, source |-> 0]

Emitting == {"emit", "sinks"}

TypeOK ==
    /\ proc \in {"running", "exited"}
    /\ written \in 0..MaxLines
    /\ pipe \in Seq(1..MaxLines) /\ Len(pipe) <= PipeSize
    /\ pc \in [Emitters -> {"read", "beat", "test", "asleep", "ended", "died"} \cup Emitting]
    /\ pc["reader"] \notin {"test", "asleep"}
    /\ pc["heartbeat"] \notin {"read", "beat"}
    /\ line \in 0..MaxLines
    /\ attempts \in 0..MaxAttempts
    /\ wake \in Nat
    /\ quiet \in 0..MaxQuiet
    /\ lastSeen \in Seq(Nat)
    /\ event \in [Emitters -> Events]
    /\ next \in [Emitters -> 1..NSinks + 1]
    /\ out \in [Sinks -> Seq(Events)]

\* _start and the constructor of Heartbeat: process and threads run.
Init ==
    /\ proc = "running" /\ written = 0 /\ pipe = <<>>
    /\ pc = [a \in Emitters |-> IF a = "reader" THEN "read" ELSE "test"]
    /\ line = 0
    /\ attempts = 0 /\ wake = 0 /\ quiet = 0
    /\ lastSeen = <<>>
    /\ event = [a \in Emitters |-> NoEvent]
    /\ next = [a \in Emitters |-> 1]
    /\ out = [s \in Sinks |-> <<>>]

Goto(a, at) == pc' = [pc EXCEPT ![a] = at]

-----------------------------------------------------------------------------
(***************************************************************************)
(* The process.  It blocks when the pipe is full, and may end, or be       *)
(* terminated, at any time.                                                *)
(***************************************************************************)
PrintLine ==
    /\ proc = "running" /\ written < MaxLines /\ Len(pipe) < PipeSize
    /\ written' = written + 1
    /\ pipe' = Append(pipe, written + 1)
    /\ UNCHANGED <<proc, pc, line, beats, bus>>

Exit ==
    /\ proc = "running"
    /\ proc' = "exited"
    /\ UNCHANGED <<written, pipe, pc, line, beats, bus>>

-----------------------------------------------------------------------------
(***************************************************************************)
(* The reader.                                                             *)
(***************************************************************************)
ReadLine ==
    /\ pc["reader"] = "read" /\ pipe # <<>>
    /\ line' = Head(pipe)
    /\ pipe' = Tail(pipe)
    /\ Goto("reader", "beat")
    /\ UNCHANGED <<process, beats, bus>>

EndOfProcess ==
    /\ pc["reader"] = "read" /\ proc = "exited"
    /\ Goto("reader", "ended")
    /\ UNCHANGED <<process, pipe, line, beats, bus>>

\* The line is not text in the encoding of the pipe: the thread dies.
Undecodable ==
    /\ "decode" \in Fails
    /\ pc["reader"] = "read" /\ pipe # <<>>
    /\ Goto("reader", "died")
    /\ UNCHANGED <<process, pipe, line, beats, bus>>

EndOfOutput ==
    /\ pc["reader"] = "read" /\ pipe = <<>> /\ proc = "exited"
    /\ Goto("reader", "ended")
    /\ UNCHANGED <<process, pipe, line, beats, bus>>

BeatUnreset == attempts' = attempts /\ quiet' = 0

\* beat: the line is activity.
BeatReset == attempts' = 0 /\ quiet' = 0

Beat ==
    /\ pc["reader"] = "beat"
    /\ BeatReset
    /\ Goto("reader", "emit")
    /\ UNCHANGED <<process, pipe, line, wake, bus>>

-----------------------------------------------------------------------------
(***************************************************************************)
(* The heartbeat thread.                                                   *)
(***************************************************************************)
Delay == Threshold * attempts

\* Sleep for longer and longer, until there were too many attempts or the sleep
\* would be too long; then report.
Test ==
    /\ pc["heartbeat"] = "test"
    /\ IF attempts < MaxAttempts /\ Delay < MaxThreshold
       THEN wake' = Delay /\ Goto("heartbeat", "asleep")
       ELSE UNCHANGED wake /\ Goto("heartbeat", "emit")
    /\ UNCHANGED <<process, pipe, line, attempts, quiet, bus>>

WakeUncounted ==
    /\ pc["heartbeat"] = "asleep" /\ wake = 0
    /\ Goto("heartbeat", "test")
    /\ UNCHANGED <<process, pipe, line, attempts, wake, quiet, bus>>

WakeUp ==
    /\ pc["heartbeat"] = "asleep" /\ wake = 0
    /\ attempts' = attempts + 1
    /\ Goto("heartbeat", "test")
    /\ UNCHANGED <<process, pipe, line, wake, quiet, bus>>

Tick ==
    /\ quiet' = IF quiet < MaxQuiet THEN quiet + 1 ELSE quiet
    /\ wake' = IF wake > 0 THEN wake - 1 ELSE wake
    /\ UNCHANGED <<process, pipe, pc, line, attempts, bus>>

-----------------------------------------------------------------------------
(***************************************************************************)
(* MiniBus.emit and StreamWriter._on_event, by either thread.              *)
(***************************************************************************)
\* Every event carries a TaskId of its own, and TaskIds compare by identity: the
\* source is never one that the bus has seen.
Source == Len(lastSeen) + 1

\* emit: the counter of the source is made, or found, and gives the number.
Emit(a) ==
    LET count == IF Source \in DOMAIN lastSeen THEN lastSeen[Source] + 1 ELSE 1
    IN  /\ pc[a] = "emit"
        /\ lastSeen' = IF Source \in DOMAIN lastSeen
                       THEN [lastSeen EXCEPT ![Source] = count]
                       ELSE Append(lastSeen, count)
        /\ event' = [event EXCEPT ![a] =
                       [msg |-> IF a = "reader" THEN line ELSE Timeout,
                        sequence |-> count, source |-> Source]]
        /\ next' = [next EXCEPT ![a] = 1]
        /\ Goto(a, "sinks")
        /\ UNCHANGED <<process, pipe, line, beats, out>>

SkipSink(a) ==
    /\ out' = [out EXCEPT ![next[a]] = Append(@, event[a])]
    /\ next' = [next EXCEPT ![a] = @ + 2]

\* One sink is called and returns.  No event is persisted on the way: that needs
\* a scoped sink under the very TaskId of the event.
CallSink(a) ==
    /\ out' = [out EXCEPT ![next[a]] = Append(@, event[a])]
    /\ next' = [next EXCEPT ![a] = @ + 1]

Deliver(a) ==
    /\ pc[a] = "sinks" /\ next[a] <= NSinks
    /\ CallSink(a)
    /\ UNCHANGED <<process, pipe, pc, line, beats, lastSeen, event>>

\* A sink raises: nobody catches it, and the thread dies.
SinkFails(a) ==
    /\ "sink" \in Fails
    /\ pc[a] = "sinks" /\ next[a] <= NSinks
    /\ out' = [out EXCEPT ![next[a]] = Append(@, event[a])]
    /\ Goto(a, "died")
    /\ UNCHANGED <<process, pipe, line, beats, lastSeen, event, next>>

\* emit counts once more behind the sinks.  The reader reads on, the heartbeat
\* thread ends: it reports once and never watches again.
Emitted(a) ==
    /\ pc[a] = "sinks" /\ next[a] > NSinks
    /\ lastSeen' = [lastSeen EXCEPT ![event[a].source] = @ + 1]
    /\ Goto(a, IF a = "reader" THEN "read" ELSE "ended")
    /\ UNCHANGED <<process, pipe, line, beats, event, next, out>>

Publish(a) == Emit(a) \/ Deliver(a) \/ SinkFails(a) \/ Emitted(a)

-----------------------------------------------------------------------------
Reader == ReadLine \/ Undecodable \/ EndOfOutput \/ Beat \/ Publish("reader")

Heartbeat == Test \/ WakeUp \/ Publish("heartbeat")

Next == PrintLine \/ Exit \/ Reader \/ Heartbeat \/ Tick

Spec == Init /\ [][Next]_vars

\* Both threads run and time passes; no process has to print or to end.
FairSpec == Spec /\ WF_vars(Reader) /\ WF_vars(Heartbeat) /\ WF_vars(Tick)

-----------------------------------------------------------------------------
IsLine(e) == e.msg # Timeout

\* The lines that sink s has been called with.
Seen(s) == {out[s][i].msg : i \in DOMAIN out[s]} \ {Timeout}

InTurn(s) ==
    \A i, j \in DOMAIN out[s] :
        i < j /\ IsLine(out[s][i]) /\ IsLine(out[s][j]) => out[s][i].msg < out[s][j].msg

\* The reader has a line in hand that sink s has not been called with.
Held(s) ==
    \/ pc["reader"] \in {"beat", "emit"}
    \/ pc["reader"] = "sinks" /\ next["reader"] <= s

InHand(s) == IF Held(s) THEN <<line>> ELSE <<>>

\* Each sink sees the lines in the order they were printed, none twice and none
\* left out, and what it has not seen is on its way; a sink that raises ends the
\* reader and cuts off what is behind, for it and for the sinks after it.
StreamWhole ==
    \A s \in Sinks :
        /\ InTurn(s)
        /\ \E n \in 0..written :
            /\ Seen(s) = 1..n
            /\ pc["reader"] # "died" =>
                InHand(s) \o pipe = [i \in 1..(written - n) |-> n + i]

\* Twice the time that k sleeps take, when no beat comes between: the sum of
\* Threshold * j over j < k.
TwiceSlept(k) == Threshold * (k * (k - 1))

\* The heartbeat thread calls a task silent only when no line has come to it for
\* as long as all its sleeps together, however beats and sleeps interleave.
TimeoutAfterSilence ==
    [][pc["heartbeat"] = "test" /\ pc'["heartbeat"] = "emit" =>
        \E k \in 1..MaxAttempts :
            /\ k = MaxAttempts \/ Threshold * k >= MaxThreshold
            /\ 2 * quiet >= TwiceSlept(k)]_vars

\* Everything printed reaches every sink, unless something has killed the reader.
EverythingArrives ==
    \A n \in 1..MaxLines, s \in Sinks :
        written >= n ~> pc["reader"] = "died" \/ \E i \in DOMAIN out[s] : out[s][i].msg = n

\* The heartbeat thread does not outlive the reader for ever: a task without
\* output, which may have ended long ago, is reported silent.
SilenceReported ==
    pc["reader"] \in {"ended", "died"} ~> pc["heartbeat"] \in {"ended", "died"}

=============================================================================

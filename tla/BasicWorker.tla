---------------------------- MODULE BasicWorker ----------------------------
(***************************************************************************)
(* BasicWorker: a process of its own that runs a command (run), with a     *)
(* thread that cuts the command's output into lines                        *)
(* (read_subprocess_output), and the terminate() of its parent.  What both *)
(* report goes through print_queue, whose put() leaves an event to a       *)
(* feeder thread of the putting process; the feeders share a lock.         *)
(*                                                                         *)
(* A character is "x", or "nl" for all that ends a line: the text layer of *)
(* the pipe has made one of \r and \r\n.  An event of a line holds the     *)
(* positions of its first and last character in the output.                *)
(*                                                                         *)
(* JoinNobody, WaitUnheeded and KillNobody are faults that the properties  *)
(* find.                                                                   *)
(***************************************************************************)
EXTENDS Naturals, Sequences

CONSTANTS
    Chunk,    \* how many characters one read() waits for: 256
    PipeSize, \* how many the pipe holds before the command blocks in a write
    MaxText   \* bound: how many characters the command prints

ASSUME BasicWorkerAssumption == Chunk \in Nat \ {0} /\ PipeSize \in Nat /\ MaxText \in Nat

VARIABLES
    sp,        \* the command: before Popen, running, or how it exited
    signalled, \* sp.terminate() has been called
    printed,   \* what the command has printed
    taken,     \* how many characters of it have been read
    reader,    \* the thread of read_subprocess_output
    lines,     \* the lines of its chunk that it has not put yet
    main,      \* where run() stands
    outcome,   \* success_event, or failure_event, is set
    exit,      \* "EXIT" is in the connection
    alive,     \* the worker's process is
    call,      \* where terminate() stands in the parent
    feed,      \* events that the worker's feeder has not sent
    lock,      \* the feeder of the worker holds the lock of the queue
    told,      \* the parent's event, not sent yet
    delivered  \* what has come through the queue

process == <<sp, signalled, printed>>
reading == <<taken, reader, lines>>
running == <<main, outcome>>
parent == <<exit, call, told>>
queue == <<feed, lock, delivered>>
vars == <<process, reading, running, alive, parent, queue>>

Line(i, j) == <<"line", i, j>>
Said(what) == <<what, 0, 0>>
Events == ({"line"} \X (1..MaxText) \X (1..MaxText))
            \cup {Said(what) : what \in {"about to kill", "terminated", "exception", "forcefully"}}

TypeOK ==
    /\ sp \in {"none", "running", "ok", "failed"} /\ signalled \in BOOLEAN
    /\ printed \in Seq({"x", "nl"}) /\ Len(printed) <= MaxText
    /\ taken \in 0..Len(printed)
    /\ reader \in {"none", "reading", "done", "dead"}
    /\ lines \subseteq {"line"} \X (1..MaxText) \X (1..MaxText)
    /\ main \in {"popen", "loop", "kill", "wait", "join", "last", "ended"}
    /\ outcome \in {"none", "ok", "failed"}
    /\ exit \in BOOLEAN /\ alive \in BOOLEAN
    /\ call \in {"idle", "join", "kill", "returned", "raised"}
    /\ feed \in Seq(Events) /\ lock \in BOOLEAN
    /\ told \in BOOLEAN
    /\ delivered \in Seq(Events)

\* The worker's process has been started.
Init ==
    /\ sp = "none" /\ signalled = FALSE /\ printed = <<>>
    /\ taken = 0 /\ reader = "none" /\ lines = {}
    /\ main = "popen" /\ outcome = "none"
    /\ exit = FALSE /\ alive = TRUE /\ call = "idle"
    /\ feed = <<>> /\ lock = FALSE /\ told = FALSE /\ delivered = <<>>

Exited == sp \in {"ok", "failed"}

-----------------------------------------------------------------------------
(***************************************************************************)
(* The command.  It may ignore a SIGTERM, and it outlives a worker that is *)
(* killed.                                                                 *)
(***************************************************************************)
Write(c) ==
    /\ sp = "running" /\ Len(printed) < MaxText /\ Len(printed) - taken < PipeSize
    /\ printed' = Append(printed, c)
    /\ UNCHANGED <<sp, signalled, reading, running, alive, parent, queue>>

Exit ==
    /\ sp = "running"
    /\ sp' \in {"ok", "failed"}
    /\ UNCHANGED <<signalled, printed, reading, running, alive, parent, queue>>

-----------------------------------------------------------------------------
(***************************************************************************)
(* run.                                                                    *)
(***************************************************************************)
Put(event) == feed' = Append(feed, event) /\ UNCHANGED <<lock, delivered>>

\* Popen raises: one event says so, and no outcome is set.
Popen ==
    /\ alive /\ main = "popen"
    /\ \/ /\ sp' = "running" /\ reader' = "reading" /\ main' = "loop"
          /\ UNCHANGED queue
       \/ /\ Put(Said("exception")) /\ main' = "ended"
          /\ UNCHANGED <<sp, reader>>
    /\ UNCHANGED <<signalled, printed, taken, lines, outcome, alive, parent>>

\* The loop ends with the command, or with an "EXIT" while the command runs.
Poll ==
    /\ alive /\ main = "loop"
    /\ Exited \/ exit
    /\ main' = "kill"
    /\ exit' = (Exited /\ exit)
    /\ UNCHANGED <<process, reading, outcome, alive, call, told, queue>>

\* The event is put even when the command has ended by itself.
Terminate ==
    /\ alive /\ main = "kill"
    /\ Put(Said("about to kill"))
    /\ signalled' = TRUE
    /\ main' = "wait"
    /\ UNCHANGED <<sp, printed, reading, outcome, alive, parent>>

WaitUnheeded ==
    /\ alive /\ main = "wait"
    /\ outcome' = (IF sp = "ok" THEN "ok" ELSE "failed")
    /\ main' = "join"
    /\ UNCHANGED <<process, reading, alive, parent, queue>>

Wait ==
    /\ alive /\ main = "wait" /\ Exited
    /\ outcome' = (IF sp = "ok" THEN "ok" ELSE "failed")
    /\ main' = "join"
    /\ UNCHANGED <<process, reading, alive, parent, queue>>

JoinNobody ==
    /\ alive /\ main = "join"
    /\ main' = "last"
    /\ UNCHANGED <<process, reading, outcome, alive, parent, queue>>

Join ==
    /\ alive /\ main = "join" /\ reader \in {"done", "dead"}
    /\ main' = "last"
    /\ UNCHANGED <<process, reading, outcome, alive, parent, queue>>

Conclude ==
    /\ alive /\ main = "last"
    /\ Put(Said("terminated"))
    /\ main' = "ended"
    /\ UNCHANGED <<process, reading, outcome, alive, parent>>

\* The process ends when its feeder has sent everything.
Leave ==
    /\ alive /\ main = "ended" /\ feed = <<>>
    /\ alive' = FALSE
    /\ UNCHANGED <<process, reading, running, parent, queue>>

-----------------------------------------------------------------------------
(***************************************************************************)
(* read_subprocess_output.                                                 *)
(***************************************************************************)

\* The pieces between the line ends of printed[from..to], the blank ones left out.
Pieces(from, to) ==
    {e \in {"line"} \X (from..to) \X (from..to) :
        /\ e[2] <= e[3]
        /\ \A p \in e[2]..e[3] : printed[p] = "x"
        /\ e[2] = from \/ printed[e[2] - 1] = "nl"
        /\ e[3] = to \/ printed[e[3] + 1] = "nl"}

\* read(n) waits for n characters or the end of the output.  The buffer is
\* emptied behind each chunk, so that the line at its end is not kept open.
ReadChunk ==
    LET rest == Len(printed) - taken
        n == IF rest < Chunk THEN rest ELSE Chunk
    IN  /\ alive /\ reader = "reading" /\ lines = {}
        /\ n = Chunk \/ (Exited /\ n > 0)
        /\ lines' = Pieces(taken + 1, taken + n)
        /\ taken' = taken + n
        /\ UNCHANGED <<process, reader, running, alive, parent, queue>>

PutLine ==
    /\ alive /\ reader = "reading"
    /\ \E e \in lines :
        /\ \A f \in lines : e[2] <= f[2]
        /\ Put(e)
        /\ lines' = lines \ {e}
    /\ UNCHANGED <<process, taken, reader, running, alive, parent>>

EndOfOutput ==
    /\ alive /\ reader = "reading" /\ lines = {}
    /\ Exited /\ taken = Len(printed)
    /\ reader' = "done"
    /\ UNCHANGED <<process, taken, lines, running, alive, parent, queue>>

\* Output that is not text: the exception ends the thread, and nobody reads on.
Undecodable ==
    /\ alive /\ reader = "reading" /\ lines = {} /\ taken < Len(printed)
    /\ reader' = "dead"
    /\ UNCHANGED <<process, taken, lines, running, alive, parent, queue>>

-----------------------------------------------------------------------------
(***************************************************************************)
(* The feeders of the queue.                                               *)
(***************************************************************************)
Acquire ==
    /\ alive /\ feed # <<>> /\ ~lock
    /\ lock' = TRUE
    /\ UNCHANGED <<process, reading, running, alive, parent, feed, delivered>>

Send ==
    /\ alive /\ feed # <<>> /\ lock
    /\ delivered' = Append(delivered, Head(feed))
    /\ feed' = Tail(feed)
    /\ lock' = FALSE
    /\ UNCHANGED <<process, reading, running, alive, parent>>

\* The parent's event waits for the lock, which a killed worker never gives back.
SendTold ==
    /\ told /\ ~lock
    /\ delivered' = Append(delivered, Said("forcefully"))
    /\ told' = FALSE
    /\ UNCHANGED <<process, reading, running, alive, exit, call, feed, lock>>

-----------------------------------------------------------------------------
(***************************************************************************)
(* terminate, called by the parent.                                        *)
(***************************************************************************)

\* The second call finds the connection closed: send raises.
Call ==
    /\ \/ call = "idle" /\ call' = "join" /\ exit' = TRUE
       \/ call = "returned" /\ call' = "raised" /\ UNCHANGED exit
    /\ UNCHANGED <<process, reading, running, alive, told, queue>>

\* join(timeout = 5), and is_alive(): the timeout may pass at any moment.
Joined ==
    /\ call = "join"
    /\ call' = IF alive THEN "kill" ELSE "returned"
    /\ UNCHANGED <<process, reading, running, alive, exit, told, queue>>

KillNobody ==
    /\ call = "kill"
    /\ told' = TRUE
    /\ call' = "returned"
    /\ UNCHANGED <<process, reading, running, alive, exit, queue>>

\* super().terminate() kills the worker where it stands.
Kill ==
    /\ call = "kill"
    /\ alive' = FALSE
    /\ told' = TRUE
    /\ call' = "returned"
    /\ UNCHANGED <<process, reading, running, exit, queue>>

-----------------------------------------------------------------------------
Run == Popen \/ Poll \/ Terminate \/ Wait \/ Join \/ Conclude \/ Leave
Reader == ReadChunk \/ PutLine \/ EndOfOutput \/ Undecodable
Feeder == Acquire \/ Send
Command == Exit \/ \E c \in {"x", "nl"} : Write(c)

Next == Run \/ Reader \/ Feeder \/ SendTold \/ Command \/ Call \/ Joined \/ Kill

Spec == Init /\ [][Next]_vars

\* The threads of both processes run, and terminate() goes on; the command owes
\* nothing, and the client need not call.
Fairness ==
    /\ WF_vars(Run) /\ WF_vars(Reader) /\ WF_vars(Feeder)
    /\ WF_vars(SendTold) /\ WF_vars(Joined \/ Kill)

FairSpec == Spec /\ Fairness

-----------------------------------------------------------------------------
IsLine(k) == delivered[k][1] = "line"

\* Lines arrive in order, no character twice, and are cut only where they end or
\* at the end of a chunk; and when "terminated" arrives, with a reader that was
\* not ended by an exception, all the text has arrived before it.
TextWhole ==
    /\ \A k, l \in DOMAIN delivered :
        k < l /\ IsLine(k) /\ IsLine(l) => delivered[k][3] < delivered[l][2]
    /\ \A k \in DOMAIN delivered : IsLine(k) =>
        LET i == delivered[k][2] IN i = 1 \/ printed[i - 1] = "nl" \/ (i - 1) % Chunk = 0
    /\ \A k \in DOMAIN delivered : delivered[k] = Said("terminated") /\ reader # "dead" =>
        \A p \in DOMAIN printed : printed[p] = "x" =>
            \E l \in 1..k : IsLine(l) /\ delivered[l][2] <= p /\ p <= delivered[l][3]

\* A worker that is gone and was not killed on its way has left no command
\* running, and has set the event for its exit code, if there was a command.
LeavesNothingBehind ==
    ~alive /\ main = "ended" => sp = outcome

\* terminate() ends the worker and returns, even from a command that ignores
\* SIGTERM.
TerminateEnds == call = "join" ~> ~alive /\ call \in {"returned", "raised"}

=============================================================================

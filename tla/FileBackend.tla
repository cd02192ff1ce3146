---------------------------- MODULE FileBackend ----------------------------
(***************************************************************************)
(* FileBackendRunner: the threads that write() a task's lines, the bounded *)
(* queue between them and the consumer thread, the rotated files, and the  *)
(* thread that close()s the runner.                                        *)
(*                                                                         *)
(* A line is the number of the put_nowait that accepted it; what the line  *)
(* says, and the marker put in front of a line of last resort, are left    *)
(* out.  The circuit breaker has the configuration LOCAL: one failure      *)
(* opens it, and it closes at the first call after the clock has moved on. *)
(*                                                                         *)
(* FirstOf, DrainedUnpilled, MarkForgotten, NextIndexShort and             *)
(* TaskForgotten are faults that the properties find.                      *)
(***************************************************************************)
EXTENDS Naturals, SequencesExt

CONSTANTS
    Writers,    \* the threads that call write
    Capacity,   \* maxsize of the queue
    MaxLines,   \* lines per file
    MaxFiles,   \* files in the rotation
    MinDrain,   \* _min_drain_threshold
    Keep,       \* how many messages _drain_last_messages keeps
    Fails,      \* what may raise: "open" and "write" of the disk, and "sink",
                \*   the error_sink
    MaxPuts     \* bound: how many lines are accepted

None == 0       \* the poison pill, and the text "None" it leaves in a file
Lines == 1..MaxPuts
Entries == Lines \cup {None}
Closer == "close"
Actors == Writers \cup {Closer}
Files == 1..MaxFiles

ASSUME FileBackendAssumption ==
    /\ IsFiniteSet(Writers) /\ Closer \notin Writers
    /\ Capacity \in Nat \ {0} /\ MaxLines \in Nat \ {0} /\ MaxFiles \in Nat \ {0}
    /\ MinDrain \in Nat /\ Keep \in Nat \ {0} /\ MaxPuts \in Nat
    /\ Fails \subseteq {"open", "write", "sink"}

VARIABLES
    queue,      \* _queue: lines and pills
    unfinished, \* _queue.unfinished_tasks: puts less task_done()s
    puts,       \* how many lines put_nowait has accepted
    died,       \* _thread_died
    stop,       \* _stop_event
    open,       \* circuit_breaker._open_since is set
    buffer,     \* buffer
    files,      \* files[i]: what is in file number i
    index,      \* file_index
    handle,     \* the file that self.handle writes, and whether it is open
    cons,       \* where the consumer thread stands
    hand,       \* the line it has taken from the queue
    pc,         \* pc[a]: where write, or close, stands in thread a
    kept,       \* kept[a]: last_messages of a drain by a, then what is left of
                \*   the buffer in its loop of _conclude_rotation
    clean,      \* close has taken the clean drain
    enders      \* history: how many times close or _cleanup has begun

sync == <<queue, unfinished, puts, died, stop, open>>
disk == <<buffer, files, index, handle>>
ending == <<clean, enders>>
vars == <<sync, disk, cons, hand, pc, kept, ending>>

Draining == {"drain", "pill", "join", "tail", "broken", "clear", "shut", "raised"}
WriterAt == {"idle", "put", "fatal"} \cup Draining
CloserAt == {"idle", "wait", "mark", "last", "closed"} \cup Draining

TypeOK ==
    /\ queue \in Seq(Entries) /\ Len(queue) <= Capacity
    /\ unfinished \in Nat
    /\ puts \in 0..MaxPuts
    /\ died \in BOOLEAN /\ stop \in BOOLEAN /\ open \in BOOLEAN /\ clean \in BOOLEAN
    /\ enders \in Nat
    /\ buffer \in Seq(Entries)
    /\ files \in [Files -> Seq(Entries)]
    /\ index \in Files
    /\ handle \in [file : Files, open : BOOLEAN]
    /\ cons \in {"top", "get", "append", "ended"}
    /\ hand \in Entries
    /\ pc \in [Actors -> WriterAt \cup CloserAt]
    /\ \A w \in Writers : pc[w] \in WriterAt
    /\ pc[Closer] \in CloserAt
    /\ kept \in [Actors -> Seq(Entries)]

\* _create_handle: number i, open and empty.
NewHandle(i) == [file |-> i, open |-> TRUE]

\* The constructor: file 1 is created, the consumer thread runs.
Init ==
    /\ queue = <<>> /\ unfinished = 0 /\ puts = 0
    /\ died = FALSE /\ stop = FALSE /\ open = FALSE
    /\ buffer = <<>>
    /\ files = [i \in Files |-> <<>>]
    /\ index = 1
    /\ handle = NewHandle(1)
    /\ cons = "top" /\ hand = None
    /\ pc = [a \in Actors |-> "idle"]
    /\ kept = [a \in Actors |-> <<>>]
    /\ clean = FALSE /\ enders = 0

-----------------------------------------------------------------------------
(***************************************************************************)
(* The queue.                                                              *)
(***************************************************************************)
Full == Len(queue) >= Capacity

Put(e) ==
    /\ queue' = Append(queue, e)
    /\ unfinished' = unfinished + 1

Goto(a, at) == pc' = [pc EXCEPT ![a] = at]

-----------------------------------------------------------------------------
(***************************************************************************)
(* write.                                                                  *)
(***************************************************************************)

\* error_sink raises in the handler of write, whose caller gets that exception.
SinkRaises(w) == "sink" \in Fails /\ Goto(w, "raised")

\* The BACKEND_OPEN event for a line that is dropped.
PropagateTransient(w) == UNCHANGED pc \/ SinkRaises(w)

\* write drops the line when the thread has died; otherwise the breaker is
\* asked.  While it is open the line is dropped too, with a BACKEND_OPEN event;
\* a fatal kind (THREAD_DIED here) opens it.
Write(w) ==
    /\ pc[w] = "idle" /\ puts + Cardinality({x \in Writers : pc[x] = "put"}) < MaxPuts
    /\ ~died
    /\ \/ open /\ PropagateTransient(w) /\ UNCHANGED open
       \/ open' = FALSE /\ Goto(w, "put")
    /\ UNCHANGED <<queue, unfinished, puts, died, stop, disk, cons, hand, kept, ending>>

\* _write: its own look at _thread_died, and put_nowait.
PutLine(w) ==
    /\ pc[w] = "put"
    /\ IF died \/ Full
       THEN /\ open' = TRUE
            /\ Goto(w, "fatal")
            /\ UNCHANGED <<queue, unfinished, puts>>
       ELSE /\ puts' = puts + 1
            /\ Put(puts + 1)
            /\ Goto(w, "idle")
            /\ UNCHANGED open
    /\ UNCHANGED <<died, stop, disk, cons, hand, kept, ending>>

\* The BACKEND_FAILURE event, then _cleanup from the writer's thread; when the
\* event raises nothing is cleaned up, and the runner goes on.
Cleanup(w) ==
    /\ pc[w] = "fatal"
    /\ \/ /\ died' = TRUE
          /\ kept' = [kept EXCEPT ![w] = <<>>]
          /\ enders' = enders + 1
          /\ Goto(w, "drain")
       \/ /\ SinkRaises(w)
          /\ UNCHANGED <<died, kept, enders>>
    /\ UNCHANGED <<queue, unfinished, puts, stop, open, disk, cons, hand, clean>>

-----------------------------------------------------------------------------
(***************************************************************************)
(* _drain_last_messages and _conclude_rotation, by a writer or the closer. *)
(***************************************************************************)
FirstOf(s) == IF Len(s) > Keep THEN Front(s) ELSE s
LastOf(s) == IF Len(s) > Keep THEN Tail(s) ELSE s

\* One get_nowait: the deque keeps the newest messages, pills among them, and
\* nothing is marked as done.
Drain(a) ==
    /\ pc[a] = "drain" /\ queue # <<>>
    /\ queue' = Tail(queue)
    /\ kept' = [kept EXCEPT ![a] = LastOf(Append(@, Head(queue)))]
    /\ UNCHANGED <<unfinished, puts, died, stop, open, disk, cons, hand, pc, ending>>

DrainedUnpilled(a) ==
    /\ pc[a] = "drain" /\ queue = <<>>
    /\ Goto(a, "join")
    /\ UNCHANGED <<sync, disk, cons, hand, kept, ending>>

Drained(a) ==
    /\ pc[a] = "drain" /\ queue = <<>>
    /\ Goto(a, "pill")
    /\ UNCHANGED <<sync, disk, cons, hand, kept, ending>>

\* put(None) blocks on a full queue.
Pill(a) ==
    /\ pc[a] = "pill" /\ ~Full
    /\ Put(None)
    /\ Goto(a, IF a = Closer THEN "mark" ELSE "join")
    /\ UNCHANGED <<puts, died, stop, open, disk, cons, hand, kept, ending>>

Done(a) == IF a = Closer THEN "closed" ELSE "idle"

\* A deque that changes under a loop over it makes that loop raise.
Mutate(a, at, new) ==
    /\ buffer' = new
    /\ pc' = [b \in Actors |-> IF b = a THEN at
                               ELSE IF pc[b] = "tail" /\ new # buffer THEN "broken"
                               ELSE pc[b]]

\* The consumer is joined and the last messages join the buffer.  After a clean
\* drain close returns here, and the buffer stays as it is.
Joined(a) ==
    /\ pc[a] = "join" /\ cons = "ended"
    /\ IF a = Closer /\ clean
       THEN Goto(a, "closed") /\ UNCHANGED <<buffer, kept>>
       ELSE /\ Mutate(a, "tail", buffer \o kept[a])
            /\ kept' = [kept EXCEPT ![a] = buffer']
    /\ UNCHANGED <<sync, files, index, handle, cons, hand, ending>>

\* The lines go to the handle that the last rotation left open.  A handle that
\* is closed raises ValueError, which nobody catches; an OSError is passed over.
WriteTail(a) ==
    /\ pc[a] = "tail"
    /\ \/ /\ handle.open /\ kept[a] # <<>>
          /\ files' = [files EXCEPT ![handle.file] = Append(@, Head(kept[a]))]
          /\ kept' = [kept EXCEPT ![a] = Tail(@)]
          /\ UNCHANGED pc
       \/ /\ handle.open /\ kept[a] = <<>>
          /\ Goto(a, "clear")
          /\ UNCHANGED <<files, kept>>
       \/ /\ handle.open /\ "write" \in Fails
          /\ Goto(a, Done(a))
          /\ UNCHANGED <<files, kept>>
       \/ /\ ~handle.open
          /\ Goto(a, "raised")
          /\ UNCHANGED <<files, kept>>
    /\ UNCHANGED <<sync, buffer, index, handle, cons, hand, ending>>

Break(a) ==
    /\ pc[a] = "broken"
    /\ Goto(a, "raised")
    /\ UNCHANGED <<sync, disk, cons, hand, kept, ending>>

Clear(a) ==
    /\ pc[a] = "clear"
    /\ Mutate(a, "shut", <<>>)
    /\ UNCHANGED <<sync, files, index, handle, cons, hand, kept, ending>>

Shut(a) ==
    /\ pc[a] = "shut"
    /\ handle' = [handle EXCEPT !.open = FALSE]
    /\ Goto(a, Done(a))
    /\ UNCHANGED <<sync, buffer, files, index, cons, hand, kept, ending>>

-----------------------------------------------------------------------------
(***************************************************************************)
(* close.                                                                  *)
(***************************************************************************)
CleanDrain == ~died /\ Len(queue) < MinDrain

Close ==
    /\ pc[Closer] = "idle"
    /\ clean' = CleanDrain
    /\ enders' = enders + 1
    /\ stop' = ~CleanDrain
    /\ Goto(Closer, IF CleanDrain THEN "wait" ELSE "drain")
    /\ UNCHANGED <<queue, unfinished, puts, died, open, disk, cons, hand, kept>>

\* queue.join() returns when every message has been marked as done.
Wait ==
    /\ pc[Closer] = "wait" /\ unfinished = 0
    /\ Goto(Closer, "mark")
    /\ UNCHANGED <<sync, disk, cons, hand, kept, ending>>

MarkForgotten ==
    /\ pc[Closer] = "mark"
    /\ Goto(Closer, "last")
    /\ UNCHANGED <<sync, disk, cons, hand, kept, ending>>

Mark ==
    /\ pc[Closer] = "mark"
    /\ died' = TRUE
    /\ Goto(Closer, "last")
    /\ UNCHANGED <<queue, unfinished, puts, stop, open, disk, cons, hand, kept, ending>>

LastPill ==
    /\ pc[Closer] = "last" /\ ~Full
    /\ Put(None)
    /\ Goto(Closer, "join")
    /\ UNCHANGED <<puts, died, stop, open, disk, cons, hand, kept, ending>>

-----------------------------------------------------------------------------
(***************************************************************************)
(* The consumer thread.                                                    *)
(***************************************************************************)
Loop ==
    /\ cons = "top"
    /\ cons' = IF stop THEN "ended" ELSE "get"
    /\ UNCHANGED <<sync, disk, hand, pc, kept, ending>>

\* queue.get(): the pill ends the thread, and stays unfinished.
Take ==
    /\ cons = "get" /\ queue # <<>>
    /\ queue' = Tail(queue)
    /\ IF Head(queue) = None
       THEN cons' = "ended" /\ UNCHANGED hand
       ELSE cons' = "append" /\ hand' = Head(queue)
    /\ UNCHANGED <<unfinished, puts, died, stop, open, disk, pc, kept, ending>>

NextIndexShort(i) == IF i + 1 >= MaxFiles THEN 1 ELSE i + 1

\* _get_file_index: the files are numbered cyclically from 1.
NextIndex(i) == IF i >= MaxFiles THEN 1 ELSE i + 1

\* _rotate: the old handle is closed, file number `index` is truncated and
\* becomes the handle, and the buffer goes there.
Rotated(lines) ==
    /\ files' = [files EXCEPT ![index] = lines]
    /\ handle' = NewHandle(index)
    /\ index' = NextIndex(index)
    /\ buffer' = <<>>

TaskForgotten == UNCHANGED unfinished
TaskDone == unfinished' = unfinished - 1

AppendLine ==
    LET lines == Append(buffer, hand)
    IN  /\ cons = "append"
        /\ IF Len(lines) < MaxLines
           THEN buffer' = lines /\ UNCHANGED <<files, index, handle>>
           ELSE Rotated(lines)
        /\ TaskDone
        /\ cons' = "top" /\ hand' = None
        /\ UNCHANGED <<queue, puts, died, stop, open, pc, kept, ending>>

\* An OSError of the rotation: open leaves no open handle, write leaves a part
\* of the lines in the file.  The handler marks the thread as dead and then
\* raises itself, as an OSError has no attribute msg: no event, no task_done.
AppendFails ==
    LET lines == Append(buffer, hand)
    IN  /\ cons = "append" /\ Len(lines) >= MaxLines
        /\ buffer' = lines
        /\ \/ /\ "open" \in Fails
              /\ handle' = [handle EXCEPT !.open = FALSE]
              /\ UNCHANGED files
           \/ /\ "write" \in Fails
              /\ handle' = NewHandle(index)
              /\ \E k \in 0..Len(lines) : files' = [files EXCEPT ![index] = SubSeq(lines, 1, k)]
        /\ died' = TRUE
        /\ cons' = "ended" /\ hand' = None
        /\ UNCHANGED <<queue, unfinished, puts, stop, open, index, pc, kept, ending>>

-----------------------------------------------------------------------------
DrainOut(a) ==
    \/ Drain(a) \/ Drained(a) \/ Pill(a) \/ Joined(a)
    \/ WriteTail(a) \/ Break(a) \/ Clear(a) \/ Shut(a)

Writing(w) == PutLine(w) \/ Cleanup(w) \/ DrainOut(w)

Closing == Wait \/ Mark \/ LastPill \/ DrainOut(Closer)

Consume == Loop \/ Take \/ AppendLine \/ AppendFails

Next ==
    \/ \E w \in Writers : Write(w) \/ Writing(w)
    \/ Close \/ Closing
    \/ Consume

Spec == Init /\ [][Next]_vars

\* A call that has begun goes on, and the consumer thread runs.
Fairness ==
    /\ \A w \in Writers : WF_vars(Writing(w))
    /\ WF_vars(Closing)
    /\ WF_vars(Consume)

FairSpec == Spec /\ Fairness

-----------------------------------------------------------------------------
(***************************************************************************)
(* Where the lines are.                                                    *)
(***************************************************************************)
In(s) == {s[i] : i \in DOMAIN s} \ {None}

OnDisk == UNION {In(files[i]) : i \in Files}
Held == In(queue) \cup In(buffer) \cup ({hand} \ {None}) \cup UNION {In(kept[a]) : a \in Actors}
Accepted == 1..puts
Lost == Accepted \ (OnDisk \cup Held)

\* No two threads have begun to end the runner, as close and a write that
\* fails both do.
Alone == enders <= 1

\* How many newer lines outlive a line that is lost: as many as a drain keeps, or
\* as the files hold when they hold less.
Floor == IF Keep <= MaxFiles * MaxLines THEN Keep ELSE MaxFiles * MaxLines

\* A line that was accepted and is nowhere any more is an old one: so many lines
\* behind it are on disk, or have been taken out of the queue to get there.
LossIsOldest ==
    Alone => \A l \in Lost :
        Cardinality({m \in OnDisk \cup (Held \ In(queue)) : m > l}) >= Floor

\* The files from the oldest to the newest, then what is behind them.
Turn(k) == files[IF index + k - 1 <= MaxFiles THEN index + k - 1 ELSE index + k - 1 - MaxFiles]
InHand == IF hand = None THEN <<>> ELSE <<hand>>
Stream == FlattenSeq([k \in Files |-> Turn(k)]) \o buffer \o InHand \o queue

\* Files, buffer and queue hold, in order and without a gap, the lines accepted
\* last, and what the rotation has overwritten is older than MaxFiles full files.
Gapless ==
    LET n == Len(Stream)
    IN  /\ Stream = [i \in 1..n |-> puts - n + i]
        /\ n < puts => n >= MaxFiles * MaxLines

\* Until a drain begins, or the disk fails, the stream is whole.
StreamIntact == ~stop /\ ~died => Gapless

\* A clean close in which nobody else ended the runner and no rotation failed
\* (the buffer is shorter than a file then) has lost nothing: what it has not
\* written is the end of the stream, fewer lines than a file, in the buffer.
CleanCloseKeeps ==
    pc[Closer] = "closed" /\ clean /\ Alone /\ Len(buffer) < MaxLines => Gapless /\ queue = <<>>

\* The two places where close can wait for ever: in queue.join() when the
\* runner has died under it, as messages that a drain or a failed rotation took
\* are never marked as done, and in the put of a pill to a full queue that no
\* consumer empties.
CloseHangs ==
    \/ pc[Closer] = "wait" /\ died
    \/ pc[Closer] \in {"pill", "last"} /\ Full /\ cons = "ended"

\* close comes to its end, unless it is caught in one of these two.
CloseReturns == pc[Closer] \in {"wait", "drain"} ~> pc[Closer] \in {"closed", "raised"} \/ CloseHangs

\* write comes to its end, although it joins the consumer when it fails.
WriteReturns == \A w \in Writers : pc[w] = "put" ~> pc[w] \in {"idle", "raised"}

=============================================================================

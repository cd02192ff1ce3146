-------------------------- MODULE EventPath_proofs --------------------------
(***************************************************************************)
(* Proofs about EventPath, for every number of sinks and lines and every   *)
(* configuration of the heartbeat: types, what the heartbeat may report,   *)
(* and what the sinks have seen.                                           *)
(***************************************************************************)
EXTENDS EventPath, SequenceTheorems, TLAPS

\* What the sleeps since the last beat add up to is at most the silence: all of
\* them when the thread is between two sleeps, and of the one it is in the part
\* that has passed.
SleepWithinSilence ==
    /\ pc["heartbeat"] = "test" => 2 * quiet >= TwiceSlept(attempts)
    /\ pc["heartbeat"] = "asleep" =>
         attempts = 0 \/ 2 * quiet >= TwiceSlept(attempts) + 2 * (Delay - wake)

\* The thread sleeps only when it has attempts left.
AttemptsLeft == pc["heartbeat"] = "asleep" => attempts < MaxAttempts

IInv == TypeOK /\ SleepWithinSilence /\ AttemptsLeft

-----------------------------------------------------------------------------
\* One sleep more adds the delay before it.
LEMMA OneSleepMore ==
    ASSUME NEW k \in Nat PROVE TwiceSlept(k + 1) = TwiceSlept(k) + 2 * (Threshold * k)
<1>1. (k + 1) * k = k * (k - 1) + 2 * k
  BY SMT
<1>2. Threshold * (k * (k - 1) + 2 * k) = Threshold * (k * (k - 1)) + 2 * (Threshold * k)
  BY EventPathAssumption
<1>3. (k + 1) - 1 = k
  OBVIOUS
<1> QED BY <1>1, <1>2, <1>3 DEF TwiceSlept

\* The silence that is measured at most covers every row of sleeps.
LEMMA SilenceCovers ==
    ASSUME NEW k \in Nat, k <= MaxAttempts PROVE 2 * MaxQuiet >= TwiceSlept(k)
<1> DEFINE M == MaxAttempts
<1>1. k * (k - 1) <= M * (M - 1)
  <2>1. CASE k = 0
    BY <2>1, EventPathAssumption
  <2>2. CASE k # 0
    <3>1. k * (k - 1) <= k * (M - 1)
      BY <2>2, EventPathAssumption
    <3>2. k * (M - 1) <= M * (M - 1)
      BY EventPathAssumption
    <3> QED BY <3>1, <3>2, EventPathAssumption
  <2> QED BY <2>1, <2>2
<1>2. /\ k * (k - 1) \in Int
      /\ M * (M - 1) \in Int
      /\ Threshold \in Nat /\ MaxQuiet \in Nat
  BY EventPathAssumption
<1>3. \A x, y \in Int : x <= y => Threshold * x <= Threshold * y
  BY EventPathAssumption
<1>4. Threshold * (k * (k - 1)) <= Threshold * (M * (M - 1))
  BY <1>1, <1>2, <1>3
<1>5. 2 * MaxQuiet >= Threshold * (M * (M - 1))
  BY EventPathAssumption
<1>6. Threshold * (k * (k - 1)) \in Int /\ Threshold * (M * (M - 1)) \in Int
  BY <1>2
<1> QED BY <1>4, <1>5, <1>6, <1>2 DEF TwiceSlept

\* Counting at one source leaves a sequence of counters.
LEMMA CountOneMore ==
    ASSUME NEW s \in Seq(Nat), NEW i PROVE [s EXCEPT ![i] = s[i] + 1] \in Seq(Nat)
<1>1. CASE i \in 1..Len(s)
  <2>1. s[i] + 1 \in Nat
    BY <1>1, ElementOfSeq
  <2> QED BY <1>1, <2>1, ExceptSeq
<1>2. CASE i \notin 1..Len(s)
  <2>1. s \in [1..Len(s) -> Nat]
    OBVIOUS
  <2>2. [s EXCEPT ![i] = s[i] + 1] = s
    BY <1>2, <2>1
  <2> QED BY <2>2
<1> QED BY <1>1, <1>2

LEMMA InitInv == Init => IInv
<1> SUFFICES ASSUME Init PROVE IInv
  OBVIOUS
<1> USE EventPathAssumption DEF Init
<1>1. TypeOK
  BY DEF TypeOK, Emitters, Emitting, Events, NoEvent, Timeout, Sinks
<1>2. TwiceSlept(0) = 0
  BY DEF TwiceSlept
<1>3. SleepWithinSilence
  BY <1>2 DEF SleepWithinSilence, Emitters
<1>4. AttemptsLeft
  BY DEF AttemptsLeft, Emitters
<1> QED BY <1>1, <1>3, <1>4 DEF IInv

-----------------------------------------------------------------------------
\* Each step preserves the types.
LEMMA TypeInv == ASSUME IInv, Next PROVE TypeOK'
<1> USE EventPathAssumption DEF IInv, Emitters, Emitting
<1>1. CASE PrintLine
  <2>1. written' \in 0..MaxLines /\ written + 1 \in 1..MaxLines
    BY <1>1 DEF PrintLine, TypeOK
  <2>2. pipe' \in Seq(1..MaxLines) /\ Len(pipe') <= PipeSize
    BY <1>1, <2>1 DEF PrintLine, TypeOK
  <2> QED BY <1>1, <2>1, <2>2 DEF TypeOK, PrintLine, beats, bus
<1>2. CASE Exit
  BY <1>2 DEF TypeOK, Exit, beats, bus
<1>2a. CASE ReadLine
  <2>1. pipe \in Seq(1..MaxLines) /\ pipe # <<>> /\ Len(pipe) <= PipeSize
    BY <1>2a DEF ReadLine, TypeOK
  <2>2. Head(pipe) \in 1..MaxLines
    BY <2>1
  <2>3. Tail(pipe) \in Seq(1..MaxLines)
    BY <2>1
  <2>4. Len(Tail(pipe)) <= PipeSize
    BY <2>1
  <2>5. pipe' \in Seq(1..MaxLines) /\ Len(pipe') <= PipeSize /\ line' \in 0..MaxLines
    BY <1>2a, <2>2, <2>3, <2>4 DEF ReadLine
  <2> QED BY <1>2a, <2>5 DEF TypeOK, ReadLine, Goto, process, beats, bus
<1>2b. CASE Undecodable \/ EndOfOutput
  BY <1>2b DEF TypeOK, Undecodable, EndOfOutput, Goto, process, beats, bus
<1>3. CASE Beat
  BY <1>3 DEF TypeOK, Beat, BeatReset, Goto, process, bus
<1>4. CASE Test
  <2>1. Delay \in Nat
    BY DEF Delay, TypeOK
  <2> QED BY <1>4, <2>1 DEF TypeOK, Test, Goto, process, bus
<1>5. CASE WakeUp
  BY <1>5 DEF TypeOK, AttemptsLeft, WakeUp, Goto, process, bus
<1>6. CASE Tick
  BY <1>6 DEF TypeOK, Tick, process, bus
<1>7. ASSUME NEW a \in Emitters, Publish(a) PROVE TypeOK'
  <2>1. CASE Emit(a)
    <3> DEFINE count == IF Source \in DOMAIN lastSeen THEN lastSeen[Source] + 1 ELSE 1
    <3>1. Source \in Nat /\ count \in Nat
      BY DEF Source, TypeOK
    <3>2. lastSeen' \in Seq(Nat)
      BY <2>1, <3>1 DEF Emit, TypeOK
    <3>3. event' \in [Emitters -> Events]
      <4>1. (IF a = "reader" THEN line ELSE Timeout) \in {Timeout} \cup (1..MaxLines)
        BY DEF TypeOK, Timeout
      <4>2. [msg |-> IF a = "reader" THEN line ELSE Timeout, sequence |-> count, source |-> Source] \in Events
        BY <3>1, <4>1 DEF Events
      <4> QED BY <2>1, <4>2 DEF Emit, TypeOK
    <3>4. next' \in [Emitters -> 1..NSinks + 1]
      BY <2>1 DEF Emit, TypeOK
    <3> QED BY <2>1, <3>2, <3>3, <3>4 DEF TypeOK, Emit, Goto, process, beats
  <2>2. CASE Deliver(a)
    <3>1. out' \in [Sinks -> Seq(Events)]
      BY <2>2 DEF TypeOK, Deliver, CallSink, Sinks
    <3>2. next' \in [Emitters -> 1..NSinks + 1]
      BY <2>2 DEF TypeOK, Deliver, CallSink
    <3> QED BY <2>2, <3>1, <3>2 DEF TypeOK, Deliver, CallSink, process, beats
  <2>3. CASE SinkFails(a)
    <3>1. out' \in [Sinks -> Seq(Events)]
      BY <2>3 DEF TypeOK, SinkFails, Sinks
    <3> QED BY <2>3, <3>1 DEF TypeOK, SinkFails, Goto, process, beats
  <2>4. CASE Emitted(a)
    <3>1. lastSeen' \in Seq(Nat)
      BY <2>4, CountOneMore DEF TypeOK, Emitted
    <3> QED BY <2>4, <3>1 DEF TypeOK, Emitted, Goto, process, beats
  <2> QED BY <1>7, <2>1, <2>2, <2>3, <2>4 DEF Publish
<1> QED BY <1>1, <1>2, <1>2a, <1>2b, <1>3, <1>4, <1>5, <1>6, <1>7 DEF Next, Reader, Heartbeat

\* Each step preserves what relates sleeps and silence.
LEMMA SleepInv == ASSUME IInv, Next PROVE SleepWithinSilence' /\ AttemptsLeft'
<1> USE DEF IInv
<1>0. /\ attempts \in Nat /\ quiet \in Nat /\ wake \in Nat
      /\ quiet <= MaxQuiet /\ attempts <= MaxAttempts
      /\ Delay \in Nat
      /\ \A k \in Nat : TwiceSlept(k) \in Int
      /\ MaxAttempts \in Nat /\ MaxQuiet \in Nat
      /\ pc \in [Emitters -> {"read", "beat", "test", "asleep", "ended", "died"} \cup Emitting]
  BY EventPathAssumption DEF TypeOK, Delay, TwiceSlept
<1>1. CASE UNCHANGED <<attempts, wake, quiet>> /\ pc'["heartbeat"] \notin {"test", "asleep"}
  BY <1>1 DEF SleepWithinSilence, AttemptsLeft
<1>2. CASE UNCHANGED <<attempts, wake, quiet>> /\ pc'["heartbeat"] = pc["heartbeat"]
  BY <1>2 DEF SleepWithinSilence, AttemptsLeft, TwiceSlept, Delay
<1>3. CASE PrintLine \/ Exit \/ ReadLine \/ Undecodable \/ EndOfOutput \/ Publish("reader")
  <2>1. UNCHANGED <<attempts, wake, quiet>>
    BY <1>3 DEF PrintLine, Exit, ReadLine, Undecodable, EndOfOutput, Publish, Emit, Deliver,
                SinkFails, Emitted, beats
  <2>2. pc'["heartbeat"] = pc["heartbeat"]
    BY <1>3, <1>0 DEF PrintLine, Exit, ReadLine, Undecodable, EndOfOutput, Publish, Emit, Deliver,
                SinkFails, Emitted, Goto, Emitters
  <2> QED BY <1>2, <2>1, <2>2
<1>4. CASE Publish("heartbeat")
  <2>1. UNCHANGED <<attempts, wake, quiet>>
    BY <1>4 DEF Publish, Emit, Deliver, SinkFails, Emitted, beats
  <2>2. pc'["heartbeat"] \notin {"test", "asleep"}
    BY <1>4, <1>0 DEF Publish, Emit, Deliver, SinkFails, Emitted, Goto, Emitters
  <2> QED BY <1>1, <2>1, <2>2
<1>5. CASE Beat
  <2>1. attempts' = 0 /\ quiet' = 0 /\ TwiceSlept(0) = 0
    BY <1>5, EventPathAssumption DEF Beat, BeatReset, TwiceSlept
  <2>2. attempts < MaxAttempts \/ pc["heartbeat"] # "asleep"
    BY DEF AttemptsLeft
  <2>3. pc'["heartbeat"] = pc["heartbeat"]
    BY <1>5, <1>0 DEF Beat, Goto, Emitters
  <2>4. AttemptsLeft'
    BY <2>1, <1>0, EventPathAssumption DEF AttemptsLeft
  <2>5. SleepWithinSilence'
    BY <2>1 DEF SleepWithinSilence, TwiceSlept
  <2> QED BY <2>4, <2>5
<1>6. CASE Test
  <2>1. attempts' = attempts /\ quiet' = quiet /\ pc["heartbeat"] = "test"
    BY <1>6 DEF Test
  <2>2. CASE attempts < MaxAttempts /\ Delay < MaxThreshold
    <3>1. wake' = Delay /\ pc'["heartbeat"] = "asleep" /\ Delay' = Delay
      BY <1>6, <1>0, <2>1, <2>2 DEF Test, Goto, Emitters, Delay
    <3>2. 2 * quiet >= TwiceSlept(attempts) + 2 * (Delay - wake')
      BY <3>1, <2>1, <1>0 DEF SleepWithinSilence
    <3> QED BY <2>1, <2>2, <3>1, <3>2 DEF SleepWithinSilence, AttemptsLeft, TwiceSlept
  <2>3. CASE ~(attempts < MaxAttempts /\ Delay < MaxThreshold)
    <3>1. UNCHANGED <<attempts, wake, quiet>> /\ pc'["heartbeat"] = "emit"
      BY <1>6, <1>0, <2>3 DEF Test, Goto, Emitters
    <3> QED BY <1>1, <3>1
  <2> QED BY <2>2, <2>3
<1>7. CASE WakeUp
  <2>1. /\ attempts' = attempts + 1 /\ quiet' = quiet /\ wake = 0
        /\ pc["heartbeat"] = "asleep" /\ pc'["heartbeat"] = "test"
    BY <1>7, <1>0 DEF WakeUp, Goto, Emitters
  <2>2. TwiceSlept(attempts + 1) = TwiceSlept(attempts) + 2 * Delay
    BY OneSleepMore, <1>0 DEF Delay
  <2>3. CASE attempts = 0
    <3>1. TwiceSlept(0) = 0 /\ Delay = 0
      BY <2>3, EventPathAssumption DEF TwiceSlept, Delay
    <3>2. 2 * quiet' >= TwiceSlept(attempts')
      BY <1>0, <2>1, <2>2, <2>3, <3>1
    <3> QED BY <2>1, <3>2 DEF SleepWithinSilence, AttemptsLeft, TwiceSlept
  <2>4. CASE attempts # 0
    <3>1. 2 * quiet' >= TwiceSlept(attempts')
      BY <1>0, <2>1, <2>2, <2>4 DEF SleepWithinSilence
    <3> QED BY <2>1, <3>1 DEF SleepWithinSilence, AttemptsLeft, TwiceSlept
  <2> QED BY <2>3, <2>4
<1>8. CASE Tick
  <2>1. attempts' = attempts /\ pc' = pc
    BY <1>8 DEF Tick
  <2>2. quiet' >= quiet /\ quiet' \in Nat
    BY <1>8, <1>0 DEF Tick
  <2>3. pc["heartbeat"] = "test" => 2 * quiet' >= TwiceSlept(attempts)
    BY <1>0, <2>2 DEF SleepWithinSilence
  <2>4. ASSUME pc["heartbeat"] = "asleep", attempts # 0
        PROVE  2 * quiet' >= TwiceSlept(attempts) + 2 * (Delay - wake')
    <3>1. 2 * quiet >= TwiceSlept(attempts) + 2 * (Delay - wake) /\ attempts < MaxAttempts
      BY <2>4 DEF SleepWithinSilence, AttemptsLeft
    <3>2. CASE quiet < MaxQuiet
      BY <1>8, <1>0, <3>1, <3>2 DEF Tick
    <3>3. CASE ~(quiet < MaxQuiet)
      <4>1. 2 * MaxQuiet >= TwiceSlept(attempts + 1)
        BY <1>0, <3>1, SilenceCovers
      <4>2. TwiceSlept(attempts + 1) = TwiceSlept(attempts) + 2 * Delay
        BY OneSleepMore, <1>0 DEF Delay
      <4>3. quiet' = MaxQuiet /\ wake' \in Nat
        BY <1>8, <1>0, <3>3 DEF Tick
      <4> QED BY <1>0, <4>1, <4>2, <4>3
    <3> QED BY <3>2, <3>3
  <2> QED BY <2>1, <2>3, <2>4 DEF SleepWithinSilence, AttemptsLeft, TwiceSlept, Delay
<1> QED BY <1>3, <1>4, <1>5, <1>6, <1>7, <1>8 DEF Next, Reader, Heartbeat

LEMMA NextInv == IInv /\ [Next]_vars => IInv'
<1> SUFFICES ASSUME IInv, [Next]_vars PROVE IInv'
  OBVIOUS
<1>1. CASE Next
  BY <1>1, TypeInv, SleepInv DEF IInv
<1>2. CASE UNCHANGED vars
  BY <1>2 DEF vars, process, beats, bus, IInv, TypeOK, SleepWithinSilence, AttemptsLeft, TwiceSlept,
              Delay
<1> QED BY <1>1, <1>2

-----------------------------------------------------------------------------
\* The types hold, and the sleeps of the heartbeat never add up to more than the
\* silence they are to measure.
THEOREM Invariant == Spec => []IInv
<1> QED BY InitInv, NextInv, PTL DEF Spec

\* Every variable keeps its type: attempts never pass max_attempts, the pipe
\* never holds more than it can.
THEOREM Types == Spec => []TypeOK
<1>1. IInv => TypeOK
  BY DEF IInv
<1> QED BY <1>1, Invariant, PTL

\* A step of the heartbeat that reports silence comes after enough of it.
LEMMA ReportStep ==
    ASSUME IInv, Next, pc["heartbeat"] = "test", pc'["heartbeat"] = "emit"
    PROVE  \E k \in 1..MaxAttempts :
             /\ k = MaxAttempts \/ Threshold * k >= MaxThreshold
             /\ 2 * quiet >= TwiceSlept(k)
<1> USE DEF IInv
<1>0. pc \in [Emitters -> {"read", "beat", "test", "asleep", "ended", "died"} \cup Emitting]
  BY DEF TypeOK
<1>1. Test
  <2>1. ASSUME ~Test PROVE FALSE
    <3>1. pc'["heartbeat"] = pc["heartbeat"] \/ WakeUp \/ Publish("heartbeat")
      BY <1>0, <2>1 DEF Next, Reader, Heartbeat, PrintLine, Exit, ReadLine, Undecodable, EndOfOutput,
                        Beat, Tick, Publish, Emit, Deliver, SinkFails, Emitted, Goto, Emitters
    <3>2. ~WakeUp /\ ~Publish("heartbeat")
      BY DEF WakeUp, Publish, Emit, Deliver, SinkFails, Emitted
    <3> QED BY <3>1, <3>2
  <2> QED BY <2>1
<1>2. ~(attempts < MaxAttempts /\ Delay < MaxThreshold)
  BY <1>0, <1>1 DEF Test, Goto, Emitters
<1>3. attempts \in 0..MaxAttempts /\ quiet \in Nat /\ Delay \in Nat
  BY EventPathAssumption DEF TypeOK, Delay
<1>4. 2 * quiet >= TwiceSlept(attempts)
  BY DEF SleepWithinSilence
<1>5. CASE attempts = 0
  <2>1. 0 >= MaxThreshold
    BY <1>2, <1>5, EventPathAssumption DEF Delay
  <2>2. Threshold * 1 >= MaxThreshold /\ TwiceSlept(1) = 0 /\ 1 \in 1..MaxAttempts
    BY <2>1, EventPathAssumption DEF TwiceSlept
  <2> QED BY <1>3, <2>2
<1>6. CASE attempts # 0
  <2>1. attempts \in 1..MaxAttempts
    BY <1>3, <1>6, EventPathAssumption
  <2>2. attempts = MaxAttempts \/ Threshold * attempts >= MaxThreshold
    BY <1>2, <1>3, EventPathAssumption DEF Delay
  <2> QED BY <1>4, <2>1, <2>2
<1> QED BY <1>5, <1>6

\* For every threshold and number of attempts, and however reader and heartbeat
\* interleave, a task is reported silent only after the silence that the
\* configuration asks for.
THEOREM Silence == Spec => TimeoutAfterSilence
<1>1. IInv /\ [Next]_vars =>
        [pc["heartbeat"] = "test" /\ pc'["heartbeat"] = "emit" =>
          \E k \in 1..MaxAttempts :
            /\ k = MaxAttempts \/ Threshold * k >= MaxThreshold
            /\ 2 * quiet >= TwiceSlept(k)]_vars
  BY ReportStep
<1> QED BY <1>1, Invariant, PTL DEF Spec, TimeoutAfterSilence

-----------------------------------------------------------------------------
(***************************************************************************)
(* What the sinks have seen.                                               *)
(***************************************************************************)

\* How many lines have left the pipe, and how many of them sink s has seen.
Read == written - Len(pipe)
SeenBy(s) == IF Held(s) THEN Read - 1 ELSE Read

\* The pipe holds the lines printed last, in their order.
PipeAt == Len(pipe) <= written /\ \A i \in 1..Len(pipe) : pipe[i] = Read + i

\* The reader has the line in hand that left the pipe last, and its event says
\* so; the event of the heartbeat is never a line.
HandAt ==
    /\ pc["reader"] \in {"beat", "emit", "sinks"} => Read >= 1 /\ line = Read
    /\ pc["reader"] = "sinks" => event["reader"].msg = line
    /\ pc["heartbeat"] = "sinks" => event["heartbeat"].msg = Timeout

\* Each sink has seen, in turn, what the reader has read, but for the line in
\* its hand; behind a reader that died, some beginning of it.
SinksAt ==
    \A s \in Sinks :
        /\ InTurn(s)
        /\ IF pc["reader"] = "died" THEN \E n \in 0..written : Seen(s) = 1..n
           ELSE Seen(s) = 1..SeenBy(s)

Stream == PipeAt /\ HandAt /\ SinksAt

\* One event more at a sink: the line that is next, or none.
LEMMA OneMore ==
    ASSUME TypeOK, NEW s \in Sinks, NEW e \in Events, NEW n \in Nat,
           InTurn(s), Seen(s) = 1..n, out'[s] = Append(out[s], e),
           e.msg = Timeout \/ e.msg = n + 1
    PROVE  InTurn(s)' /\ Seen(s)' = 1..(IF e.msg = Timeout THEN n ELSE n + 1)
<1> DEFINE k == Len(out[s])
<1>1. out[s] \in Seq(Events) /\ k \in Nat /\ DOMAIN out[s] = 1..k
  BY DEF TypeOK
<1>2. DOMAIN out'[s] = 1..(k + 1) /\ out'[s][k + 1] = e /\ \A i \in 1..k : out'[s][i] = out[s][i]
  BY <1>1
<1>3. \A i \in 1..k : out[s][i] \in Events /\ out[s][i].msg \in Nat
  <2>1. \A i \in 1..k : out[s][i] \in Events
    BY <1>1
  <2> QED BY <2>1, EventPathAssumption DEF Events, Timeout
<1>4. \A i \in 1..k : IsLine(out[s][i]) => out[s][i].msg \in 1..n
  BY <1>1 DEF Seen, IsLine
<1>5. InTurn(s)'
  <2> SUFFICES ASSUME NEW i \in 1..(k + 1), NEW j \in 1..(k + 1), i < j,
                      IsLine(out'[s][i]), IsLine(out'[s][j])
               PROVE  out'[s][i].msg < out'[s][j].msg
    BY <1>2 DEF InTurn, IsLine
  <2>1. i \in 1..k
    BY <1>1
  <2>2. CASE j \in 1..k
    BY <1>1, <1>2, <2>1, <2>2 DEF InTurn
  <2>3. CASE j \notin 1..k
    <3>1. j = k + 1
      BY <1>1, <2>3
    <3>2. out'[s][j].msg = n + 1
      BY <1>2, <3>1 DEF IsLine
    <3>3. out'[s][i].msg \in 1..n
      BY <1>2, <1>4, <2>1
    <3> QED BY <3>2, <3>3
  <2> QED BY <2>2, <2>3
<1>6. Seen(s)' = Seen(s) \cup ({e.msg} \ {Timeout})
  <2>1. Seen(s)' = {out'[s][i].msg : i \in 1..(k + 1)} \ {Timeout}
    BY <1>2 DEF Seen, Timeout
  <2>2. 1..(k + 1) = (1..k) \cup {k + 1}
    BY <1>1
  <2>3. {out'[s][i].msg : i \in 1..(k + 1)} = {out[s][i].msg : i \in 1..k} \cup {e.msg}
    BY <1>2, <2>2
  <2> QED BY <1>1, <2>1, <2>3 DEF Seen
<1>7. CASE e.msg = Timeout
  BY <1>5, <1>6, <1>7
<1>8. CASE e.msg # Timeout
  <2>1. Seen(s)' = (1..n) \cup {n + 1}
    BY <1>6, <1>8
  <2>2. (1..n) \cup {n + 1} = 1..(n + 1)
    OBVIOUS
  <2> QED BY <1>5, <1>8, <2>1, <2>2
<1> QED BY <1>7, <1>8

\* What a step must leave alone for a sink to have seen the same.
LEMMA SinkFrame ==
    ASSUME NEW s \in Sinks, out'[s] = out[s]
    PROVE  (InTurn(s) => InTurn(s)') /\ Seen(s)' = Seen(s)
BY DEF InTurn, Seen, IsLine, Timeout

\* Nothing is printed, and nothing seen.
LEMMA InitStream == Init => Stream
<1> SUFFICES ASSUME Init PROVE Stream
  OBVIOUS
<1>1. pipe = <<>> /\ written = 0 /\ pc["reader"] = "read" /\ pc["heartbeat"] = "test"
  BY DEF Init, Emitters
<1>2. Len(pipe) = 0 /\ Read = 0
  <2>1. Len(pipe) = 0
    BY <1>1
  <2>2. written - Len(pipe) = 0
    <3>1. written = 0
      BY <1>1
    <3> QED BY <2>1, <3>1
  <2> QED BY <2>1, <2>2 DEF Read
<1>3. PipeAt /\ HandAt
  BY <1>1, <1>2 DEF PipeAt, HandAt
<1>4. ASSUME NEW s \in Sinks PROVE InTurn(s) /\ Seen(s) = {} /\ SeenBy(s) = 0
  <2>1. out[s] = <<>>
    BY DEF Init
  <2> QED BY <1>1, <1>2, <2>1 DEF InTurn, Seen, SeenBy, Held
<1>5. 1..0 = {}
  OBVIOUS
<1> QED BY <1>1, <1>3, <1>4, <1>5 DEF Stream, SinksAt

\* Nothing is printed, read or shown, and the reader stays where it is, or goes
\* on with the same line.
LEMMA StreamFrame ==
    ASSUME Stream, UNCHANGED <<written, pipe, line, event, next, out>>,
           pc["reader"] = pc'["reader"]
             \/ {pc["reader"], pc'["reader"]} \subseteq {"beat", "emit"}
             \/ {pc["reader"], pc'["reader"]} \subseteq {"read", "ended"},
           pc'["heartbeat"] = "sinks" => pc["heartbeat"] = "sinks"
    PROVE  Stream'
<1>1. PipeAt' /\ Read' = Read
  BY DEF Stream, PipeAt, Read
<1>2. HandAt'
  BY <1>1 DEF Stream, HandAt, Timeout
<1>3. ASSUME NEW s \in Sinks
      PROVE  InTurn(s)' /\ Seen(s)' = Seen(s) /\ SeenBy(s)' = SeenBy(s)
  <2>1. InTurn(s)' /\ Seen(s)' = Seen(s)
    BY <1>3, SinkFrame DEF Stream, SinksAt
  <2>2. Held(s)' = Held(s)
    BY DEF Held
  <2> QED BY <1>1, <2>1, <2>2 DEF SeenBy
<1>4. pc["reader"] = "died" <=> pc'["reader"] = "died"
  OBVIOUS
<1>5. SinksAt'
  <2> SUFFICES ASSUME NEW s \in Sinks
               PROVE  InTurn(s)' /\ IF pc'["reader"] = "died" THEN \E n \in 0..written' : Seen(s)' = 1..n
                                    ELSE Seen(s)' = 1..SeenBy(s)'
    BY DEF SinksAt
  <2> QED BY <1>3, <1>4 DEF Stream, SinksAt
<1> QED BY <1>1, <1>2, <1>5 DEF Stream

\* The reader dies where it stands: what the sinks have seen stays a beginning.
LEMMA ReaderDies ==
    ASSUME TypeOK, Stream, UNCHANGED <<written, pipe, line, event>>,
           pc'["reader"] = "died", pc'["heartbeat"] = pc["heartbeat"],
           \A s \in Sinks : InTurn(s)' /\ \E n \in 0..written : Seen(s)' = 1..n
    PROVE  Stream'
<1>1. PipeAt' /\ HandAt'
  BY DEF Stream, PipeAt, Read, HandAt, Timeout
<1>2. SinksAt'
  BY DEF SinksAt
<1> QED BY <1>1, <1>2 DEF Stream

\* How far the sinks are, as a number.
LEMMA SeenNumber ==
    ASSUME TypeOK, Stream, NEW s \in Sinks, pc["reader"] # "died"
    PROVE  /\ SeenBy(s) \in 0..written /\ Seen(s) = 1..SeenBy(s) /\ InTurn(s)
           /\ Read \in 0..written /\ written \in Nat /\ Len(pipe) \in Nat
<1>1. written \in Nat /\ Len(pipe) \in Nat
  BY EventPathAssumption DEF TypeOK
<1>2. Read \in 0..written
  BY <1>1 DEF Stream, PipeAt, Read
<1>3. Held(s) => Read >= 1
  BY DEF Held, Stream, HandAt
<1>4. SeenBy(s) \in 0..written
  BY <1>1, <1>2, <1>3 DEF SeenBy
<1> QED BY <1>1, <1>2, <1>4 DEF Stream, SinksAt

-----------------------------------------------------------------------------
\* The line printed last is the last one in the pipe.
LEMMA PrintStream == ASSUME TypeOK, Stream, PrintLine PROVE Stream'
<1>1. /\ written \in Nat /\ pipe \in Seq(1..MaxLines) /\ Len(pipe) \in Nat
      /\ written' = written + 1 /\ pipe' = Append(pipe, written + 1)
      /\ UNCHANGED <<pc, line, event, next, out>> /\ written + 1 \in 1..MaxLines
  BY EventPathAssumption DEF PrintLine, TypeOK, bus
<1>2. /\ Len(pipe') = Len(pipe) + 1 /\ pipe'[Len(pipe) + 1] = written + 1
      /\ \A i \in 1..Len(pipe) : pipe'[i] = pipe[i]
  BY <1>1
<1>3. Read' = Read /\ Read \in Int
  BY <1>1, <1>2 DEF Read
<1>4. PipeAt'
  <2> SUFFICES ASSUME NEW i \in 1..Len(pipe') PROVE pipe'[i] = Read + i
    BY <1>1, <1>2, <1>3 DEF PipeAt, Stream
  <2>1. CASE i \in 1..Len(pipe)
    BY <1>2, <2>1 DEF PipeAt, Stream
  <2>2. CASE i \notin 1..Len(pipe)
    <3>1. i = Len(pipe) + 1
      BY <1>1, <1>2, <2>2
    <3>2. Read + (Len(pipe) + 1) = written + 1
      BY <1>1 DEF Read
    <3> QED BY <1>2, <3>1, <3>2
  <2> QED BY <2>1, <2>2
<1>5. HandAt'
  BY <1>1, <1>3 DEF Stream, HandAt, Timeout
<1>6. SinksAt'
  <2> SUFFICES ASSUME NEW s \in Sinks
               PROVE  InTurn(s)' /\ IF pc'["reader"] = "died" THEN \E n \in 0..written' : Seen(s)' = 1..n
                                    ELSE Seen(s)' = 1..SeenBy(s)'
    BY DEF SinksAt
  <2>1. InTurn(s)' /\ Seen(s)' = Seen(s)
    BY <1>1, SinkFrame DEF Stream, SinksAt
  <2>2. SeenBy(s)' = SeenBy(s)
    BY <1>1, <1>3 DEF SeenBy, Held
  <2>3. 0..written \subseteq 0..written'
    BY <1>1
  <2> QED BY <1>1, <2>1, <2>2, <2>3 DEF Stream, SinksAt
<1> QED BY <1>4, <1>5, <1>6 DEF Stream

\* The line at the head of the pipe is the next one.
LEMMA ReadStream == ASSUME TypeOK, Stream, ReadLine PROVE Stream'
<1>1. /\ written \in Nat /\ pipe \in Seq(1..MaxLines) /\ pipe # <<>> /\ Len(pipe) \in Nat
      /\ line' = Head(pipe) /\ pipe' = Tail(pipe) /\ pc["reader"] = "read"
      /\ pc'["reader"] = "beat" /\ pc'["heartbeat"] = pc["heartbeat"]
      /\ UNCHANGED <<written, event, next, out>>
  BY EventPathAssumption DEF ReadLine, Goto, TypeOK, Emitters, process, bus
<1>2. /\ Len(pipe) >= 1 /\ Len(pipe') = Len(pipe) - 1 /\ Head(pipe) = pipe[1]
      /\ \A i \in 1..Len(pipe') : pipe'[i] = pipe[i + 1]
  BY <1>1
<1>3. Read' = Read + 1 /\ Read \in Nat
  BY <1>1, <1>2 DEF Read, Stream, PipeAt
<1>4. PipeAt'
  <2> SUFFICES ASSUME NEW i \in 1..Len(pipe') PROVE pipe'[i] = Read' + i
    BY <1>1, <1>2 DEF PipeAt, Stream
  <2>1. i + 1 \in 1..Len(pipe) /\ i \in Nat
    BY <1>1, <1>2
  <2> QED BY <1>2, <1>3, <2>1 DEF PipeAt, Stream
<1>5. HandAt'
  BY <1>1, <1>2, <1>3 DEF Stream, PipeAt, HandAt, Timeout
<1>6. SinksAt'
  <2> SUFFICES ASSUME NEW s \in Sinks PROVE InTurn(s)' /\ Seen(s)' = 1..SeenBy(s)'
    BY <1>1 DEF SinksAt
  <2>1. InTurn(s)' /\ Seen(s)' = Seen(s)
    BY <1>1, SinkFrame DEF Stream, SinksAt
  <2>2. SeenBy(s)' = SeenBy(s)
    BY <1>1, <1>3 DEF SeenBy, Held
  <2> QED BY <1>1, <2>1, <2>2 DEF Stream, SinksAt
<1> QED BY <1>4, <1>5, <1>6 DEF Stream

\* The event has the line, and no sink has been called with it.
LEMMA EmitStream == ASSUME TypeOK, Stream, NEW a \in Emitters, Emit(a) PROVE Stream'
<1>1. /\ pc[a] = "emit" /\ pc'[a] = "sinks" /\ \A b \in Emitters : b # a => pc'[b] = pc[b]
      /\ UNCHANGED <<written, pipe, line, out>>
      /\ event'[a].msg = (IF a = "reader" THEN line ELSE Timeout)
      /\ \A b \in Emitters : b # a => event'[b] = event[b] /\ next'[b] = next[b]
      /\ next'[a] = 1
  BY DEF Emit, Goto, TypeOK, process
<1>2. PipeAt' /\ Read' = Read
  BY <1>1 DEF Stream, PipeAt, Read
<1>3. HandAt'
  BY <1>1, <1>2 DEF Stream, HandAt, Emitters, Timeout
<1>4. SinksAt'
  <2> SUFFICES ASSUME NEW s \in Sinks
               PROVE  InTurn(s)' /\ IF pc'["reader"] = "died" THEN \E n \in 0..written' : Seen(s)' = 1..n
                                    ELSE Seen(s)' = 1..SeenBy(s)'
    BY DEF SinksAt
  <2>1. InTurn(s)' /\ Seen(s)' = Seen(s)
    BY <1>1, SinkFrame DEF Stream, SinksAt
  <2>2. 1 <= s
    BY EventPathAssumption DEF Sinks
  <2>3. Held(s)' = Held(s) /\ (pc'["reader"] = "died" <=> pc["reader"] = "died")
    BY <1>1, <2>2 DEF Held, Emitters
  <2> QED BY <1>1, <1>2, <2>1, <2>3 DEF Stream, SinksAt, SeenBy
<1> QED BY <1>2, <1>3, <1>4 DEF Stream

\* The sink that thread a calls sees the line in hand, or no line; the others
\* see nothing.
LEMMA CallStream ==
    ASSUME TypeOK, Stream, NEW a \in Emitters, pc[a] = "sinks", next[a] <= NSinks,
           out' = [out EXCEPT ![next[a]] = Append(@, event[a])], NEW s \in Sinks
    PROVE  /\ InTurn(s)'
           /\ Seen(s)' = IF a = "reader" /\ s = next[a] THEN 1..Read ELSE Seen(s)
<1>1. event[a] \in Events /\ InTurn(s)
  BY DEF TypeOK, Stream, SinksAt
<1>2. CASE s # next[a]
  <2>1. out'[s] = out[s]
    BY <1>2 DEF TypeOK
  <2> QED BY <1>1, <1>2, <2>1, SinkFrame
<1>3. CASE s = next[a] /\ a = "heartbeat"
  <2>1. event[a].msg = Timeout /\ out'[s] = Append(out[s], event[a])
    BY <1>3 DEF Stream, HandAt, TypeOK
  <2>2. PICK n \in Nat : Seen(s) = 1..n
    <3>1. CASE pc["reader"] = "died"
      <4>1. written \in Nat
        BY EventPathAssumption DEF TypeOK
      <4> QED BY <3>1, <4>1 DEF Stream, SinksAt
    <3>2. CASE pc["reader"] # "died"
      BY <3>2, SeenNumber
    <3> QED BY <3>1, <3>2
  <2>3. InTurn(s)' /\ Seen(s)' = Seen(s)
    BY <1>1, <2>1, <2>2, OneMore
  <2> QED BY <1>3, <2>3
<1>4. CASE s = next[a] /\ a = "reader"
  <2>1. pc["reader"] # "died" /\ Held(s)
    BY <1>4, EventPathAssumption DEF Held, Sinks
  <2>2. event[a].msg = Read /\ Read >= 1 /\ out'[s] = Append(out[s], event[a])
    BY <1>4 DEF Stream, HandAt, TypeOK
  <2>3. Read \in Nat /\ SeenBy(s) = Read - 1 /\ Seen(s) = 1..(Read - 1)
    BY <2>1, SeenNumber DEF SeenBy
  <2>4. PICK m \in Nat : m = Read - 1
    BY <2>2, <2>3
  <2>5. Seen(s) = 1..m /\ event[a].msg = m + 1 /\ event[a].msg # Timeout /\ Read = m + 1
    BY <2>2, <2>3, <2>4 DEF Timeout
  <2>6. InTurn(s)' /\ Seen(s)' = 1..(m + 1)
    BY <1>1, <2>2, <2>5, OneMore
  <2> QED BY <1>4, <2>5, <2>6
<1> QED BY <1>2, <1>3, <1>4 DEF Emitters

\* A sink is called, and the thread goes on to the next one.
LEMMA DeliverStream == ASSUME TypeOK, Stream, NEW a \in Emitters, Deliver(a) PROVE Stream'
<1>1. /\ pc[a] = "sinks" /\ next[a] <= NSinks /\ UNCHANGED <<written, pipe, pc, line, event>>
      /\ out' = [out EXCEPT ![next[a]] = Append(@, event[a])]
      /\ next'[a] = next[a] + 1 /\ \A b \in Emitters : b # a => next'[b] = next[b]
  BY DEF Deliver, CallSink, TypeOK, process
<1>2. PipeAt' /\ Read' = Read /\ HandAt'
  BY <1>1 DEF Stream, PipeAt, Read, HandAt, Timeout
<1>3. next[a] \in Nat
  BY EventPathAssumption DEF TypeOK
<1>4. SinksAt'
  <2> SUFFICES ASSUME NEW s \in Sinks
               PROVE  InTurn(s)' /\ IF pc["reader"] = "died" THEN \E n \in 0..written : Seen(s)' = 1..n
                                    ELSE Seen(s)' = 1..SeenBy(s)'
    BY <1>1 DEF SinksAt
  <2>0. s \in Nat
    BY DEF Sinks
  <2>1. CASE a = "heartbeat"
    <3>1. InTurn(s)' /\ Seen(s)' = Seen(s)
      BY <1>1, <2>1, CallStream
    <3>2. Held(s)' = Held(s)
      BY <1>1, <2>1 DEF Held, Emitters
    <3> QED BY <1>2, <3>1, <3>2 DEF Stream, SinksAt, SeenBy
  <2>2. CASE a = "reader" /\ s = next[a]
    <3>1. InTurn(s)' /\ Seen(s)' = 1..Read
      BY <1>1, <2>2, CallStream
    <3>2. ~Held(s)' /\ pc["reader"] # "died"
      BY <1>1, <1>3, <2>2 DEF Held
    <3> QED BY <1>2, <3>1, <3>2 DEF SeenBy
  <2>3. CASE a = "reader" /\ s # next[a]
    <3>1. InTurn(s)' /\ Seen(s)' = Seen(s)
      BY <1>1, <2>3, CallStream
    <3>2. Held(s)' = Held(s) /\ pc["reader"] # "died"
      BY <1>1, <1>3, <2>0, <2>3 DEF Held
    <3> QED BY <1>2, <3>1, <3>2 DEF Stream, SinksAt, SeenBy
  <2> QED BY <2>1, <2>2, <2>3 DEF Emitters
<1> QED BY <1>2, <1>4 DEF Stream

\* A sink that raises has been called, like those before it.
LEMMA FailsStream == ASSUME TypeOK, Stream, NEW a \in Emitters, SinkFails(a) PROVE Stream'
<1>1. /\ pc[a] = "sinks" /\ next[a] <= NSinks /\ UNCHANGED <<written, pipe, line, event, next>>
      /\ out' = [out EXCEPT ![next[a]] = Append(@, event[a])]
      /\ pc'[a] = "died" /\ \A b \in Emitters : b # a => pc'[b] = pc[b]
  BY DEF SinkFails, Goto, TypeOK, process
<1>2. CASE a = "reader"
  <2>1. ASSUME NEW s \in Sinks PROVE InTurn(s)' /\ \E n \in 0..written : Seen(s)' = 1..n
    <3>1. pc["reader"] # "died" /\ Read \in 0..written /\ Seen(s) = 1..SeenBy(s) /\ SeenBy(s) \in 0..written
      BY <1>1, <1>2, SeenNumber
    <3>2. InTurn(s)' /\ (Seen(s)' = Seen(s) \/ Seen(s)' = 1..Read)
      BY <1>1, <1>2, CallStream
    <3> QED BY <3>1, <3>2
  <2> QED BY <1>1, <1>2, <2>1, ReaderDies DEF Emitters
<1>3. CASE a = "heartbeat"
  <2>1. PipeAt' /\ Read' = Read /\ HandAt'
    BY <1>1, <1>3 DEF Stream, PipeAt, Read, HandAt, Timeout, Emitters
  <2>2. SinksAt'
    <3> SUFFICES ASSUME NEW s \in Sinks
                 PROVE  InTurn(s)' /\ IF pc'["reader"] = "died" THEN \E n \in 0..written' : Seen(s)' = 1..n
                                      ELSE Seen(s)' = 1..SeenBy(s)'
      BY DEF SinksAt
    <3>1. InTurn(s)' /\ Seen(s)' = Seen(s)
      BY <1>1, <1>3, CallStream
    <3>2. Held(s)' = Held(s) /\ pc'["reader"] = pc["reader"]
      BY <1>1, <1>3 DEF Held, Emitters
    <3> QED BY <1>1, <2>1, <3>1, <3>2 DEF Stream, SinksAt, SeenBy
  <2> QED BY <2>1, <2>2 DEF Stream
<1> QED BY <1>2, <1>3 DEF Emitters

\* Behind the last sink the line is no longer in hand.
LEMMA EmittedStream == ASSUME TypeOK, Stream, NEW a \in Emitters, Emitted(a) PROVE Stream'
<1>1. /\ pc[a] = "sinks" /\ next[a] > NSinks /\ UNCHANGED <<written, pipe, line, event, next, out>>
      /\ pc'[a] = (IF a = "reader" THEN "read" ELSE "ended")
      /\ \A b \in Emitters : b # a => pc'[b] = pc[b]
  BY DEF Emitted, Goto, TypeOK, process
<1>2. CASE a = "heartbeat"
  BY <1>1, <1>2, StreamFrame DEF Emitters
<1>3. CASE a = "reader"
  <2>1. PipeAt' /\ Read' = Read /\ HandAt'
    BY <1>1, <1>3 DEF Stream, PipeAt, Read, HandAt, Timeout, Emitters
  <2>2. SinksAt'
    <3> SUFFICES ASSUME NEW s \in Sinks PROVE InTurn(s)' /\ Seen(s)' = 1..SeenBy(s)'
      BY <1>1, <1>3 DEF SinksAt
    <3>1. InTurn(s)' /\ Seen(s)' = Seen(s)
      BY <1>1, SinkFrame DEF Stream, SinksAt
    <3>2. s \in Nat /\ s <= NSinks /\ next[a] \in Nat
      BY EventPathAssumption DEF Sinks, TypeOK
    <3>3. ~Held(s) /\ ~Held(s)'
      BY <1>1, <1>3, <3>2, EventPathAssumption DEF Held
    <3> QED BY <1>1, <1>3, <2>1, <3>1, <3>3 DEF Stream, SinksAt, SeenBy
  <2> QED BY <2>1, <2>2 DEF Stream
<1> QED BY <1>2, <1>3 DEF Emitters

\* Every step keeps what the sinks have seen in turn.
LEMMA NextStream == TypeOK /\ Stream /\ [Next]_vars => Stream'
<1> SUFFICES ASSUME TypeOK, Stream, [Next]_vars PROVE Stream'
  OBVIOUS
<1>0. pc \in [Emitters -> {"read", "beat", "test", "asleep", "ended", "died"} \cup Emitting]
  BY DEF TypeOK
<1>1. CASE Exit \/ Tick
  BY <1>1, StreamFrame DEF Exit, Tick, process, beats, bus
<1>2. CASE EndOfOutput
  BY <1>0, <1>2, StreamFrame DEF EndOfOutput, Goto, Emitters, process, bus
<1>3. CASE Beat
  BY <1>0, <1>3, StreamFrame DEF Beat, Goto, Emitters, process, bus
<1>4. CASE Test \/ WakeUp
  BY <1>0, <1>4, StreamFrame DEF Test, WakeUp, Goto, Emitters, process, bus
<1>5. CASE Undecodable
  <2>1. /\ pc["reader"] = "read" /\ pc'["reader"] = "died" /\ pc'["heartbeat"] = pc["heartbeat"]
        /\ UNCHANGED <<written, pipe, line, event, out>>
    BY <1>0, <1>5 DEF Undecodable, Goto, Emitters, process, bus
  <2>2. ASSUME NEW s \in Sinks PROVE InTurn(s)' /\ \E n \in 0..written : Seen(s)' = 1..n
    <3>1. SeenBy(s) \in 0..written /\ Seen(s) = 1..SeenBy(s) /\ InTurn(s)
      BY <2>1, SeenNumber
    <3> QED BY <2>1, <3>1, SinkFrame
  <2> QED BY <2>1, <2>2, ReaderDies
<1>6. CASE UNCHANGED vars
  BY <1>6, StreamFrame DEF vars, process, beats, bus
<1>7. ASSUME NEW a \in Emitters, Publish(a) PROVE Stream'
  BY <1>7, EmitStream, DeliverStream, FailsStream, EmittedStream DEF Publish
<1> QED BY <1>1, <1>2, <1>3, <1>4, <1>5, <1>6, <1>7, PrintStream, ReadStream
        DEF Next, Reader, Heartbeat, Emitters

\* For every number of sinks and of lines, and whatever raises: each sink is
\* called with the lines in order and without a gap, and what it lacks is in the
\* reader's hand or in the pipe as long as the reader lives.
THEOREM Whole == Spec => []StreamWhole
<1>1. Spec => []Stream
  <2>1. IInv /\ Stream /\ [Next]_vars => Stream'
    BY NextStream DEF IInv
  <2> QED BY <2>1, InitStream, Invariant, PTL DEF Spec
<1>2. TypeOK /\ Stream => StreamWhole
  <2> SUFFICES ASSUME TypeOK, Stream, NEW s \in Sinks
               PROVE  /\ InTurn(s)
                      /\ \E n \in 0..written :
                          /\ Seen(s) = 1..n
                          /\ pc["reader"] # "died" =>
                               InHand(s) \o pipe = [i \in 1..(written - n) |-> n + i]
    BY DEF StreamWhole
  <2>1. CASE pc["reader"] = "died"
    BY <2>1 DEF Stream, SinksAt
  <2>2. CASE pc["reader"] # "died"
    <3> DEFINE n == SeenBy(s)
    <3>1. /\ n \in 0..written /\ Seen(s) = 1..n /\ InTurn(s)
          /\ written \in Nat /\ Len(pipe) \in Nat /\ pipe \in Seq(1..MaxLines)
      BY <2>2, SeenNumber DEF TypeOK
    <3>2. \A i \in 1..Len(pipe) : pipe[i] = Read + i
      BY DEF Stream, PipeAt
    <3>3. InHand(s) \o pipe = [i \in 1..(written - n) |-> n + i]
      <4>1. CASE Held(s)
        <5>0. line = Read /\ Read \in Nat
          BY <3>1, <4>1, <2>2, SeenNumber DEF Held, Stream, HandAt
        <5>1. n = Read - 1 /\ line = Read /\ Read \in Nat /\ written - n = Len(pipe) + 1
          BY <3>1, <4>1, <5>0 DEF SeenBy, Read
        <5>2. <<line>> \o pipe \in Seq(Nat)
          <6>1. <<line>> \in Seq(Nat) /\ pipe \in Seq(Nat)
            BY <3>1, <5>0, EventPathAssumption
          <6> QED BY <6>1
        <5>3. Len(<<line>> \o pipe) = Len(pipe) + 1
          BY <3>1
        <5>4. \A i \in 1..(Len(pipe) + 1) :
                (<<line>> \o pipe)[i] = IF i = 1 THEN line ELSE pipe[i - 1]
          BY <3>1
        <5>5. \A i \in 1..(Len(pipe) + 1) : (<<line>> \o pipe)[i] = n + i
          <6> SUFFICES ASSUME NEW i \in 1..(Len(pipe) + 1) PROVE (<<line>> \o pipe)[i] = n + i
            OBVIOUS
          <6>1. CASE i = 1
            BY <5>1, <5>4, <6>1
          <6>2. CASE i # 1
            <7>1. i - 1 \in 1..Len(pipe)
              BY <3>1, <6>2
            <7>2. pipe[i - 1] = Read + (i - 1)
              BY <3>2, <7>1
            <7> QED BY <3>1, <5>1, <5>4, <6>2, <7>2
          <6> QED BY <6>1, <6>2
        <5>6. <<line>> \o pipe = [i \in 1..(Len(pipe) + 1) |-> n + i]
          <6> HIDE DEF n
          <6> QED BY <5>2, <5>3, <5>5
        <5> QED BY <4>1, <5>1, <5>6 DEF InHand
      <4>2. CASE ~Held(s)
        <5>1. n = Read /\ written - n = Len(pipe)
          BY <3>1, <4>2 DEF SeenBy, Read
        <5>2. <<>> \o pipe = pipe
          BY <3>1
        <5>3. pipe = [i \in 1..Len(pipe) |-> pipe[i]]
          BY <3>1
        <5>4. pipe = [i \in 1..Len(pipe) |-> n + i]
          BY <3>2, <5>1, <5>3
        <5> QED BY <4>2, <5>1, <5>2, <5>4 DEF InHand
      <4> QED BY <4>1, <4>2
    <3> QED BY <3>1, <3>3
  <2> QED BY <2>1, <2>2
<1>3. IInv => TypeOK
  BY DEF IInv
<1> QED BY <1>1, <1>2, <1>3, Invariant, PTL

=============================================================================

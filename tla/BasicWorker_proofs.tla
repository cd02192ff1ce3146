------------------------- MODULE BasicWorker_proofs -------------------------
(***************************************************************************)
(* What BasicWorker promises, for every size of the chunk, of the pipe and *)
(* of the output: the types, that a worker which came to its end leaves no *)
(* command running, and that the text arrives whole.                       *)
(***************************************************************************)
EXTENDS BasicWorker, TLAPS, WellFoundedInduction, FiniteSetTheorems

(***************************************************************************)
(* Sets of positions: each has a least one, and a greatest one if it is    *)
(* bounded.                                                                *)
(***************************************************************************)

\* An initial segment 0..x that no other is below, in the order of inclusion.
LEMMA Least ==
  ASSUME NEW S \in SUBSET Nat, S # {}
  PROVE  \E x \in S : \A y \in S : x <= y
<1> DEFINE T == {0..i : i \in S}
<1>1. IsWellFoundedOn(StrictSubsetOrdering(Nat), FiniteSubsetsOf(Nat))
  BY FS_StrictSubsetOrderingWellFounded
<1>2. \A i \in S : 0..i \in SUBSET Nat /\ IsFiniteSet(0..i)
  BY FS_Interval
<1>3. T \subseteq FiniteSubsetsOf(Nat)
  BY <1>2 DEF FiniteSubsetsOf
<1>4. T # {}
  OBVIOUS
<1>5. PICK t \in T : \A u \in T : ~ (<<u, t>> \in StrictSubsetOrdering(Nat))
  <2> HIDE DEF T
  <2> QED BY <1>1, <1>3, <1>4, WFMin
<1>6. PICK x \in S : t = 0..x
  OBVIOUS
<1>7. ASSUME NEW y \in S, y < x PROVE FALSE
  <2>1. /\ 0..y \in SUBSET Nat /\ 0..x \in SUBSET Nat
        /\ 0..y \subseteq 0..x /\ x \in 0..x /\ x \notin 0..y
    BY <1>7
  <2>2. <<0..y, 0..x>> \in StrictSubsetOrdering(Nat)
    BY <2>1 DEF StrictSubsetOrdering
  <2> QED BY <1>5, <1>6, <2>2
<1> QED BY <1>7

LEMMA Greatest ==
  ASSUME NEW S \in SUBSET Nat, S # {}, NEW b \in Nat, \A x \in S : x <= b
  PROVE  \E x \in S : \A y \in S : y <= x
<1> DEFINE T == {b - i : i \in S}
<1>1. T \in SUBSET Nat /\ T # {}
  <2>1. \A i \in S : b - i \in Nat
    OBVIOUS
  <2> QED BY <2>1
<1>2. PICK t \in T : \A u \in T : t <= u
  <2> HIDE DEF T
  <2> QED BY <1>1, Least
<1>3. PICK x \in S : t = b - x
  OBVIOUS
<1>4. \A y \in S : b - x <= b - y
  BY <1>2, <1>3
<1> QED BY <1>4

-----------------------------------------------------------------------------
(***************************************************************************)
(* Types.                                                                  *)
(***************************************************************************)
LEMMA LineIsEvent ==
  ASSUME NEW e \in {"line"} \X (1..MaxText) \X (1..MaxText)
  PROVE  e \in Events
BY DEF Events

LEMMA SaidIsEvent ==
  \A what \in {"about to kill", "terminated", "exception", "forcefully"} :
    Said(what) \in Events
BY DEF Events

LEMMA PiecesType ==
  ASSUME TypeOK, NEW from \in Nat \ {0}, NEW to \in 0..Len(printed)
  PROVE  Pieces(from, to) \subseteq {"line"} \X (1..MaxText) \X (1..MaxText)
<1>1. from..to \subseteq 1..MaxText
  BY BasicWorkerAssumption DEF TypeOK
<1> QED BY <1>1 DEF Pieces

LEMMA TypeOKInit == Init => TypeOK
<1> SUFFICES ASSUME Init PROVE TypeOK
  OBVIOUS
<1>1. /\ printed \in Seq({"x", "nl"}) /\ Len(printed) = 0
      /\ feed \in Seq(Events) /\ delivered \in Seq(Events)
  BY DEF Init
<1>2. Len(printed) <= MaxText /\ taken \in 0..Len(printed) /\ lines = {}
  BY <1>1, BasicWorkerAssumption DEF Init
<1> QED BY <1>1, <1>2 DEF Init, TypeOK

\* The feeder's queue takes events, and nothing else of the queue moves.
LEMMA PutType ==
  ASSUME TypeOK, NEW e \in Events, Put(e)
  PROVE  /\ feed' \in Seq(Events)
         /\ lock' = lock /\ delivered' = delivered
BY DEF TypeOK, Put

\* No step breaks a type: a chunk reaches no further than what is printed, and
\* only events are put.
LEMMA TypeOKNext == TypeOK /\ [Next]_vars => TypeOK'
<1> SUFFICES ASSUME TypeOK, [Next]_vars PROVE TypeOK'
  OBVIOUS
<1> USE BasicWorkerAssumption
<1>1. CASE Popen
  <2>1. CASE Put(Said("exception"))
    <3>1. Said("exception") \in Events
      BY SaidIsEvent
    <3>2. feed' \in Seq(Events) /\ lock' = lock /\ delivered' = delivered
      BY <2>1, <3>1, PutType
    <3> QED BY <1>1, <3>2 DEF Popen, TypeOK, process, reading, running, parent, queue
  <2>2. CASE ~ Put(Said("exception"))
    BY <1>1, <2>2 DEF Popen, TypeOK, process, reading, running, parent, queue
  <2> QED BY <2>1, <2>2
<1>2. CASE Poll
  BY <1>2 DEF Poll, TypeOK, process, reading, running, parent, queue
<1>3. CASE Terminate
  <2>1. Put(Said("about to kill")) /\ Said("about to kill") \in Events
    BY <1>3, SaidIsEvent DEF Terminate
  <2>2. feed' \in Seq(Events) /\ lock' = lock /\ delivered' = delivered
    BY <2>1, PutType
  <2> QED BY <1>3, <2>2 DEF Terminate, TypeOK, process, reading, running, parent
<1>4. CASE Wait
  BY <1>4 DEF Wait, TypeOK, process, reading, running, parent, queue
<1>5. CASE Join
  BY <1>5 DEF Join, TypeOK, process, reading, running, parent, queue
<1>6. CASE Conclude
  <2>1. Put(Said("terminated")) /\ Said("terminated") \in Events
    BY <1>6, SaidIsEvent DEF Conclude
  <2>2. feed' \in Seq(Events) /\ lock' = lock /\ delivered' = delivered
    BY <2>1, PutType
  <2> QED BY <1>6, <2>2 DEF Conclude, TypeOK, process, reading, running, parent
<1>7. CASE Leave
  <2>1. alive' \in BOOLEAN /\ UNCHANGED <<process, reading, running, parent, queue>>
    BY <1>7 DEF Leave
  <2> QED BY <2>1 DEF TypeOK, process, reading, running, parent, queue
<1>8. CASE ReadChunk
  <2> DEFINE rest == Len(printed) - taken
             n == IF rest < Chunk THEN rest ELSE Chunk
  <2>1. n \in Nat /\ n <= rest /\ taken \in Nat /\ Len(printed) \in Nat
    BY DEF TypeOK
  <2>2. lines' = Pieces(taken + 1, taken + n) /\ taken' = taken + n
    BY <1>8 DEF ReadChunk
  <2>3. taken + 1 \in Nat \ {0} /\ taken + n \in 0..Len(printed)
    BY <2>1 DEF TypeOK
  <2>4. /\ lines' \subseteq {"line"} \X (1..MaxText) \X (1..MaxText)
        /\ taken' \in 0..Len(printed)
    BY <2>2, <2>3, PiecesType
  <2>5. UNCHANGED <<process, reader, running, alive, parent, queue>>
    BY <1>8 DEF ReadChunk
  <2> QED BY <2>4, <2>5 DEF TypeOK, process, running, parent, queue
<1>9. CASE PutLine
  <2>1. PICK e \in lines : Put(e) /\ lines' = lines \ {e}
    BY <1>9 DEF PutLine
  <2>2. e \in Events
    BY LineIsEvent DEF TypeOK
  <2>3. feed' \in Seq(Events) /\ lock' = lock /\ delivered' = delivered
    BY <2>1, <2>2, PutType
  <2>4. UNCHANGED <<process, taken, reader, running, alive, parent>>
    BY <1>9 DEF PutLine
  <2> QED BY <2>1, <2>3, <2>4 DEF TypeOK, process, running, parent
<1>10. CASE EndOfOutput
  BY <1>10 DEF EndOfOutput, TypeOK, process, reading, running, parent, queue
<1>11. CASE Undecodable
  BY <1>11 DEF Undecodable, TypeOK, process, reading, running, parent, queue
<1>12. CASE Acquire
  BY <1>12 DEF Acquire, TypeOK, process, reading, running, parent, queue
<1>13. CASE Send
  <2>1. feed' \in Seq(Events) /\ delivered' \in Seq(Events)
    BY <1>13 DEF Send, TypeOK
  <2>2. lock' \in BOOLEAN /\ UNCHANGED <<process, reading, running, alive, parent>>
    BY <1>13 DEF Send
  <2> QED BY <2>1, <2>2 DEF TypeOK, process, reading, running, parent
<1>14. CASE SendTold
  <2>1. Said("forcefully") \in Events
    BY SaidIsEvent
  <2>2. delivered' \in Seq(Events)
    BY <1>14, <2>1 DEF SendTold, TypeOK
  <2>3. told' \in BOOLEAN /\ UNCHANGED <<process, reading, running, alive, exit, call, feed, lock>>
    BY <1>14 DEF SendTold
  <2> QED BY <2>2, <2>3 DEF TypeOK, process, reading, running
<1>15. CASE Exit
  BY <1>15 DEF Exit, TypeOK, process, reading, running, parent, queue
<1>16. CASE \E c \in {"x", "nl"} : Write(c)
  BY <1>16 DEF Write, TypeOK, process, reading, running, parent, queue
<1>17. CASE Call
  <2>1. UNCHANGED <<process, reading, running, alive, told, queue>>
    BY <1>17 DEF Call
  <2>2. call' \in {"join", "raised"} /\ exit' \in BOOLEAN
    BY <1>17 DEF Call, TypeOK
  <2> QED BY <2>1, <2>2 DEF TypeOK, process, reading, running, queue
<1>18. CASE Joined
  BY <1>18 DEF Joined, TypeOK, process, reading, running, parent, queue
<1>19. CASE Kill
  BY <1>19 DEF Kill, TypeOK, process, reading, running, parent, queue
<1>20. CASE UNCHANGED vars
  BY <1>20 DEF vars, TypeOK, process, reading, running, parent, queue
<1> QED BY <1>1, <1>2, <1>3, <1>4, <1>5, <1>6, <1>7, <1>8, <1>9, <1>10, <1>11, <1>12,
           <1>13, <1>14, <1>15, <1>16, <1>17, <1>18, <1>19, <1>20
  DEF Next, Run, Reader, Feeder, Command

\* The types, for every size of the chunk, of the pipe and of the output.
THEOREM TypeCorrect == Spec => []TypeOK
<1> QED BY TypeOKInit, TypeOKNext, PTL DEF Spec

-----------------------------------------------------------------------------
(***************************************************************************)
(* The command and its exit code.                                          *)
(***************************************************************************)

\* What run() has of its command, wherever it stands: the event follows the
\* command's end, which nothing but the command brings about.
CommandAt ==
    /\ main = "popen" => sp = "none" /\ outcome = "none"
    /\ main \in {"loop", "kill", "wait"} => sp # "none" /\ outcome = "none"
    /\ main \in {"join", "last"} => Exited /\ outcome = sp
    /\ main = "ended" => sp = outcome /\ sp # "running"

LEMMA CommandAtNext == TypeOK /\ CommandAt /\ [Next]_vars => CommandAt'
<1> SUFFICES ASSUME TypeOK, CommandAt, [Next]_vars PROVE CommandAt'
  OBVIOUS
<1>1. CASE Popen
  BY <1>1 DEF Popen, CommandAt, Exited, process, running, TypeOK
<1>2. CASE Poll
  BY <1>2 DEF Poll, CommandAt, Exited, process, running, TypeOK
<1>3. CASE Terminate
  BY <1>3 DEF Terminate, CommandAt, Exited, process, running, TypeOK
<1>4. CASE Wait
  BY <1>4 DEF Wait, CommandAt, Exited, process, running, TypeOK
<1>5. CASE Join
  BY <1>5 DEF Join, CommandAt, Exited, process, running, TypeOK
<1>6. CASE Conclude
  BY <1>6 DEF Conclude, CommandAt, Exited, process, running, TypeOK
<1>7. CASE Leave \/ Reader \/ Feeder \/ SendTold \/ Call \/ Joined \/ Kill \/ UNCHANGED vars
  <2>1. UNCHANGED <<process, running>>
    BY <1>7 DEF Leave, Reader, ReadChunk, PutLine, EndOfOutput, Undecodable, Feeder,
      Acquire, Send, SendTold, Call, Joined, Kill, vars, running, process
  <2> QED BY <2>1 DEF CommandAt, Exited, process, running
<1>8. CASE Command
  <2>1. sp = "running" /\ UNCHANGED running /\ sp' \in {"running", "ok", "failed"}
    BY <1>8 DEF Command, Exit, Write, running
  <2> QED BY <2>1 DEF CommandAt, Exited, running
<1> QED BY <1>1, <1>2, <1>3, <1>4, <1>5, <1>6, <1>7, <1>8
  DEF Next, Run

\* A worker that comes to its end has left no command running, and has set the
\* event of its exit code: Wait holds back what follows until the command is gone.
THEOREM NothingLeft == Spec => []LeavesNothingBehind
<1>1. Init => CommandAt
  BY DEF Init, CommandAt
<1>2. CommandAt => LeavesNothingBehind
  BY DEF CommandAt, LeavesNothingBehind
<1> QED BY <1>1, <1>2, TypeOKInit, TypeOKNext, CommandAtNext, PTL DEF Spec

-----------------------------------------------------------------------------
(***************************************************************************)
(* The text.  An event of a line is in the thread that cuts (lines), in    *)
(* the feeder's queue (feed), or has arrived (delivered).                  *)
(***************************************************************************)
IsText(e) == e[1] = "line"
Holds(e, p) == IsText(e) /\ e[2] <= p /\ p <= e[3]

\* What has been read is some chunks, and a last one that ends the output.
TakenAt == (\E n \in Nat : taken = n * Chunk) \/ (Exited /\ taken = Len(printed))

StartsLine(i) == i = 1 \/ printed[i - 1] = "nl" \/ (i - 1) % Chunk = 0
Placed(e) == IsText(e) =>
    e[2] \in 1..taken /\ e[3] \in 1..taken /\ e[2] <= e[3] /\ StartsLine(e[2])
AllPlaced ==
    /\ \A e \in lines : Placed(e)
    /\ \A k \in DOMAIN feed : Placed(feed[k])
    /\ \A k \in DOMAIN delivered : Placed(delivered[k])

Precedes(e, f) == IsText(e) /\ IsText(f) => e[3] < f[2]
InOrder ==
    /\ \A e, f \in lines : e = f \/ Precedes(e, f) \/ Precedes(f, e)
    /\ \A k \in DOMAIN feed : \A e \in lines : Precedes(feed[k], e)
    /\ \A k, l \in DOMAIN feed : k < l => Precedes(feed[k], feed[l])
    /\ \A k \in DOMAIN delivered : \A e \in lines : Precedes(delivered[k], e)
    /\ \A k \in DOMAIN delivered : \A l \in DOMAIN feed : Precedes(delivered[k], feed[l])
    /\ \A k, l \in DOMAIN delivered : k < l => Precedes(delivered[k], delivered[l])

\* One of the first n events of s holds the character at p.
Within(s, p, n) == \E k \in 1..n : Holds(s[k], p)
Covered ==
    \A p \in 1..taken : printed[p] = "x" =>
        (\E e \in lines : Holds(e, p)) \/ Within(feed, p, Len(feed)) \/ Within(delivered, p, Len(delivered))

\* The thread that cuts ends with nothing left to put, and by itself only at the
\* end of the output.
ReaderAt ==
    /\ reader # "reading" => lines = {}
    /\ reader = "done" => Exited /\ taken = Len(printed)
    /\ main = "last" => reader \in {"done", "dead"}
    /\ main = "popen" => reader = "none"

Last == Said("terminated")
LastIsLast ==
    /\ \A k \in DOMAIN feed : feed[k] = Last =>
        /\ main = "ended" /\ reader \in {"done", "dead"}
        /\ reader = "done" => \A p \in DOMAIN printed : printed[p] = "x" =>
            Within(feed, p, k) \/ Within(delivered, p, Len(delivered))
    /\ \A k \in DOMAIN delivered : delivered[k] = Last =>
        /\ main = "ended" /\ reader \in {"done", "dead"}
        /\ reader = "done" => \A p \in DOMAIN printed : printed[p] = "x" => Within(delivered, p, k)

Text == TakenAt /\ AllPlaced /\ InOrder /\ Covered /\ ReaderAt /\ LastIsLast

LEMMA AppendAt ==
  ASSUME NEW S, NEW s \in Seq(S), NEW e \in S
  PROVE  /\ DOMAIN s = 1..Len(s) /\ Len(s) \in Nat
         /\ DOMAIN Append(s, e) = 1..(Len(s) + 1) /\ Len(Append(s, e)) = Len(s) + 1
         /\ \A k \in 1..Len(s) : Append(s, e)[k] = s[k]
         /\ Append(s, e)[Len(s) + 1] = e
OBVIOUS

LEMMA TailAt ==
  ASSUME NEW S, NEW s \in Seq(S), s # <<>>
  PROVE  /\ DOMAIN s = 1..Len(s) /\ Len(s) \in Nat \ {0}
         /\ DOMAIN Tail(s) = 1..(Len(s) - 1) /\ Len(Tail(s)) = Len(s) - 1
         /\ \A k \in 1..(Len(s) - 1) : Tail(s)[k] = s[k + 1]
         /\ Head(s) = s[1] /\ Head(s) \in S
OBVIOUS

LEMMA EventAt == \A e \in Events : e[2] \in Nat /\ e[3] \in Nat
<1> SUFFICES ASSUME NEW e \in Events PROVE e[2] \in Nat /\ e[3] \in Nat
  OBVIOUS
<1>1. CASE e \in {"line"} \X (1..MaxText) \X (1..MaxText)
  BY <1>1, BasicWorkerAssumption
<1>2. CASE e \in {Said(what) : what \in {"about to kill", "terminated", "exception", "forcefully"}}
  <2>1. PICK what : e = <<what, 0, 0>>
    BY <1>2 DEF Said
  <2> QED BY <2>1
<1> QED BY <1>1, <1>2 DEF Events

LEMMA SaidIsNoText ==
  \A what \in {"about to kill", "terminated", "exception", "forcefully"} :
    ~ IsText(Said(what)) /\ (Said(what) = Last => what = "terminated")
BY DEF IsText, Said, Last

LEMMA PositionsAreNat == TypeOK => taken \in Nat /\ Len(printed) \in Nat /\ taken <= Len(printed)
BY DEF TypeOK

\* A chunk that starts behind whole chunks starts at a multiple of Chunk.
LEMMA ChunkStarts ==
  ASSUME NEW a \in Nat, NEW n \in Nat, a = n * Chunk
  PROVE  a % Chunk = 0 /\ a + Chunk = (n + 1) * Chunk
BY BasicWorkerAssumption, SMT

-----------------------------------------------------------------------------
(***************************************************************************)
(* Pieces: the maximal runs of "x".                                        *)
(***************************************************************************)
LEMMA PiecesApart ==
  ASSUME TypeOK, NEW from \in Nat \ {0}, NEW to \in 0..Len(printed),
         NEW e \in Pieces(from, to), NEW f \in Pieces(from, to), e # f
  PROVE  e[3] < f[2] \/ f[3] < e[2]
<1> SUFFICES ASSUME e[2] <= f[3], f[2] <= e[3] PROVE FALSE
  <2>1. /\ e[2] \in Nat /\ e[3] \in Nat /\ f[2] \in Nat /\ f[3] \in Nat
    BY DEF Pieces
  <2> QED BY <2>1
<1>1. /\ e \in {"line"} \X (from..to) \X (from..to)
      /\ f \in {"line"} \X (from..to) \X (from..to)
      /\ e[2] <= e[3] /\ f[2] <= f[3]
  BY DEF Pieces
<1>2. /\ \A p \in e[2]..e[3] : printed[p] = "x"
      /\ \A p \in f[2]..f[3] : printed[p] = "x"
  BY DEF Pieces
<1>3. /\ e[2] = from \/ printed[e[2] - 1] = "nl"
      /\ f[2] = from \/ printed[f[2] - 1] = "nl"
      /\ e[3] = to \/ printed[e[3] + 1] = "nl"
      /\ f[3] = to \/ printed[f[3] + 1] = "nl"
  BY DEF Pieces
<1>4. /\ e[2] \in from..to /\ e[3] \in from..to /\ f[2] \in from..to /\ f[3] \in from..to
      /\ to \in Nat
  BY <1>1
<1>5. ~ (e[2] < f[2])
  <2>1. e[2] < f[2] => f[2] - 1 \in e[2]..e[3] /\ f[2] # from
    BY <1>4
  <2> QED BY <2>1, <1>2, <1>3
<1>6. ~ (f[2] < e[2])
  <2>1. f[2] < e[2] => e[2] - 1 \in f[2]..f[3] /\ e[2] # from
    BY <1>4
  <2> QED BY <2>1, <1>2, <1>3
<1>7. ~ (e[3] < f[3])
  <2>1. e[3] < f[3] => e[3] + 1 \in f[2]..f[3] /\ e[3] # to
    BY <1>4
  <2> QED BY <2>1, <1>2, <1>3
<1>8. ~ (f[3] < e[3])
  <2>1. f[3] < e[3] => f[3] + 1 \in e[2]..e[3] /\ f[3] # to
    BY <1>4
  <2> QED BY <2>1, <1>2, <1>3
<1>9. e[2] = f[2] /\ e[3] = f[3]
  BY <1>4, <1>5, <1>6, <1>7, <1>8
<1> QED BY <1>1, <1>9

\* The run around a position goes back to the least position that only "x" lie
\* behind, and on to the greatest.
LEMMA PiecesCover ==
  ASSUME TypeOK, NEW from \in Nat \ {0}, NEW to \in 0..Len(printed),
         NEW p \in from..to, printed[p] = "x"
  PROVE  \E e \in Pieces(from, to) : IsText(e) /\ e[2] <= p /\ p <= e[3]
<1> DEFINE Back == {i \in from..p : \A q \in i..p : printed[q] = "x"}
           Forth == {j \in p..to : \A q \in p..j : printed[q] = "x"}
<1>1. p \in Nat /\ to \in Nat /\ from <= p /\ p <= to
  OBVIOUS
<1>2. \A q \in from..to : printed[q] \in {"x", "nl"}
  <2>1. from..to \subseteq 1..Len(printed)
    OBVIOUS
  <2> QED BY <2>1 DEF TypeOK
<1>3. p \in Back /\ p \in Forth
  BY <1>1
<1>4. PICK i \in Back : \A y \in Back : i <= y
  <2>1. \A y \in from..p : y \in Nat
    OBVIOUS
  <2>2. Back \in SUBSET Nat /\ Back # {}
    BY <2>1, <1>3
  <2> HIDE DEF Back
  <2> QED BY <2>2, Least
<1>5. PICK j \in Forth : \A y \in Forth : y <= j
  <2>1. Forth \in SUBSET Nat /\ Forth # {} /\ \A y \in Forth : y <= to
    BY <1>1, <1>3
  <2> HIDE DEF Forth
  <2> QED BY <2>1, <1>1, Greatest
<1>6. i \in from..p /\ j \in p..to /\ i <= j
  BY <1>1
<1>7. \A q \in i..j : printed[q] = "x"
  <2>1. \A q \in i..j : q \in i..p \/ q \in p..j
    BY <1>1, <1>6
  <2> QED BY <2>1
<1>8. i = from \/ printed[i - 1] = "nl"
  <2> SUFFICES ASSUME i # from, printed[i - 1] = "x" PROVE FALSE
    BY <1>1, <1>2, <1>6
  <2>1. i - 1 \in from..p
    BY <1>1, <1>6
  <2>2. \A q \in (i - 1)..p : printed[q] = "x"
    <3>1. \A q \in (i - 1)..p : q = i - 1 \/ q \in i..p
      BY <1>1, <1>6
    <3> QED BY <3>1
  <2>3. i - 1 \in Back
    BY <2>1, <2>2
  <2> HIDE DEF Back
  <2> QED BY <2>3, <1>4, <1>1, <1>6
<1>9. j = to \/ printed[j + 1] = "nl"
  <2> SUFFICES ASSUME j # to, printed[j + 1] = "x" PROVE FALSE
    BY <1>1, <1>2, <1>6
  <2>1. j + 1 \in p..to
    BY <1>1, <1>6
  <2>2. \A q \in p..(j + 1) : printed[q] = "x"
    <3>1. \A q \in p..(j + 1) : q = j + 1 \/ q \in p..j
      BY <1>1, <1>6
    <3> QED BY <3>1
  <2>3. j + 1 \in Forth
    BY <2>1, <2>2
  <2> HIDE DEF Forth
  <2> QED BY <2>3, <1>5, <1>1, <1>6
<1>10. Line(i, j) \in Pieces(from, to)
  <2>1. i \in from..to /\ j \in from..to
    BY <1>1, <1>6
  <2> HIDE DEF Back, Forth
  <2> QED BY <2>1, <1>6, <1>7, <1>8, <1>9 DEF Pieces, Line
<1> QED BY <1>6, <1>10 DEF Line, IsText

-----------------------------------------------------------------------------
(***************************************************************************)
(* No step loses the text.                                                 *)
(***************************************************************************)
Texts == <<printed, taken, lines, feed, delivered>>

\* A step that moves no text, lets the command end only once and does not start
\* again what has ended.
LEMMA TextKept ==
  ASSUME TypeOK, Text, UNCHANGED Texts, ReaderAt',
         Exited => Exited',
         main = "ended" => main' = "ended",
         reader \in {"done", "dead"} => reader' = reader
  PROVE  Text'
<1>1. TakenAt'
  BY DEF Text, TakenAt, Texts
<1>2. AllPlaced' /\ InOrder'
  BY DEF Text, AllPlaced, InOrder, Placed, StartsLine, Texts
<1>3. Covered'
  BY DEF Text, Covered, Texts
<1>4. LastIsLast'
  BY DEF Text, LastIsLast, Texts
<1> QED BY <1>1, <1>2, <1>3, <1>4 DEF Text

\* A report that is not a line, from run(); the last one only when the thread
\* that cuts has ended.
LEMMA TextSaid ==
  ASSUME TypeOK, Text, UNCHANGED <<sp, printed, taken, lines, reader, delivered>>,
         NEW e \in Events, ~ IsText(e), feed' = Append(feed, e),
         main = "ended" => main' = "ended",
         main' \notin {"popen", "last"},
         e = Last => main' = "ended" /\ reader \in {"done", "dead"}
  PROVE  Text'
<1> DEFINE n == Len(feed)
<1>1. /\ DOMAIN feed = 1..n /\ n \in Nat
      /\ DOMAIN feed' = 1..(n + 1) /\ Len(feed') = n + 1
      /\ \A k \in 1..n : feed'[k] = feed[k]
      /\ feed'[n + 1] = e
  <2>1. feed \in Seq(Events)
    BY DEF TypeOK
  <2> QED BY <2>1, AppendAt
<1> HIDE DEF n
<1>2. \A k \in DOMAIN feed' : (k \in 1..n /\ k \in DOMAIN feed /\ feed'[k] = feed[k])
                              \/ (k = n + 1 /\ feed'[k] = e)
  BY <1>1
<1>3. TakenAt'
  BY DEF Text, TakenAt, Exited
<1>4. AllPlaced'
  BY <1>2 DEF Text, AllPlaced, Placed, StartsLine, IsText
<1>5. InOrder'
  <2>1. \A k \in DOMAIN feed' : \A f \in lines' : Precedes(feed'[k], f)
    BY <1>2 DEF Text, InOrder, Precedes, IsText
  <2>2. \A k, l \in DOMAIN feed' : k < l => Precedes(feed'[k], feed'[l])
    <3> SUFFICES ASSUME NEW k \in DOMAIN feed', NEW l \in DOMAIN feed', k < l,
                        IsText(feed'[k]), IsText(feed'[l])
                 PROVE  feed'[k][3] < feed'[l][2]
      BY DEF Precedes
    <3>1. k \in DOMAIN feed /\ l \in DOMAIN feed /\ feed'[k] = feed[k] /\ feed'[l] = feed[l]
      BY <1>2
    <3> QED BY <3>1 DEF Text, InOrder, Precedes
  <2>3. \A k \in DOMAIN delivered' : \A l \in DOMAIN feed' : Precedes(delivered'[k], feed'[l])
    BY <1>2 DEF Text, InOrder, Precedes, IsText
  <2> QED BY <2>1, <2>2, <2>3 DEF Text, InOrder, Precedes, IsText
<1>6. \A p, m : m \in 0..n /\ Within(feed, p, m) => Within(feed', p, m) /\ Within(feed', p, n + 1)
  <2> SUFFICES ASSUME NEW p, NEW m \in 0..n, NEW k \in 1..m, Holds(feed[k], p)
               PROVE  k \in 1..(n + 1) /\ Holds(feed'[k], p)
    BY DEF Within
  <2> QED BY <1>1
<1>7. delivered' = delivered
  OBVIOUS
<1>8. Len(delivered') = Len(delivered) /\ Len(feed') = n + 1 /\ n \in 0..n
  BY <1>1
<1>9. Covered'
  <2>1. \A p \in 1..taken : Within(feed, p, n) => Within(feed', p, n + 1)
    BY <1>6, <1>8
  <2>2. ASSUME NEW p \in 1..taken', printed'[p] = "x"
        PROVE  (\E f \in lines' : Holds(f, p)) \/ Within(feed', p, n + 1) \/ Within(delivered', p, Len(delivered'))
    <3>1. (\E f \in lines : Holds(f, p)) \/ Within(feed, p, n) \/ Within(delivered, p, Len(delivered))
      BY <2>2 DEF Text, Covered, n
    <3> QED BY <3>1, <2>1, <2>2, <1>7
  <2> QED BY <2>2, <1>8 DEF Covered
<1>10. ReaderAt'
  BY DEF Text, ReaderAt, Exited
<1>11. LastIsLast'
  <2>1. ASSUME NEW k \in DOMAIN feed', feed'[k] = Last
        PROVE  /\ main' = "ended" /\ reader' \in {"done", "dead"}
               /\ reader' = "done" => \A p \in DOMAIN printed' : printed'[p] = "x" =>
                    Within(feed', p, k) \/ Within(delivered', p, Len(delivered'))
    <3>1. CASE k \in 1..n /\ k \in DOMAIN feed /\ feed'[k] = feed[k]
      <4>1. /\ main = "ended" /\ reader \in {"done", "dead"}
            /\ reader = "done" => \A p \in DOMAIN printed : printed[p] = "x" =>
                 Within(feed, p, k) \/ Within(delivered, p, Len(delivered))
        BY <2>1, <3>1 DEF Text, LastIsLast
      <4>2. k \in 0..n
        BY <3>1, <1>1
      <4> QED BY <4>1, <4>2, <1>6, <1>7, <1>8
    <3>2. CASE k = n + 1 /\ feed'[k] = e
      <4>1. main' = "ended" /\ reader \in {"done", "dead"}
        BY <2>1, <3>2
      <4>2. reader = "done" => DOMAIN printed = 1..taken /\ lines = {}
        BY DEF Text, ReaderAt, TypeOK
      <4>3. reader = "done" => \A p \in DOMAIN printed : printed[p] = "x" =>
              Within(feed, p, n) \/ Within(delivered, p, Len(delivered))
        BY <4>2 DEF Text, Covered, n
      <4> QED BY <4>1, <4>3, <3>2, <1>6, <1>7, <1>8
    <3> QED BY <1>2, <3>1, <3>2
  <2>2. ASSUME NEW k \in DOMAIN delivered', delivered'[k] = Last
        PROVE  /\ main' = "ended" /\ reader' \in {"done", "dead"}
               /\ reader' = "done" => \A p \in DOMAIN printed' : printed'[p] = "x" =>
                    Within(delivered', p, k)
    BY <2>2, <1>7 DEF Text, LastIsLast
  <2> QED BY <2>1, <2>2 DEF LastIsLast
<1> QED BY <1>3, <1>4, <1>5, <1>9, <1>10, <1>11 DEF Text

\* The first of the lines that are left joins the feeder's queue.
LEMMA TextPut == TypeOK /\ Text /\ PutLine => Text'
<1> SUFFICES ASSUME TypeOK, Text, PutLine PROVE Text'
  OBVIOUS
<1> DEFINE n == Len(feed)
<1>1. PICK e \in lines : /\ \A f \in lines : e[2] <= f[2]
                         /\ feed' = Append(feed, e) /\ lines' = lines \ {e}
  BY DEF PutLine, Put
<1>2. UNCHANGED <<sp, printed, taken, reader, main, delivered>> /\ reader = "reading"
  BY DEF PutLine, Put, process, running
<1>3. /\ DOMAIN feed = 1..n /\ n \in Nat
      /\ DOMAIN feed' = 1..(n + 1) /\ Len(feed') = n + 1
      /\ \A k \in 1..n : feed'[k] = feed[k]
      /\ feed'[n + 1] = e
  <2>1. feed \in Seq(Events) /\ e \in Events
    BY LineIsEvent DEF TypeOK
  <2> QED BY <1>1, <2>1, AppendAt
<1> HIDE DEF n
<1>4. \A k \in DOMAIN feed' : (k \in 1..n /\ k \in DOMAIN feed /\ feed'[k] = feed[k])
                              \/ (k = n + 1 /\ feed'[k] = e)
  BY <1>3
<1>5. lines' \subseteq lines /\ e \notin lines'
  BY <1>1
<1>6. TakenAt'
  BY <1>2 DEF Text, TakenAt, Exited
<1>7. AllPlaced'
  BY <1>1, <1>2, <1>4, <1>5 DEF Text, AllPlaced, Placed, StartsLine, IsText
<1>8. \A f \in lines' : Precedes(e, f)
  <2> SUFFICES ASSUME NEW f \in lines', IsText(e), IsText(f) PROVE e[3] < f[2]
    BY DEF Precedes
  <2>1. f \in lines /\ e # f /\ e[2] <= f[2]
    BY <1>1, <1>5
  <2>2. Placed(e) /\ Placed(f) /\ taken \in Nat
    BY <2>1, PositionsAreNat DEF Text, AllPlaced
  <2>3. e[3] < f[2] \/ f[3] < e[2]
    BY <2>1 DEF Text, InOrder, Precedes
  <2>4. e[2] \in Nat /\ e[3] \in Nat /\ f[2] \in Nat /\ f[3] \in Nat /\ f[2] <= f[3]
    BY <2>2 DEF Placed
  <2> QED BY <2>1, <2>3, <2>4
<1>9. InOrder'
  <2>1. \A k \in DOMAIN feed' : \A f \in lines' : Precedes(feed'[k], f)
    BY <1>4, <1>5, <1>8 DEF Text, InOrder
  <2>2. \A k, l \in DOMAIN feed' : k < l => Precedes(feed'[k], feed'[l])
    <3> SUFFICES ASSUME NEW k \in DOMAIN feed', NEW l \in DOMAIN feed', k < l
                 PROVE  Precedes(feed'[k], feed'[l])
      OBVIOUS
    <3>1. k \in DOMAIN feed /\ feed'[k] = feed[k]
      BY <1>3, <1>4
    <3>2. CASE l \in DOMAIN feed /\ feed'[l] = feed[l]
      BY <3>1, <3>2 DEF Text, InOrder
    <3>3. CASE feed'[l] = e
      BY <1>1, <3>1, <3>3 DEF Text, InOrder
    <3> QED BY <1>4, <3>2, <3>3
  <2>3. \A k \in DOMAIN delivered' : \A l \in DOMAIN feed' : Precedes(delivered'[k], feed'[l])
    BY <1>1, <1>2, <1>4 DEF Text, InOrder
  <2>4. /\ \A d, f \in lines' : d = f \/ Precedes(d, f) \/ Precedes(f, d)
        /\ \A k \in DOMAIN delivered' : \A f \in lines' : Precedes(delivered'[k], f)
        /\ \A k, l \in DOMAIN delivered' : k < l => Precedes(delivered'[k], delivered'[l])
    BY <1>2, <1>5 DEF Text, InOrder
  <2> QED BY <2>1, <2>2, <2>3, <2>4 DEF InOrder
<1>10. Covered'
  <2> SUFFICES ASSUME NEW p \in 1..taken, printed[p] = "x"
               PROVE  \/ \E f \in lines' : Holds(f, p)
                      \/ Within(feed', p, n + 1)
                      \/ Within(delivered, p, Len(delivered))
    BY <1>2, <1>3 DEF Covered
  <2>1. \/ \E f \in lines : Holds(f, p)
        \/ Within(feed, p, n)
        \/ Within(delivered, p, Len(delivered))
    BY DEF Text, Covered, n
  <2>2. Holds(e, p) => Within(feed', p, n + 1)
    BY <1>3 DEF Within
  <2>3. Within(feed, p, n) => Within(feed', p, n + 1)
    BY <1>3 DEF Within
  <2> QED BY <1>1, <2>1, <2>2, <2>3
<1>11. ReaderAt' /\ LastIsLast'
  <2>1. ~ (e = Last)
    BY <1>1 DEF TypeOK, Last, Said
  <2>2. \A k \in DOMAIN feed' : feed'[k] # Last
    BY <1>2, <1>4, <2>1 DEF Text, LastIsLast
  <2>3. \A k \in DOMAIN delivered' : delivered'[k] # Last
    BY <1>2 DEF Text, LastIsLast
  <2>4. ReaderAt'
    BY <1>2 DEF Text, ReaderAt
  <2> QED BY <2>2, <2>3, <2>4 DEF LastIsLast
<1> QED BY <1>6, <1>7, <1>9, <1>10, <1>11 DEF Text

\* A new chunk: its pieces lie behind all that has been read.
LEMMA TextRead == TypeOK /\ Text /\ ReadChunk => Text'
<1> SUFFICES ASSUME TypeOK, Text, ReadChunk PROVE Text'
  OBVIOUS
<1>1. /\ taken \in Nat /\ Len(printed) \in Nat /\ taken <= Len(printed) /\ Chunk \in Nat \ {0}
  BY PositionsAreNat, BasicWorkerAssumption DEF TypeOK
<1>2. UNCHANGED <<sp, printed, reader, main, feed, delivered>> /\ reader = "reading"
      /\ lines = {}
  BY DEF ReadChunk, process, running, queue
<1>3. PICK n \in Nat \ {0} :
        /\ lines' = Pieces(taken + 1, taken + n) /\ taken' = taken + n
        /\ taken + n <= Len(printed)
        /\ n = Chunk \/ (Exited /\ taken + n = Len(printed))
  <2> DEFINE rest == Len(printed) - taken
             m == IF rest < Chunk THEN rest ELSE Chunk
  <2>1. /\ lines' = Pieces(taken + 1, taken + m) /\ taken' = taken + m
        /\ m = Chunk \/ (Exited /\ m > 0)
    BY DEF ReadChunk
  <2>2. rest \in Nat /\ m \in Nat /\ m <= rest /\ (m = Chunk \/ m = rest)
    BY <1>1
  <2>3. m # 0
    BY <1>1, <2>1
  <2>4. taken + m <= Len(printed) /\ (m = rest => taken + m = Len(printed))
    <3> HIDE DEF m
    <3> QED BY <1>1, <2>2
  <2> HIDE DEF m, rest
  <2> QED BY <2>1, <2>2, <2>3, <2>4
<1>4. taken' \in Nat /\ taken < taken'
  BY <1>1, <1>3
<1>5. taken + 1 \in Nat \ {0} /\ taken + n \in 0..Len(printed)
  BY <1>1, <1>3
<1>6. PICK m \in Nat : taken = m * Chunk
  <2>1. ~ (taken = Len(printed))
    BY <1>1, <1>3
  <2> QED BY <2>1 DEF Text, TakenAt
<1>7. taken % Chunk = 0 /\ taken + Chunk = (m + 1) * Chunk
  BY <1>1, <1>6, ChunkStarts
<1>8. TakenAt'
  <2>1. CASE n = Chunk
    <3>1. taken' = (m + 1) * Chunk /\ m + 1 \in Nat
      BY <1>3, <1>7, <2>1
    <3> QED BY <3>1 DEF TakenAt
  <2>2. CASE n # Chunk
    <3>1. Exited /\ taken' = Len(printed)
      BY <1>3, <2>2
    <3> QED BY <1>2, <3>1 DEF TakenAt, Exited
  <2> QED BY <2>1, <2>2
<1>9. \A e \in lines' : e[2] \in (taken + 1)..(taken + n) /\ e[3] \in (taken + 1)..(taken + n)
                        /\ e[2] <= e[3] /\ (e[2] = taken + 1 \/ printed[e[2] - 1] = "nl")
  BY <1>3 DEF Pieces
<1>10. AllPlaced'
  <2>1. ASSUME NEW e \in lines' PROVE Placed(e)'
    <3>1. /\ e[2] \in 1..taken' /\ e[3] \in 1..taken' /\ e[2] <= e[3]
          /\ e[2] = taken + 1 \/ printed[e[2] - 1] = "nl"
      BY <1>1, <1>3, <1>9
    <3>2. e[2] = taken + 1 => (e[2] - 1) % Chunk = 0
      BY <1>1, <1>7
    <3> QED BY <1>2, <3>1, <3>2 DEF Placed, StartsLine
  <2>2. 1..taken \subseteq 1..taken'
    BY <1>1, <1>4
  <2>3. /\ (\A k \in DOMAIN feed : Placed(feed[k]))'
        /\ (\A k \in DOMAIN delivered : Placed(delivered[k]))'
    BY <1>2, <2>2 DEF Text, AllPlaced, Placed, StartsLine
  <2> QED BY <2>1, <2>3 DEF AllPlaced
<1>11. InOrder'
  <2>1. \A d, f \in lines' : d = f \/ Precedes(d, f) \/ Precedes(f, d)
    BY <1>3, <1>5, PiecesApart DEF Precedes
  <2>2. ASSUME NEW d, Placed(d), NEW f \in lines' PROVE Precedes(d, f)
    BY <1>1, <1>3, <1>9, <2>2 DEF Placed, Precedes
  <2>3. /\ \A k \in DOMAIN feed' : \A f \in lines' : Precedes(feed'[k], f)
        /\ \A k \in DOMAIN delivered' : \A f \in lines' : Precedes(delivered'[k], f)
    BY <1>2, <2>2 DEF Text, AllPlaced
  <2>4. /\ \A k, l \in DOMAIN feed' : k < l => Precedes(feed'[k], feed'[l])
        /\ \A k \in DOMAIN delivered' : \A l \in DOMAIN feed' : Precedes(delivered'[k], feed'[l])
        /\ \A k, l \in DOMAIN delivered' : k < l => Precedes(delivered'[k], delivered'[l])
    BY <1>2 DEF Text, InOrder
  <2> QED BY <2>1, <2>3, <2>4 DEF InOrder
<1>12. Covered'
  <2> SUFFICES ASSUME NEW p \in 1..(taken + n), printed[p] = "x"
               PROVE  \/ \E f \in lines' : Holds(f, p)
                      \/ Within(feed, p, Len(feed))
                      \/ Within(delivered, p, Len(delivered))
    BY <1>2, <1>3 DEF Covered
  <2>1. CASE p \in 1..taken
    BY <1>2, <2>1 DEF Text, Covered
  <2>2. CASE p \in (taken + 1)..(taken + n)
    <3>1. \E f \in Pieces(taken + 1, taken + n) : IsText(f) /\ f[2] <= p /\ p <= f[3]
      BY <1>5, <2>2, PiecesCover
    <3> QED BY <1>3, <3>1 DEF Holds
  <2> QED BY <1>1, <1>3, <2>1, <2>2
<1>13. ReaderAt' /\ LastIsLast'
  BY <1>2 DEF Text, ReaderAt, LastIsLast
<1> QED BY <1>8, <1>10, <1>11, <1>12, <1>13 DEF Text

\* The feeder sends its oldest event.
LEMMA TextSent == TypeOK /\ Text /\ Send => Text'
<1> SUFFICES ASSUME TypeOK, Text, Send PROVE Text'
  OBVIOUS
<1> DEFINE n == Len(feed)
           m == Len(delivered)
           e == feed[1]
<1>1. /\ feed # <<>> /\ delivered' = Append(delivered, Head(feed)) /\ feed' = Tail(feed)
      /\ UNCHANGED <<sp, printed, taken, lines, reader, main>>
  BY DEF Send, process, reading, running
<1>2. /\ DOMAIN feed = 1..n /\ n \in Nat \ {0} /\ Head(feed) = e /\ e \in Events
      /\ DOMAIN feed' = 1..(n - 1) /\ Len(feed') = n - 1
      /\ \A k \in 1..(n - 1) : feed'[k] = feed[k + 1]
  <2>1. feed \in Seq(Events)
    BY DEF TypeOK
  <2> QED BY <1>1, <2>1, TailAt
<1>3. /\ DOMAIN delivered = 1..m /\ m \in Nat
      /\ DOMAIN delivered' = 1..(m + 1) /\ Len(delivered') = m + 1
      /\ \A k \in 1..m : delivered'[k] = delivered[k]
      /\ delivered'[m + 1] = e
  <2>1. delivered \in Seq(Events)
    BY DEF TypeOK
  <2>2. delivered' = Append(delivered, e) /\ e \in Events
    BY <1>1, <1>2
  <2> HIDE DEF e
  <2> QED BY <2>1, <2>2, AppendAt
<1> HIDE DEF n, m, e
<1>4. \A k \in DOMAIN feed' : k + 1 \in DOMAIN feed /\ feed'[k] = feed[k + 1] /\ 1 < k + 1
  BY <1>2
<1>5. \A k \in DOMAIN delivered' : (k \in DOMAIN delivered /\ delivered'[k] = delivered[k])
                                   \/ (k = m + 1 /\ delivered'[k] = e)
  BY <1>3
<1>6. 1 \in DOMAIN feed /\ e = feed[1]
  BY <1>2 DEF e
<1>7. TakenAt'
  BY <1>1 DEF Text, TakenAt, Exited
<1>8. AllPlaced'
  BY <1>1, <1>4, <1>5, <1>6 DEF Text, AllPlaced, Placed, StartsLine
<1>9. InOrder'
  <2>1. \A k \in DOMAIN feed' : \A f \in lines' : Precedes(feed'[k], f)
    BY <1>1, <1>4 DEF Text, InOrder
  <2>2. \A k, l \in DOMAIN feed' : k < l => Precedes(feed'[k], feed'[l])
    <3> SUFFICES ASSUME NEW k \in DOMAIN feed', NEW l \in DOMAIN feed', k < l
                 PROVE  Precedes(feed'[k], feed'[l])
      OBVIOUS
    <3>1. k + 1 < l + 1 /\ k + 1 \in DOMAIN feed /\ l + 1 \in DOMAIN feed
      BY <1>2, <1>4
    <3>2. Precedes(feed[k + 1], feed[l + 1])
      BY <3>1 DEF Text, InOrder
    <3> QED BY <1>4, <3>2
  <2>3. \A l \in DOMAIN feed' : Precedes(e, feed'[l])
    BY <1>4, <1>6 DEF Text, InOrder
  <2>4. \A k \in DOMAIN delivered' : \A l \in DOMAIN feed' : Precedes(delivered'[k], feed'[l])
    BY <1>4, <1>5, <2>3 DEF Text, InOrder
  <2>5. \A k \in DOMAIN delivered' : \A f \in lines' : Precedes(delivered'[k], f)
    BY <1>1, <1>5, <1>6 DEF Text, InOrder
  <2>6. \A k, l \in DOMAIN delivered' : k < l => Precedes(delivered'[k], delivered'[l])
    <3> SUFFICES ASSUME NEW k \in DOMAIN delivered', NEW l \in DOMAIN delivered', k < l
                 PROVE  Precedes(delivered'[k], delivered'[l])
      OBVIOUS
    <3>1. k \in DOMAIN delivered /\ delivered'[k] = delivered[k]
      BY <1>3
    <3>2. CASE l \in DOMAIN delivered /\ delivered'[l] = delivered[l]
      BY <3>1, <3>2 DEF Text, InOrder
    <3>3. CASE delivered'[l] = e
      BY <1>6, <3>1, <3>3 DEF Text, InOrder
    <3> QED BY <1>5, <3>2, <3>3
  <2>7. \A d, f \in lines' : d = f \/ Precedes(d, f) \/ Precedes(f, d)
    BY <1>1 DEF Text, InOrder
  <2> QED BY <2>1, <2>2, <2>4, <2>5, <2>6, <2>7 DEF InOrder
<1>10. \A p, k : k \in 0..m /\ Within(delivered, p, k)
                  => Within(delivered', p, k) /\ Within(delivered', p, m + 1)
  <2> SUFFICES ASSUME NEW p, NEW k \in 0..m, NEW i \in 1..k, Holds(delivered[i], p)
               PROVE  i \in 1..(m + 1) /\ Holds(delivered'[i], p)
    BY DEF Within
  <2> QED BY <1>3
<1>11. \A p, k : k \in 1..n /\ Within(feed, p, k)
                  => Within(feed', p, k - 1) \/ Within(delivered', p, m + 1)
  <2> SUFFICES ASSUME NEW p, NEW k \in 1..n, NEW i \in 1..k, Holds(feed[i], p)
               PROVE  Within(feed', p, k - 1) \/ Within(delivered', p, m + 1)
    BY DEF Within
  <2>1. CASE i = 1
    <3>1. Holds(delivered'[m + 1], p) /\ m + 1 \in 1..(m + 1)
      BY <1>3, <1>6, <2>1
    <3> QED BY <3>1 DEF Within
  <2>2. CASE i # 1
    <3>1. i - 1 \in 1..(k - 1) /\ i - 1 \in 1..(n - 1) /\ (i - 1) + 1 = i
      BY <1>2, <2>2
    <3>2. Holds(feed'[i - 1], p)
      BY <1>2, <3>1
    <3> QED BY <3>1, <3>2 DEF Within
  <2> QED BY <2>1, <2>2
<1>12. m \in 0..m /\ n \in 1..n
  BY <1>2, <1>3
<1>13. Covered'
  <2> SUFFICES ASSUME NEW p \in 1..taken, printed[p] = "x"
               PROVE  \/ \E f \in lines : Holds(f, p)
                      \/ Within(feed', p, n - 1)
                      \/ Within(delivered', p, m + 1)
    BY <1>1, <1>2, <1>3 DEF Covered
  <2>1. \/ \E f \in lines : Holds(f, p)
        \/ Within(feed, p, n)
        \/ Within(delivered, p, m)
    BY DEF Text, Covered, n, m
  <2> QED BY <2>1, <1>10, <1>11, <1>12
<1>14. ReaderAt'
  BY <1>1 DEF Text, ReaderAt, Exited
<1>15. LastIsLast'
  <2>1. ASSUME NEW k \in DOMAIN feed', feed'[k] = Last
        PROVE  /\ main' = "ended" /\ reader' \in {"done", "dead"}
               /\ reader' = "done" => \A p \in DOMAIN printed' : printed'[p] = "x" =>
                    Within(feed', p, k) \/ Within(delivered', p, Len(delivered'))
    <3>1. k + 1 \in DOMAIN feed /\ feed[k + 1] = Last /\ k + 1 \in 1..n /\ (k + 1) - 1 = k
      BY <1>2, <1>4, <2>1
    <3>2. /\ main = "ended" /\ reader \in {"done", "dead"}
          /\ reader = "done" => \A p \in DOMAIN printed : printed[p] = "x" =>
               Within(feed, p, k + 1) \/ Within(delivered, p, m)
      BY <3>1 DEF Text, LastIsLast, m
    <3>3. \A p : Within(feed, p, k + 1) => Within(feed', p, k) \/ Within(delivered', p, m + 1)
      BY <1>11, <3>1
    <3> QED BY <1>1, <1>3, <1>10, <1>12, <3>2, <3>3
  <2>2. ASSUME NEW k \in DOMAIN delivered', delivered'[k] = Last
        PROVE  /\ main' = "ended" /\ reader' \in {"done", "dead"}
               /\ reader' = "done" => \A p \in DOMAIN printed' : printed'[p] = "x" =>
                    Within(delivered', p, k)
    <3>1. CASE k \in DOMAIN delivered /\ delivered'[k] = delivered[k]
      <4>1. k \in 0..m
        BY <1>3, <3>1
      <4> QED BY <1>1, <1>10, <2>2, <3>1, <4>1 DEF Text, LastIsLast
    <3>2. CASE k = m + 1 /\ delivered'[k] = e
      <4>1. feed[1] = Last
        BY <1>6, <2>2, <3>2
      <4>2. /\ main = "ended" /\ reader \in {"done", "dead"}
            /\ reader = "done" => \A p \in DOMAIN printed : printed[p] = "x" =>
                 Within(feed, p, 1) \/ Within(delivered, p, m)
        BY <1>6, <4>1 DEF Text, LastIsLast, m
      <4>3. \A p : ~ Within(feed, p, 1)
        BY <4>1 DEF Within, Holds, IsText, Last, Said
      <4> QED BY <1>1, <1>10, <1>12, <3>2, <4>2, <4>3
    <3> QED BY <1>5, <3>1, <3>2
  <2> QED BY <2>1, <2>2 DEF LastIsLast
<1> QED BY <1>7, <1>8, <1>9, <1>13, <1>14, <1>15 DEF Text

\* The parent's report comes between the worker's.
LEMMA TextTold == TypeOK /\ Text /\ SendTold => Text'
<1> SUFFICES ASSUME TypeOK, Text, SendTold PROVE Text'
  OBVIOUS
<1> DEFINE m == Len(delivered)
           e == Said("forcefully")
<1>1. /\ delivered' = Append(delivered, e)
      /\ UNCHANGED <<sp, printed, taken, lines, reader, main, feed>>
  BY DEF SendTold, process, reading, running
<1>2. e \in Events /\ ~ IsText(e) /\ e # Last
  BY SaidIsEvent, SaidIsNoText DEF Last, Said
<1> HIDE DEF e
<1>3. /\ DOMAIN delivered = 1..m /\ m \in Nat
      /\ DOMAIN delivered' = 1..(m + 1) /\ Len(delivered') = m + 1
      /\ \A k \in 1..m : delivered'[k] = delivered[k]
      /\ delivered'[m + 1] = e
  <2>1. delivered \in Seq(Events)
    BY DEF TypeOK
  <2> QED BY <1>1, <1>2, <2>1, AppendAt
<1> HIDE DEF m
<1>4. \A k \in DOMAIN delivered' : (k \in DOMAIN delivered /\ delivered'[k] = delivered[k])
                                   \/ (k = m + 1 /\ delivered'[k] = e)
  BY <1>3
<1>5. TakenAt'
  BY <1>1 DEF Text, TakenAt, Exited
<1>6. AllPlaced'
  BY <1>1, <1>2, <1>4 DEF Text, AllPlaced, Placed, StartsLine
<1>7. InOrder'
  <2>1. \A k \in DOMAIN delivered' : \A f \in lines' : Precedes(delivered'[k], f)
    BY <1>1, <1>2, <1>4 DEF Text, InOrder, Precedes
  <2>2. \A k \in DOMAIN delivered' : \A l \in DOMAIN feed' : Precedes(delivered'[k], feed'[l])
    BY <1>1, <1>2, <1>4 DEF Text, InOrder, Precedes
  <2>3. \A k, l \in DOMAIN delivered' : k < l => Precedes(delivered'[k], delivered'[l])
    <3> SUFFICES ASSUME NEW k \in DOMAIN delivered', NEW l \in DOMAIN delivered', k < l
                 PROVE  Precedes(delivered'[k], delivered'[l])
      OBVIOUS
    <3>1. CASE k \in DOMAIN delivered /\ l \in DOMAIN delivered
      BY <1>3, <3>1 DEF Text, InOrder
    <3>2. CASE delivered'[k] = e \/ delivered'[l] = e
      BY <1>2, <3>2 DEF Precedes
    <3> QED BY <1>4, <3>1, <3>2
  <2>4. /\ \A d, f \in lines' : d = f \/ Precedes(d, f) \/ Precedes(f, d)
        /\ \A k \in DOMAIN feed' : \A f \in lines' : Precedes(feed'[k], f)
        /\ \A k, l \in DOMAIN feed' : k < l => Precedes(feed'[k], feed'[l])
    BY <1>1 DEF Text, InOrder
  <2> QED BY <2>1, <2>2, <2>3, <2>4 DEF InOrder
<1>8. \A p, k : k \in 0..m /\ Within(delivered, p, k)
                 => Within(delivered', p, k) /\ Within(delivered', p, m + 1)
  <2> SUFFICES ASSUME NEW p, NEW k \in 0..m, NEW i \in 1..k, Holds(delivered[i], p)
               PROVE  i \in 1..(m + 1) /\ Holds(delivered'[i], p)
    BY DEF Within
  <2> QED BY <1>3
<1>9. m \in 0..m
  BY <1>3
<1>10. Covered'
  <2> SUFFICES ASSUME NEW p \in 1..taken, printed[p] = "x"
               PROVE  \/ \E f \in lines : Holds(f, p)
                      \/ Within(feed, p, Len(feed))
                      \/ Within(delivered', p, m + 1)
    BY <1>1, <1>3 DEF Covered
  <2>1. \/ \E f \in lines : Holds(f, p)
        \/ Within(feed, p, Len(feed))
        \/ Within(delivered, p, m)
    BY DEF Text, Covered, m
  <2> QED BY <2>1, <1>8, <1>9
<1>11. ReaderAt'
  BY <1>1 DEF Text, ReaderAt, Exited
<1>12. LastIsLast'
  <2>1. ASSUME NEW k \in DOMAIN feed', feed'[k] = Last
        PROVE  /\ main' = "ended" /\ reader' \in {"done", "dead"}
               /\ reader' = "done" => \A p \in DOMAIN printed' : printed'[p] = "x" =>
                    Within(feed', p, k) \/ Within(delivered', p, Len(delivered'))
    <3>1. /\ main = "ended" /\ reader \in {"done", "dead"}
          /\ reader = "done" => \A p \in DOMAIN printed : printed[p] = "x" =>
               Within(feed, p, k) \/ Within(delivered, p, m)
      BY <1>1, <2>1 DEF Text, LastIsLast, m
    <3> QED BY <1>1, <1>3, <1>8, <1>9, <3>1
  <2>2. ASSUME NEW k \in DOMAIN delivered', delivered'[k] = Last
        PROVE  /\ main' = "ended" /\ reader' \in {"done", "dead"}
               /\ reader' = "done" => \A p \in DOMAIN printed' : printed'[p] = "x" =>
                    Within(delivered', p, k)
    <3>1. k \in DOMAIN delivered /\ delivered[k] = Last /\ k \in 0..m
      BY <1>2, <1>3, <1>4, <2>2
    <3> QED BY <1>1, <1>8, <3>1 DEF Text, LastIsLast
  <2> QED BY <2>1, <2>2 DEF LastIsLast
<1> QED BY <1>5, <1>6, <1>7, <1>10, <1>11, <1>12 DEF Text

\* What has been read stays as it is when the command prints on.
LEMMA TextWritten == TypeOK /\ Text /\ (\E c \in {"x", "nl"} : Write(c)) => Text'
<1> SUFFICES ASSUME TypeOK, Text, NEW c \in {"x", "nl"}, Write(c) PROVE Text'
  OBVIOUS
<1>1. /\ sp = "running" /\ printed' = Append(printed, c)
      /\ UNCHANGED <<sp, taken, lines, reader, main, feed, delivered>>
  BY DEF Write, reading, running, queue
<1>2. taken \in Nat /\ Len(printed) \in Nat /\ taken <= Len(printed)
  BY PositionsAreNat
<1>3. \A i \in 1..taken : printed'[i] = printed[i]
  <2>1. printed \in Seq({"x", "nl"})
    BY DEF TypeOK
  <2>2. \A i \in 1..Len(printed) : printed'[i] = printed[i]
    BY <1>1, <2>1, AppendAt
  <2> QED BY <1>2, <2>2
<1>4. ~ Exited /\ reader # "done"
  BY <1>1 DEF Text, ReaderAt, Exited
<1>5. TakenAt' /\ ReaderAt' /\ LastIsLast'
  BY <1>1, <1>4 DEF Text, TakenAt, ReaderAt, LastIsLast
<1>6. \A i \in 1..taken : StartsLine(i) => StartsLine(i)'
  <2> SUFFICES ASSUME NEW i \in 1..taken, i # 1 PROVE printed'[i - 1] = printed[i - 1]
    BY DEF StartsLine
  <2>1. i - 1 \in 1..taken
    BY <1>2
  <2> QED BY <1>3, <2>1
<1>7. AllPlaced'
  BY <1>1, <1>6 DEF Text, AllPlaced, Placed
<1>8. InOrder'
  BY <1>1 DEF Text, InOrder, Precedes
<1>9. Covered'
  BY <1>1, <1>3 DEF Text, Covered
<1> QED BY <1>5, <1>7, <1>8, <1>9 DEF Text

\* A step of run() that puts nothing, or of the parent, the command or the feeder
\* that moves no text.
LEMMA TextNext == TypeOK /\ CommandAt /\ Text /\ [Next]_vars => Text'
<1> SUFFICES ASSUME TypeOK, CommandAt, Text, [Next]_vars PROVE Text'
  OBVIOUS
<1>1. CASE Popen
  <2>1. /\ main = "popen" /\ UNCHANGED <<printed, taken, lines, delivered>>
        /\ reader = "none" /\ sp = "none"
    BY <1>1 DEF Popen, Put, queue, Text, ReaderAt, CommandAt
  <2>2. CASE Put(Said("exception")) /\ main' = "ended" /\ UNCHANGED <<sp, reader>>
    <3>1. Said("exception") \in Events /\ ~ IsText(Said("exception")) /\ Said("exception") # Last
      BY SaidIsEvent, SaidIsNoText DEF Last, Said
    <3>2. feed' = Append(feed, Said("exception"))
      BY <2>2 DEF Put
    <3> QED BY <2>1, <2>2, <3>1, <3>2, TextSaid
  <2>3. CASE sp' = "running" /\ reader' = "reading" /\ main' = "loop" /\ UNCHANGED queue
    <3>1. UNCHANGED Texts
      BY <2>1, <2>3 DEF Texts, queue
    <3>2. ReaderAt'
      BY <2>3 DEF ReaderAt
    <3>3. ~ Exited
      BY <2>1 DEF Exited
    <3> QED BY <2>1, <2>3, <3>1, <3>2, <3>3, TextKept
  <2> QED BY <1>1, <2>2, <2>3 DEF Popen
<1>2. CASE Terminate
  <2>1. /\ main = "kill" /\ main' = "wait" /\ feed' = Append(feed, Said("about to kill"))
        /\ UNCHANGED <<sp, printed, taken, lines, reader, delivered>>
    BY <1>2 DEF Terminate, Put, reading
  <2>2. /\ Said("about to kill") \in Events /\ ~ IsText(Said("about to kill"))
        /\ Said("about to kill") # Last
    BY SaidIsEvent, SaidIsNoText DEF Last, Said
  <2> QED BY <2>1, <2>2, TextSaid
<1>3. CASE Conclude
  <2>1. /\ main = "last" /\ main' = "ended" /\ feed' = Append(feed, Said("terminated"))
        /\ UNCHANGED <<sp, printed, taken, lines, reader, delivered>>
    BY <1>3 DEF Conclude, Put, reading, process
  <2>2. Said("terminated") \in Events /\ ~ IsText(Said("terminated"))
    BY SaidIsEvent, SaidIsNoText
  <2>3. reader \in {"done", "dead"}
    BY <2>1 DEF Text, ReaderAt
  <2> QED BY <2>1, <2>2, <2>3, TextSaid
<1>4. CASE Poll \/ Wait \/ Join \/ Leave
  <2>1. /\ UNCHANGED <<sp, printed, taken, lines, reader, feed, delivered>>
        /\ main = "ended" => main' = "ended"
        /\ main' = "popen" => main = "popen"
        /\ main' = "last" => reader \in {"done", "dead"}
    BY <1>4 DEF Poll, Wait, Join, Leave, process, reading, queue, running
  <2>2. ReaderAt' /\ UNCHANGED Texts /\ (Exited => Exited')
    BY <2>1 DEF Text, ReaderAt, Texts, Exited
  <2> QED BY <2>1, <2>2, TextKept
<1>5. CASE EndOfOutput \/ Undecodable
  <2>1. /\ UNCHANGED <<sp, printed, taken, lines, main, feed, delivered>>
        /\ reader = "reading" /\ lines = {}
        /\ reader' = "done" => Exited /\ taken = Len(printed)
        /\ reader' \in {"done", "dead"}
    BY <1>5 DEF EndOfOutput, Undecodable, process, queue, running
  <2>2. ReaderAt' /\ UNCHANGED Texts /\ (Exited => Exited')
    BY <2>1 DEF Text, ReaderAt, Texts, Exited
  <2> QED BY <2>1, <2>2, TextKept
<1>6. CASE Exit
  <2>1. /\ UNCHANGED <<printed, taken, lines, reader, main, feed, delivered>>
        /\ sp = "running" /\ sp' \in {"ok", "failed"}
    BY <1>6 DEF Exit, reading, queue, running
  <2>2. ReaderAt' /\ UNCHANGED Texts /\ (Exited => Exited')
    BY <2>1 DEF Text, ReaderAt, Texts, Exited
  <2> QED BY <2>1, <2>2, TextKept
<1>7. CASE Acquire \/ Call \/ Joined \/ Kill \/ UNCHANGED vars
  <2>1. UNCHANGED <<sp, printed, taken, lines, reader, main, feed, delivered>>
    BY <1>7 DEF Acquire, Call, Joined, Kill, vars, process, reading, running, queue
  <2>2. ReaderAt' /\ UNCHANGED Texts /\ (Exited => Exited')
    BY <2>1 DEF Text, ReaderAt, Texts, Exited
  <2> QED BY <2>1, <2>2, TextKept
<1> QED BY <1>1, <1>2, <1>3, <1>4, <1>5, <1>6, <1>7, TextPut, TextRead, TextSent, TextTold,
           TextWritten
  DEF Next, Run, Reader, Feeder, Command

LEMMA TextInit == Init => Text
<1> SUFFICES ASSUME Init PROVE Text
  OBVIOUS
<1>1. /\ taken = 0 /\ lines = {} /\ feed = <<>> /\ delivered = <<>> /\ main = "popen"
      /\ reader = "none"
  BY DEF Init
<1>2. TakenAt
  <2>1. 0 = 0 * Chunk
    BY BasicWorkerAssumption
  <2> QED BY <1>1, <2>1 DEF TakenAt
<1> QED BY <1>1, <1>2 DEF Text, AllPlaced, InOrder, Covered, ReaderAt, LastIsLast

LEMMA TextIsWhole == TypeOK /\ Text => TextWhole
<1> SUFFICES ASSUME TypeOK, Text PROVE TextWhole
  OBVIOUS
<1>1. ASSUME NEW k \in DOMAIN delivered, NEW l \in DOMAIN delivered, k < l,
             IsLine(k), IsLine(l)
      PROVE  delivered[k][3] < delivered[l][2]
  BY <1>1 DEF Text, InOrder, Precedes, IsText, IsLine
<1>2. ASSUME NEW k \in DOMAIN delivered, IsLine(k)
      PROVE  StartsLine(delivered[k][2])
  BY <1>2 DEF Text, AllPlaced, Placed, IsText, IsLine
<1>3. ASSUME NEW k \in DOMAIN delivered, delivered[k] = Said("terminated"), reader # "dead",
             NEW p \in DOMAIN printed, printed[p] = "x"
      PROVE  \E l \in 1..k : IsLine(l) /\ delivered[l][2] <= p /\ p <= delivered[l][3]
  <2>1. Within(delivered, p, k)
    BY <1>3 DEF Text, LastIsLast, Last
  <2> QED BY <2>1 DEF Within, Holds, IsText, IsLine
<1> QED BY <1>1, <1>2, <1>3 DEF TextWhole, StartsLine

\* The lines of a command arrive in order and unbroken but at the chunks, and all
\* of them before "terminated", for every size of the chunk and of the output.
THEOREM TextArrivesWhole == Spec => []TextWhole
<1>1. Init => CommandAt
  BY DEF Init, CommandAt
<1> QED BY <1>1, TypeOKInit, TypeOKNext, CommandAtNext, TextInit, TextNext, TextIsWhole, PTL
  DEF Spec

=============================================================================

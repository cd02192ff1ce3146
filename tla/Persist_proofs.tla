--------------------------- MODULE Persist_proofs ---------------------------
(***************************************************************************)
(* Proofs about the two components of persist/, CircuitBreaker and         *)
(* FileBackend.                                                            *)
(***************************************************************************)
EXTENDS CircuitBreaker, FileBackend, FiniteSetTheorems, SequenceTheorems, WellFoundedInduction, TLAPS

(***************************************************************************)
(* CircuitBreaker, for every set of callers, threshold and timeout.        *)
(***************************************************************************)
\* Clock readings are past.
SeenPast == \A c \in Callers : seen[c] <= now

\* Until the breaker is opened, every failure of the streak is in the count,
\* and the count has not reached the threshold with any of them.
StreakCounted == ~opened => streak <= failures /\ streak < Threshold

\* What a thread knows of the backend's answer fits where it stands.
AnswerKnown ==
    \A c \in Callers :
        /\ at[c] # "idle" => result[c] = "none"
        /\ at[c] = "won" => error[c] = "none"
        /\ at[c] \in {"lost", "stamp"} => error[c] \in Kinds

BreakerInv == BreakerTypeOK /\ SeenPast /\ StreakCounted /\ AnswerKnown /\ ReturnMeansDone

-----------------------------------------------------------------------------
\* No kind of error that the constants allow falls through the triage.
LEMMA TriageRaises == \A k \in Kinds : Triage(k) \in {"transient", "fatal"}
<1> QED BY BreakerAssumption DEF Triage

LEMMA BreakerStarts == BreakerInit => BreakerInv
<1> SUFFICES ASSUME BreakerInit PROVE BreakerInv
  OBVIOUS
<1> USE DEF BreakerInit
<1>1. BreakerTypeOK
  BY DEF BreakerTypeOK, Results, Unset
<1>2. SeenPast /\ AnswerKnown /\ ReturnMeansDone
  BY DEF SeenPast, AnswerKnown, ReturnMeansDone
<1>3. StreakCounted
  BY BreakerAssumption DEF StreakCounted
<1> QED BY <1>1, <1>2, <1>3 DEF BreakerInv

\* Every step of one thread preserves the invariant.
LEMMA CallSteps == ASSUME BreakerInv, NEW c \in Callers, Call(c) PROVE BreakerInv'
<1> USE DEF BreakerInv
<1>1. CASE Enter(c)
  <2>1. BreakerTypeOK'
    BY <1>1 DEF BreakerTypeOK, Enter, Proceed, Results, history
  <2>2. SeenPast' /\ StreakCounted'
    BY <1>1 DEF SeenPast, StreakCounted, Enter, history
  <2>3. AnswerKnown' /\ ReturnMeansDone'
    BY <1>1 DEF BreakerTypeOK, AnswerKnown, ReturnMeansDone, Enter, Proceed, history
  <2> QED BY <2>1, <2>2, <2>3
<1>2. CASE ReadClock(c)
  <2>1. BreakerTypeOK'
    BY <1>2 DEF BreakerTypeOK, ReadClock, Proceed, history
  <2>2. SeenPast' /\ StreakCounted'
    BY <1>2 DEF BreakerTypeOK, SeenPast, StreakCounted, ReadClock, history
  <2>3. AnswerKnown' /\ ReturnMeansDone'
    BY <1>2 DEF BreakerTypeOK, AnswerKnown, ReturnMeansDone, ReadClock, Proceed, history
  <2> QED BY <2>1, <2>2, <2>3
<1>3. CASE Judge(c)
  <2>1. BreakerTypeOK'
    BY <1>3 DEF BreakerTypeOK, Judge, End, Proceed, Results, history
  <2>2. SeenPast' /\ StreakCounted'
    BY <1>3 DEF SeenPast, StreakCounted, Judge, history
  <2>3. AnswerKnown' /\ ReturnMeansDone'
    BY <1>3 DEF BreakerTypeOK, AnswerKnown, ReturnMeansDone, Judge, End, Proceed, history
  <2> QED BY <2>1, <2>2, <2>3
<1>4. CASE Answer(c)
  <2>1. BreakerTypeOK'
    BY <1>4 DEF BreakerTypeOK, Answer, End, Proceed, Results, history
  <2>2. SeenPast' /\ StreakCounted'
    BY <1>4 DEF SeenPast, StreakCounted, Answer, history
  <2>3. AnswerKnown' /\ ReturnMeansDone'
    BY <1>4 DEF BreakerTypeOK, AnswerKnown, ReturnMeansDone, Answer, End, Proceed, history
  <2> QED BY <2>1, <2>2, <2>3
<1>5. CASE Succeed(c)
  <2>1. BreakerTypeOK'
    BY <1>5 DEF BreakerTypeOK, Succeed, End, Proceed, Results
  <2>2. SeenPast' /\ StreakCounted'
    BY <1>5, BreakerAssumption DEF SeenPast, StreakCounted, Succeed
  <2>3. AnswerKnown' /\ ReturnMeansDone'
    BY <1>5 DEF BreakerTypeOK, AnswerKnown, ReturnMeansDone, Succeed, End, Proceed
  <2> QED BY <2>1, <2>2, <2>3
<1>6. CASE Count(c)
  <2>0. Triage(error[c]) \in {"transient", "fatal"}
    BY <1>6, TriageRaises DEF AnswerKnown, Count
  <2>1. BreakerTypeOK'
    BY <1>6, <2>0 DEF BreakerTypeOK, Count, End, Proceed, Results, history
  <2>2. SeenPast'
    BY <1>6 DEF BreakerTypeOK, SeenPast, Count
  <2>3. StreakCounted'
    <3>1. CASE Reached(failures + 1)
      BY <1>6, <3>1 DEF BreakerTypeOK, StreakCounted, Count, history
    <3>2. CASE ~Reached(failures + 1)
      BY <1>6, <3>2, BreakerAssumption DEF BreakerTypeOK, StreakCounted, Count, Reached
    <3> QED BY <3>1, <3>2
  <2>4. AnswerKnown' /\ ReturnMeansDone'
    BY <1>6, <2>0 DEF BreakerTypeOK, AnswerKnown, ReturnMeansDone, Count, End, Proceed, history
  <2> QED BY <2>1, <2>2, <2>3, <2>4
<1>7. CASE Stamp(c)
  <2>0. Triage(error[c]) \in {"transient", "fatal"}
    BY <1>7, TriageRaises DEF AnswerKnown, Stamp
  <2>1. BreakerTypeOK'
    BY <1>7, <2>0 DEF BreakerTypeOK, Stamp, End, Proceed, Results
  <2>2. SeenPast' /\ StreakCounted'
    BY <1>7 DEF SeenPast, StreakCounted, Stamp
  <2>3. AnswerKnown' /\ ReturnMeansDone'
    BY <1>7, <2>0 DEF BreakerTypeOK, AnswerKnown, ReturnMeansDone, Stamp, End, Proceed
  <2> QED BY <2>1, <2>2, <2>3
<1> QED BY <1>1, <1>2, <1>3, <1>4, <1>5, <1>6, <1>7 DEF Call

LEMMA BreakerSteps == BreakerInv /\ [BreakerNext]_breakerVars => BreakerInv'
<1> SUFFICES ASSUME BreakerInv, [BreakerNext]_breakerVars PROVE BreakerInv'
  OBVIOUS
<1>1. CASE Tick
  <2>1. BreakerTypeOK'
    BY <1>1 DEF BreakerInv, BreakerTypeOK, Tick, history
  <2>2. SeenPast'
    BY <1>1 DEF BreakerInv, BreakerTypeOK, SeenPast, Tick
  <2>3. StreakCounted' /\ AnswerKnown' /\ ReturnMeansDone'
    BY <1>1 DEF BreakerInv, StreakCounted, AnswerKnown, ReturnMeansDone, Tick, history
  <2> QED BY <2>1, <2>2, <2>3 DEF BreakerInv
<1>2. CASE \E c \in Callers : Call(c)
  BY <1>2, CallSteps
<1>3. CASE UNCHANGED breakerVars
  BY <1>3 DEF BreakerInv, BreakerTypeOK, SeenPast, StreakCounted, AnswerKnown, ReturnMeansDone, breakerVars, history
<1> QED BY <1>1, <1>2, <1>3 DEF BreakerNext

THEOREM BreakerInvariant == BreakerSpec => []BreakerInv
<1> QED BY BreakerStarts, BreakerSteps, PTL DEF BreakerSpec

-----------------------------------------------------------------------------
\* Threshold failures in a row open the breaker: for any number of threads and
\* any threshold.
THEOREM Opens == BreakerSpec => []OpensAtThreshold
<1>1. BreakerInv => OpensAtThreshold
  BY BreakerAssumption DEF BreakerInv, BreakerTypeOK, StreakCounted, OpensAtThreshold
<1> QED BY <1>1, BreakerInvariant, PTL

\* A call that returns has been answered with success.
THEOREM Returns == BreakerSpec => []ReturnMeansDone
<1>1. BreakerInv => ReturnMeansDone
  BY DEF BreakerInv
<1> QED BY <1>1, BreakerInvariant, PTL

\* The breaker closes only behind the timeout.
THEOREM Closes == BreakerSpec => ClosesAfterTimeout
<1>1. BreakerInv /\ [BreakerNext]_breakerVars =>
        [openSince # Unset /\ openSince' = Unset => now - openSince > RecoveryTimeout]_breakerVars
  <2> SUFFICES ASSUME BreakerInv, BreakerNext, openSince # Unset, openSince' = Unset
               PROVE  now - openSince > RecoveryTimeout
    OBVIOUS
  <2>1. ~Tick
    BY DEF Tick
  <2>2. PICK c \in Callers : Call(c)
    BY <2>1 DEF BreakerNext
  <2>3. ~Enter(c) /\ ~ReadClock(c) /\ ~Answer(c) /\ ~Succeed(c) /\ ~Count(c)
    BY DEF Enter, ReadClock, Answer, Succeed, Count
  <2>4. ~Stamp(c)
    BY DEF Stamp, BreakerInv, BreakerTypeOK, Unset
  <2>5. Judge(c)
    BY <2>2, <2>3, <2>4 DEF Call
  <2>6. Expired(c)
    BY <2>5 DEF Judge
  <2> QED
    BY <2>6, BreakerAssumption DEF BreakerInv, BreakerTypeOK, SeenPast, Expired, Unset
<1> QED BY <1>1, BreakerInvariant, PTL DEF BreakerSpec, ClosesAfterTimeout

-----------------------------------------------------------------------------
(***************************************************************************)
(* Induction over the natural numbers, for a set that is closed under it.  *)
(***************************************************************************)
\* Every set of natural numbers has a least one.
LEMMA Least ==
  ASSUME NEW T \in SUBSET Nat, T # {}
  PROVE  \E m \in T : \A n \in T : m <= n
<1> DEFINE Below == {0..n : n \in T}
<1>1. \A n \in T : 0..n \in SUBSET Nat /\ IsFiniteSet(0..n)
  BY FS_Interval
<1>2. Below \subseteq FiniteSubsetsOf(Nat) /\ Below # {}
  BY <1>1 DEF FiniteSubsetsOf
<1>3. IsWellFoundedOn(StrictSubsetOrdering(Nat), FiniteSubsetsOf(Nat))
  BY FS_StrictSubsetOrderingWellFounded
<1>4. \E x \in Below : \A y \in Below : ~(<<y, x>> \in StrictSubsetOrdering(Nat))
  <2> HIDE DEF Below
  <2> QED BY <1>2, <1>3, WFMin
<1>5. PICK m \in T : \A n \in T : ~(<<0..n, 0..m>> \in StrictSubsetOrdering(Nat))
  BY <1>4
<1>6. ASSUME NEW n \in T, n < m PROVE FALSE
  <2>1. 0..n \subseteq 0..m /\ m \in 0..m /\ m \notin 0..n /\ 0..n \in SUBSET Nat /\ 0..m \in SUBSET Nat
    BY <1>6
  <2> HIDE DEF Below
  <2>2. 0..n # 0..m
    BY <2>1
  <2> QED BY <2>1, <2>2, <1>5 DEF StrictSubsetOrdering
<1> QED BY <1>6

\* A set with 0, and with n + 1 for every n in it, has all the natural numbers.
LEMMA NatSets ==
  ASSUME NEW S, 0 \in S, \A n \in Nat : n \in S => n + 1 \in S
  PROVE  \A n \in Nat : n \in S
<1> DEFINE T == Nat \ S
<1>1. ASSUME T # {} PROVE FALSE
  <2>1. PICK m \in T : \A n \in T : m <= n
    BY <1>1, Least
  <2>2. m # 0 /\ m \in Nat /\ m - 1 \in Nat /\ m - 1 \notin T
    BY <2>1
  <2> QED BY <2>1, <2>2
<1> QED BY <1>1


-----------------------------------------------------------------------------
(***************************************************************************)
(* FileBackend: the lines of a sequence.                                   *)
(***************************************************************************)
Increasing(s) == \A i, j \in DOMAIN s : i < j => s[i] < s[j]
OnlyLines(s) == \A i \in DOMAIN s : s[i] # None

LEMMA InIff == \A s, x : x \in In(s) <=> x # None /\ \E i \in DOMAIN s : s[i] = x
<1> QED BY DEF In

LEMMA InEmpty == In(<<>>) = {}
<1> QED BY DEF In

\* A sequence that is put together from others holds what they hold.
LEMMA InExtended ==
  ASSUME NEW s, NEW u, NEW n \in Nat, NEW e, DOMAIN s = 1..n, DOMAIN u = 1..(n + 1),
         \A i \in 1..n : u[i] = s[i], u[n + 1] = e
  PROVE  In(u) = In(s) \cup ({e} \ {None})
<1>1. ASSUME NEW x \in In(u) PROVE x \in In(s) \cup ({e} \ {None})
  <2>1. PICK i \in 1..(n + 1) : x = u[i] /\ x # None
    BY InIff
  <2>2. i \in 1..n \/ i = n + 1
    OBVIOUS
  <2> QED BY <2>1, <2>2, InIff
<1>2. ASSUME NEW x \in In(s) PROVE x \in In(u)
  <2>1. PICK i \in 1..n : x = s[i] /\ x # None
    BY InIff
  <2>2. i \in 1..(n + 1)
    OBVIOUS
  <2> QED BY <2>1, <2>2, InIff
<1>3. e # None => e \in In(u)
  <2>1. n + 1 \in 1..(n + 1)
    OBVIOUS
  <2> QED BY <2>1, InIff
<1> QED BY <1>1, <1>2, <1>3

LEMMA InJoined ==
  ASSUME NEW s \in Seq(Entries), NEW t \in Seq(Entries), NEW u \in Seq(Entries),
         Len(u) = Len(s) + Len(t),
         \A i \in 1..Len(s) : u[i] = s[i], \A i \in 1..Len(t) : u[Len(s) + i] = t[i]
  PROVE  In(u) = In(s) \cup In(t)
<1> DEFINE n == Len(s)
           m == Len(t)
<1>a. /\ n \in Nat /\ m \in Nat /\ DOMAIN s = 1..n /\ DOMAIN t = 1..m /\ DOMAIN u = 1..(n + m)
      /\ \A i \in 1..n : u[i] = s[i]
      /\ \A i \in 1..m : u[n + i] = t[i]
  OBVIOUS
<1> HIDE DEF n, m
<1>1. ASSUME NEW x \in In(u) PROVE x \in In(s) \cup In(t)
  <2>1. PICK i \in 1..(n + m) : x = u[i] /\ x # None
    BY <1>a, InIff
  <2>2. CASE i \in 1..n
    BY <1>a, <2>1, <2>2, InIff
  <2>3. CASE i \notin 1..n
    <3>1. i - n \in 1..m /\ n + (i - n) = i
      BY <1>a, <2>3
    <3>2. t[i - n] = x
      BY <1>a, <3>1, <2>1
    <3> QED BY <1>a, <2>1, <3>1, <3>2, InIff
  <2> QED BY <2>2, <2>3
<1>2. ASSUME NEW x \in In(s) PROVE x \in In(u)
  <2>1. PICK i \in 1..n : x = s[i] /\ x # None
    BY <1>a, InIff
  <2>2. i \in 1..(n + m)
    BY <1>a
  <2> QED BY <1>a, <2>1, <2>2, InIff
<1>3. ASSUME NEW x \in In(t) PROVE x \in In(u)
  <2>1. PICK i \in 1..m : x = t[i] /\ x # None
    BY <1>a, InIff
  <2>2. n + i \in 1..(n + m)
    BY <1>a
  <2> QED BY <1>a, <2>1, <2>2, InIff
<1> QED BY <1>1, <1>2, <1>3

LEMMA InAppend ==
  ASSUME NEW s \in Seq(Entries), NEW e \in Entries
  PROVE  In(Append(s, e)) = In(s) \cup ({e} \ {None})
<1> DEFINE u == Append(s, e)
<1>1. /\ DOMAIN s = 1..Len(s) /\ Len(s) \in Nat /\ DOMAIN u = 1..(Len(s) + 1)
      /\ \A i \in 1..Len(s) : u[i] = s[i]
      /\ u[Len(s) + 1] = e
  OBVIOUS
<1> HIDE DEF u
<1>2. In(u) = In(s) \cup ({e} \ {None})
  BY <1>1, InExtended
<1> QED BY <1>2 DEF u

LEMMA InConcat ==
  ASSUME NEW s \in Seq(Entries), NEW t \in Seq(Entries)
  PROVE  In(s \o t) = In(s) \cup In(t)
<1> DEFINE u == s \o t
<1>1. u \in Seq(Entries) /\ Len(u) = Len(s) + Len(t)
  OBVIOUS
<1>2. \A i \in 1..Len(s) : u[i] = s[i]
  OBVIOUS
<1>3. \A i \in 1..Len(t) : u[Len(s) + i] = t[i]
  OBVIOUS
<1> HIDE DEF u
<1>4. In(u) = In(s) \cup In(t)
  BY <1>1, <1>2, <1>3, InJoined
<1> QED BY <1>4 DEF u

LEMMA InTail ==
  ASSUME NEW s \in Seq(Entries), s # <<>>
  PROVE  In(s) = In(Tail(s)) \cup ({Head(s)} \ {None})
<1> DEFINE t == Tail(s)
           h == <<Head(s)>>
<1>1. /\ h \in Seq(Entries) /\ t \in Seq(Entries) /\ Len(h) = 1 /\ Len(s) = Len(h) + Len(t)
      /\ \A i \in 1..Len(h) : s[i] = h[i]
  OBVIOUS
<1>2. \A i \in 1..Len(t) : s[1 + i] = t[i]
  OBVIOUS
<1>3. DOMAIN h = 1..1 /\ h[1] = Head(s)
  OBVIOUS
<1> HIDE DEF t, h
<1>4. \A i \in 1..Len(t) : s[Len(h) + i] = t[i]
  BY <1>1, <1>2
<1>5. In(s) = In(h) \cup In(t)
  BY <1>1, <1>4, InJoined
<1>6. In(h) = {Head(s)} \ {None}
  <2>1. \A x : x \in In(h) <=> x # None /\ x = Head(s)
    BY <1>3, InIff
  <2> QED BY <2>1
<1> QED BY <1>5, <1>6 DEF t

LEMMA InPrefix ==
  ASSUME NEW s \in Seq(Entries), NEW k \in 0..Len(s)
  PROVE  /\ SubSeq(s, 1, k) \in Seq(Entries)
         /\ In(SubSeq(s, 1, k)) \subseteq In(s)
<1> DEFINE u == SubSeq(s, 1, k)
<1>1. /\ u \in Seq(Entries) /\ DOMAIN u = 1..k /\ DOMAIN s = 1..Len(s)
      /\ \A i \in 1..k : u[i] = s[i] /\ i \in 1..Len(s)
  OBVIOUS
<1> HIDE DEF u
<1>2. In(u) \subseteq In(s)
  BY <1>1, InIff
<1> QED BY <1>1, <1>2 DEF u

LEMMA InEntries == \A s \in Seq(Entries) : In(s) \subseteq Lines
<1> QED BY InIff DEF Entries

-----------------------------------------------------------------------------
(***************************************************************************)
(* FileBackend: types and counts.                                          *)
(***************************************************************************)
\* The lines that writers are about to put are within the bound.
Putting == {x \in Writers : pc[x] = "put"}
PutsLeft == puts + Cardinality(Putting) <= MaxPuts

\* The consumer has a line in its hand exactly when it appends it.
HandAt == cons = "append" <=> hand # None

\* What is queued, or in the consumer's hand, has not been marked as done.
Counted == unfinished >= Len(queue) + (IF cons = "append" THEN 1 ELSE 0)

TypeCorrect == TypeOK /\ PutsLeft /\ HandAt /\ Counted

\* The disjuncts of Next, with the thread that takes the step.
LEMMA Actions ==
  ASSUME Next
  PROVE  \/ \E w \in Writers : Write(w) \/ PutLine(w) \/ Cleanup(w)
         \/ \E a \in Actors : \/ Drain(a) \/ Drained(a) \/ Pill(a) \/ Joined(a)
                              \/ WriteTail(a) \/ Break(a) \/ Clear(a) \/ Shut(a)
         \/ Close \/ Wait \/ Mark \/ LastPill
         \/ Loop \/ Take \/ AppendLine \/ AppendFails
<1> QED BY DEF Next, Writing, Closing, Consume, DrainOut, Actors

LEMMA AppendTyped ==
  ASSUME NEW S, NEW s \in Seq(S), NEW e \in S
  PROVE  Append(s, e) \in Seq(S) /\ Len(Append(s, e)) = Len(s) + 1
<1> QED OBVIOUS

LEMMA TailTyped ==
  ASSUME NEW S, NEW s \in Seq(S), s # <<>>
  PROVE  Tail(s) \in Seq(S) /\ Head(s) \in S /\ Len(Tail(s)) = Len(s) - 1 /\ Len(s) >= 1
<1> QED OBVIOUS

LEMMA LastOfTyped ==
  ASSUME NEW s \in Seq(Entries)
  PROVE  LastOf(s) \in Seq(Entries)
<1>1. CASE Len(s) > Keep
  <2>1. s # <<>>
    BY <1>1, FileBackendAssumption
  <2> QED BY <1>1, <2>1, TailTyped DEF LastOf
<1>2. CASE ~(Len(s) > Keep)
  BY <1>2 DEF LastOf
<1> QED BY <1>1, <1>2

LEMMA MutateTyped ==
  ASSUME TypeOK, NEW a \in Actors, NEW place \in Draining, NEW new, Mutate(a, place, new)
  PROVE  /\ pc' \in [Actors -> WriterAt \cup CloserAt]
         /\ \A w \in Writers : pc'[w] \in WriterAt
         /\ pc'[Closer] \in CloserAt
<1> QED BY FileBackendAssumption DEF TypeOK, Mutate, Actors, WriterAt, CloserAt, Draining

LEMMA GotoTyped ==
  ASSUME TypeOK, NEW a \in Actors, NEW place \in WriterAt \cup CloserAt, Goto(a, place),
         a \in Writers => place \in WriterAt, a = Closer => place \in CloserAt
  PROVE  /\ pc' \in [Actors -> WriterAt \cup CloserAt]
         /\ \A w \in Writers : pc'[w] \in WriterAt
         /\ pc'[Closer] \in CloserAt
<1> QED BY DEF TypeOK, Goto, Actors

\* The threads that are about to put a line: finitely many, one more or one less.
LEMMA PuttingFinite == IsFiniteSet(Putting) /\ Cardinality(Putting) \in Nat
<1> QED BY FS_Subset, FS_CardinalityType, FileBackendAssumption DEF Putting

LEMMA PuttingIncr ==
  ASSUME TypeOK, NEW w \in Writers, pc[w] = "idle", Goto(w, "put")
  PROVE  Cardinality(Putting') = Cardinality(Putting) + 1
<1>1. Putting' = Putting \cup {w} /\ w \notin Putting
  BY FileBackendAssumption DEF TypeOK, Goto, Putting, Actors
<1> QED BY <1>1, PuttingFinite, FS_AddElement

LEMMA PuttingDecr ==
  ASSUME TypeOK, NEW w \in Writers, pc[w] = "put", Goto(w, "idle") \/ Goto(w, "fatal")
  PROVE  Cardinality(Putting') = Cardinality(Putting) - 1 /\ Cardinality(Putting) >= 1
<1>1. Putting' = Putting \ {w} /\ w \in Putting
  BY FileBackendAssumption DEF TypeOK, Goto, Putting, Actors
<1>2. Cardinality(Putting') = Cardinality(Putting) - 1
  BY <1>1, PuttingFinite, FS_RemoveElement
<1>3. Cardinality(Putting) # 0
  BY <1>1, PuttingFinite, FS_EmptySet
<1> QED BY <1>2, <1>3, PuttingFinite

\* The entries of a buffer that takes the consumer's line.
LEMMA LinesTyped ==
  ASSUME TypeOK
  PROVE  /\ Append(buffer, hand) \in Seq(Entries)
         /\ Len(Append(buffer, hand)) = Len(buffer) + 1
         /\ \A k \in 0..Len(Append(buffer, hand)) : SubSeq(Append(buffer, hand), 1, k) \in Seq(Entries)
<1>1. Append(buffer, hand) \in Seq(Entries) /\ Len(Append(buffer, hand)) = Len(buffer) + 1
  BY AppendTyped DEF TypeOK
<1> QED BY <1>1, InPrefix

LEMMA TypeStarts == Init => TypeCorrect
<1> SUFFICES ASSUME Init PROVE TypeCorrect
  OBVIOUS
<1> USE FileBackendAssumption DEF Init
<1>1. TypeOK
  <2>1. <<>> \in Seq(Entries) /\ Len(<<>>) = 0 /\ None \in Entries /\ 1 \in Files
    BY DEF Entries, None, Files
  <2>2. \A a \in Actors : pc[a] = "idle" /\ kept[a] = <<>>
    OBVIOUS
  <2>3. pc \in [Actors -> WriterAt \cup CloserAt] /\ kept \in [Actors -> Seq(Entries)]
    BY <2>1 DEF WriterAt, CloserAt
  <2>4. files \in [Files -> Seq(Entries)] /\ handle \in [file : Files, open : BOOLEAN]
    BY <2>1 DEF NewHandle
  <2>5. Len(queue) <= Capacity /\ puts \in 0..MaxPuts
    BY <2>1
  <2>6. (\A w \in Writers : pc[w] \in WriterAt) /\ pc[Closer] \in CloserAt
    BY DEF WriterAt, CloserAt, Actors
  <2> QED BY <2>1, <2>3, <2>4, <2>5, <2>6 DEF TypeOK
<1>2. Putting = {}
  BY DEF Putting, Actors
<1>3. PutsLeft
  BY <1>2, FS_EmptySet DEF PutsLeft
<1> QED BY <1>1, <1>3 DEF TypeCorrect, HandAt, Counted

LEMMA WriteTyped ==
  ASSUME TypeCorrect, NEW w \in Writers, Write(w) \/ PutLine(w) \/ Cleanup(w)
  PROVE  TypeCorrect'
<1> USE DEF TypeCorrect
<1>a. w \in Actors
  BY DEF Actors
<1>1. CASE Write(w)
  <2>1. CASE Goto(w, "put")
    <3>1. TypeOK'
      BY <1>1, <1>a, <2>1, GotoTyped, FileBackendAssumption DEF Write, TypeOK, WriterAt, disk, ending
    <3>2. PutsLeft'
      <4>1. puts' = puts /\ puts + Cardinality(Putting) < MaxPuts /\ pc[w] = "idle"
        BY <1>1 DEF Write, Putting
      <4> QED BY <2>1, <4>1, PuttingIncr, PuttingFinite, FileBackendAssumption DEF PutsLeft, TypeOK
    <3> QED BY <1>1, <3>1, <3>2 DEF Write, HandAt, Counted, disk, ending
  <2>2. CASE UNCHANGED pc \/ Goto(w, "raised")
    <3>1. TypeOK'
      BY <1>1, <1>a, <2>2, GotoTyped, FileBackendAssumption DEF Write, TypeOK, WriterAt, Draining, disk, ending, PropagateTransient, SinkRaises
    <3>2. Putting' = Putting
      <4>1. CASE UNCHANGED pc
        BY <4>1 DEF Putting
      <4>2. CASE Goto(w, "raised")
        BY <1>1, <4>2 DEF Write, Goto, TypeOK, Actors, Putting
      <4> QED BY <2>2, <4>1, <4>2
    <3> QED BY <1>1, <3>1, <3>2 DEF Write, PutsLeft, HandAt, Counted, disk, ending
  <2> QED BY <1>1, <2>1, <2>2 DEF Write, PropagateTransient, SinkRaises
<1>2. CASE PutLine(w)
  <2>1. CASE died \/ Full
    <3>0. Goto(w, "fatal") /\ pc[w] = "put" /\ UNCHANGED <<queue, unfinished, puts, died, stop, disk, cons, hand, kept, ending>> /\ open' = TRUE
      BY <1>2, <2>1 DEF PutLine
    <3>1. TypeOK'
      BY <3>0, <1>a, GotoTyped, FileBackendAssumption DEF TypeOK, WriterAt, Draining, disk, ending
    <3>2. PutsLeft'
      BY <3>0, PuttingDecr, PuttingFinite, FileBackendAssumption DEF PutsLeft, TypeOK
    <3> QED BY <3>0, <3>1, <3>2 DEF HandAt, Counted
  <2>2. CASE ~(died \/ Full)
    <3>0. /\ Goto(w, "idle") /\ pc[w] = "put" /\ puts' = puts + 1 /\ Put(puts + 1)
          /\ UNCHANGED <<open, died, stop, disk, cons, hand, kept, ending>>
      BY <1>2, <2>2 DEF PutLine
    <3>1. /\ Cardinality(Putting') = Cardinality(Putting) - 1 /\ Cardinality(Putting) >= 1
          /\ Cardinality(Putting) \in Nat /\ puts \in Nat /\ MaxPuts \in Nat
      BY <3>0, PuttingDecr, PuttingFinite, FileBackendAssumption DEF TypeOK
    <3>2. PutsLeft' /\ puts + 1 \in Lines
      BY <3>0, <3>1 DEF PutsLeft, Lines
    <3>3. queue' \in Seq(Entries) /\ Len(queue') = Len(queue) + 1 /\ Len(queue) \in Nat
      BY <3>0, <3>2, AppendTyped DEF Put, Entries, TypeOK
    <3>4. TypeOK'
      BY <3>0, <3>2, <3>3, <2>2, <1>a, GotoTyped, FileBackendAssumption DEF TypeOK, WriterAt, disk, ending, Full, Put, Lines
    <3>5. HandAt' /\ Counted'
      BY <3>0, <3>3 DEF HandAt, Counted, Put, TypeOK
    <3> QED BY <3>2, <3>4, <3>5
  <2> QED BY <2>1, <2>2
<1>3. CASE Cleanup(w)
  <2>0. /\ pc[w] = "fatal" /\ (Goto(w, "drain") \/ Goto(w, "raised"))
        /\ UNCHANGED <<queue, unfinished, puts, stop, open, disk, cons, hand, clean>>
    BY <1>3 DEF Cleanup, SinkRaises
  <2>3. died' \in BOOLEAN /\ enders' \in Nat
    <3>1. CASE died' = TRUE /\ enders' = enders + 1
      BY <3>1 DEF TypeOK
    <3>2. CASE UNCHANGED <<died, enders>>
      BY <3>2 DEF TypeOK
    <3> QED BY <1>3, <3>1, <3>2 DEF Cleanup
  <2>4. kept' \in [Actors -> Seq(Entries)]
    <3>1. kept' = [kept EXCEPT ![w] = <<>>] \/ kept' = kept
      BY <1>3 DEF Cleanup
    <3>2. <<>> \in Seq(Entries) /\ kept \in [Actors -> Seq(Entries)]
      BY DEF TypeOK
    <3> QED BY <3>1, <3>2
  <2>1. TypeOK'
    BY <2>0, <2>3, <2>4, <1>a, GotoTyped, FileBackendAssumption DEF TypeOK, WriterAt, Draining, disk
  <2>2. Putting' = Putting
    BY <1>3, <2>0 DEF Goto, TypeOK, Actors, Putting, Cleanup
  <2> QED BY <2>0, <2>1, <2>2 DEF PutsLeft, HandAt, Counted
<1> QED BY <1>1, <1>2, <1>3

LEMMA DrainOutTyped ==
  ASSUME TypeCorrect, NEW a \in Actors, DrainOut(a)
  PROVE  TypeCorrect'
<1> USE DEF TypeCorrect
<1>s. Putting' = Putting => PutsLeft' \/ puts' # puts
  BY DEF PutsLeft
<1>1. CASE Drain(a)
  <2>0. UNCHANGED <<unfinished, puts, died, stop, open, disk, cons, hand, pc, ending>>
    BY <1>1 DEF Drain
  <2>1. queue' \in Seq(Entries) /\ Len(queue') = Len(queue) - 1 /\ Len(queue) \in Nat /\ Head(queue) \in Entries
    BY <1>1, TailTyped DEF Drain, TypeOK
  <2>2. kept' \in [Actors -> Seq(Entries)]
    BY <1>1, <2>1, AppendTyped, LastOfTyped DEF Drain, TypeOK
  <2>3. TypeOK'
    BY <2>0, <2>1, <2>2, FileBackendAssumption DEF TypeOK, disk, ending
  <2>4. Putting' = Putting
    BY <2>0 DEF Putting
  <2>5. HandAt'
    BY <2>0 DEF HandAt
  <2>6. Counted'
    BY <2>0, <2>1 DEF Counted, TypeOK
  <2> QED BY <1>s, <2>0, <2>3, <2>4, <2>5, <2>6
<1>2. CASE Drained(a)
  <2>0. pc[a] = "drain" /\ Goto(a, "pill") /\ UNCHANGED <<sync, disk, cons, hand, kept, ending>>
    BY <1>2 DEF Drained
  <2>1. TypeOK'
    BY <2>0, GotoTyped, FileBackendAssumption DEF TypeOK, WriterAt, CloserAt, Draining, disk, sync, ending
  <2>2. Putting' = Putting
    BY <2>0 DEF Goto, TypeOK, Actors, Putting
  <2> QED BY <1>s, <2>0, <2>1, <2>2 DEF HandAt, Counted, sync
<1>3. CASE Pill(a)
  <2>0. /\ pc[a] = "pill" /\ ~Full /\ Put(None) /\ Goto(a, IF a = Closer THEN "mark" ELSE "join")
        /\ UNCHANGED <<puts, died, stop, open, disk, cons, hand, kept, ending>>
    BY <1>3 DEF Pill
  <2>1. queue' \in Seq(Entries) /\ Len(queue') = Len(queue) + 1 /\ Len(queue) \in Nat
    BY <2>0, AppendTyped DEF Put, Entries, TypeOK
  <2>2. TypeOK'
    BY <2>0, <2>1, GotoTyped, FileBackendAssumption DEF TypeOK, WriterAt, CloserAt, Draining, disk, ending, Full, Put
  <2>3. Putting' = Putting
    BY <2>0 DEF Goto, TypeOK, Actors, Putting
  <2>4. HandAt'
    BY <2>0 DEF HandAt
  <2>5. Counted'
    BY <2>0, <2>1 DEF Counted, TypeOK, Put
  <2> QED BY <1>s, <2>0, <2>2, <2>3, <2>4, <2>5
<1>4. CASE Joined(a)
  <2>0. pc[a] = "join" /\ UNCHANGED <<sync, files, index, handle, cons, hand, ending>>
    BY <1>4 DEF Joined
  <2>1. CASE Goto(a, "closed") /\ UNCHANGED <<buffer, kept>> /\ a = Closer
    <3>1. TypeOK'
      BY <2>0, <2>1, GotoTyped, FileBackendAssumption DEF TypeOK, CloserAt, sync, ending
    <3>2. Putting' = Putting
      BY <2>0, <2>1 DEF Goto, TypeOK, Actors, Putting
    <3> QED BY <1>s, <2>0, <2>1, <3>1, <3>2 DEF HandAt, Counted, sync
  <2>2. CASE Mutate(a, "tail", buffer \o kept[a]) /\ kept' = [kept EXCEPT ![a] = buffer']
    <3>1. buffer' \in Seq(Entries)
      BY <2>2 DEF Mutate, TypeOK
    <3>2. TypeOK'
      BY <2>0, <2>2, <3>1, MutateTyped, FileBackendAssumption DEF TypeOK, Draining, sync, ending
    <3>3. Putting' = Putting
      BY <2>0, <2>2 DEF Mutate, TypeOK, Actors, Putting
    <3> QED BY <1>s, <2>0, <2>2, <3>2, <3>3 DEF HandAt, Counted, sync
  <2> QED BY <1>4, <2>1, <2>2 DEF Joined
<1>5. CASE WriteTail(a)
  <2>0. pc[a] = "tail" /\ UNCHANGED <<sync, buffer, index, handle, cons, hand, ending>>
    BY <1>5 DEF WriteTail
  <2>1. files' \in [Files -> Seq(Entries)] /\ kept' \in [Actors -> Seq(Entries)]
    <3>1. CASE /\ files' = [files EXCEPT ![handle.file] = Append(@, Head(kept[a]))]
               /\ kept' = [kept EXCEPT ![a] = Tail(@)] /\ kept[a] # <<>>
      <4>1. kept[a] \in Seq(Entries) /\ handle.file \in Files /\ files[handle.file] \in Seq(Entries)
        BY DEF TypeOK
      <4> QED BY <3>1, <4>1, AppendTyped, TailTyped DEF TypeOK
    <3>2. CASE UNCHANGED <<files, kept>>
      BY <3>2 DEF TypeOK
    <3> QED BY <1>5, <3>1, <3>2 DEF WriteTail
  <2>2. \/ UNCHANGED pc \/ Goto(a, "clear") \/ Goto(a, Done(a)) \/ Goto(a, "raised")
    BY <1>5 DEF WriteTail
  <2>3. TypeOK'
    BY <2>0, <2>1, <2>2, GotoTyped, FileBackendAssumption DEF TypeOK, WriterAt, CloserAt, Draining, Done, sync, ending
  <2>4. Putting' = Putting
    BY <2>0, <2>2 DEF Goto, TypeOK, Actors, Putting, Done
  <2> QED BY <1>s, <2>0, <2>3, <2>4 DEF HandAt, Counted, sync
<1>6. CASE Break(a)
  <2>0. pc[a] = "broken" /\ Goto(a, "raised") /\ UNCHANGED <<sync, disk, cons, hand, kept, ending>>
    BY <1>6 DEF Break
  <2>1. TypeOK'
    BY <2>0, GotoTyped, FileBackendAssumption DEF TypeOK, WriterAt, CloserAt, Draining, disk, sync, ending
  <2>2. Putting' = Putting
    BY <2>0 DEF Goto, TypeOK, Actors, Putting
  <2> QED BY <1>s, <2>0, <2>1, <2>2 DEF HandAt, Counted, sync
<1>7. CASE Clear(a)
  <2>0. /\ pc[a] = "clear" /\ Mutate(a, "shut", <<>>) /\ buffer' = <<>>
        /\ UNCHANGED <<sync, files, index, handle, cons, hand, kept, ending>>
    BY <1>7 DEF Clear, Mutate
  <2>1. TypeOK'
    BY <2>0, MutateTyped, FileBackendAssumption DEF TypeOK, Draining, sync, ending
  <2>2. Putting' = Putting
    BY <2>0 DEF Mutate, TypeOK, Actors, Putting
  <2> QED BY <1>s, <2>0, <2>1, <2>2 DEF HandAt, Counted, sync
<1>8. CASE Shut(a)
  <2>0. /\ pc[a] = "shut" /\ Goto(a, Done(a)) /\ handle' = [handle EXCEPT !.open = FALSE]
        /\ UNCHANGED <<sync, buffer, files, index, cons, hand, kept, ending>>
    BY <1>8 DEF Shut
  <2>1. TypeOK'
    BY <2>0, GotoTyped, FileBackendAssumption DEF TypeOK, WriterAt, CloserAt, Draining, Done, sync, ending
  <2>2. Putting' = Putting
    BY <2>0 DEF Goto, TypeOK, Actors, Putting, Done
  <2> QED BY <1>s, <2>0, <2>1, <2>2 DEF HandAt, Counted, sync
<1> QED BY <1>1, <1>2, <1>3, <1>4, <1>5, <1>6, <1>7, <1>8 DEF DrainOut

LEMMA CloseTyped ==
  ASSUME TypeCorrect, Close \/ Wait \/ Mark \/ LastPill
  PROVE  TypeCorrect'
<1> USE DEF TypeCorrect
<1>a. Closer \in Actors /\ Closer \notin Writers
  BY FileBackendAssumption DEF Actors
<1>s. (Putting' = Putting => PutsLeft' \/ puts' # puts)
  BY DEF PutsLeft
<1>1. CASE Close
  <2>0. /\ clean' \in BOOLEAN /\ enders' = enders + 1 /\ stop' \in BOOLEAN
        /\ Goto(Closer, "wait") \/ Goto(Closer, "drain")
        /\ UNCHANGED <<queue, unfinished, puts, died, open, disk, cons, hand, kept>>
    BY <1>1 DEF Close, CleanDrain
  <2>1. TypeOK'
    BY <2>0, <1>a, GotoTyped DEF TypeOK, CloserAt, Draining, disk
  <2>2. Putting' = Putting
    BY <2>0, <1>a DEF Goto, TypeOK, Actors, Putting
  <2> QED BY <1>s, <2>0, <2>1, <2>2 DEF HandAt, Counted
<1>2. CASE Wait
  <2>0. Goto(Closer, "mark") /\ UNCHANGED <<sync, disk, cons, hand, kept, ending>>
    BY <1>2 DEF Wait
  <2>1. TypeOK'
    BY <2>0, <1>a, GotoTyped DEF TypeOK, CloserAt, Draining, disk, sync, ending
  <2>2. Putting' = Putting
    BY <2>0, <1>a DEF Goto, TypeOK, Actors, Putting
  <2> QED BY <1>s, <2>0, <2>1, <2>2 DEF HandAt, Counted, sync
<1>3. CASE Mark
  <2>0. /\ Goto(Closer, "last") /\ died' = TRUE
        /\ UNCHANGED <<queue, unfinished, puts, stop, open, disk, cons, hand, kept, ending>>
    BY <1>3 DEF Mark
  <2>1. TypeOK'
    BY <2>0, <1>a, GotoTyped DEF TypeOK, CloserAt, Draining, disk, ending
  <2>2. Putting' = Putting
    BY <2>0, <1>a DEF Goto, TypeOK, Actors, Putting
  <2> QED BY <1>s, <2>0, <2>1, <2>2 DEF HandAt, Counted
<1>4. CASE LastPill
  <2>0. /\ ~Full /\ Put(None) /\ Goto(Closer, "join")
        /\ UNCHANGED <<puts, died, stop, open, disk, cons, hand, kept, ending>>
    BY <1>4 DEF LastPill
  <2>1. queue' \in Seq(Entries) /\ Len(queue') = Len(queue) + 1 /\ Len(queue) \in Nat
    BY <2>0, AppendTyped DEF Put, Entries, TypeOK
  <2>2. TypeOK'
    BY <2>0, <2>1, <1>a, GotoTyped, FileBackendAssumption DEF TypeOK, CloserAt, Draining, disk, ending, Full, Put
  <2>3. Putting' = Putting
    BY <2>0, <1>a DEF Goto, TypeOK, Actors, Putting
  <2>4. HandAt'
    BY <2>0 DEF HandAt
  <2>5. Counted'
    BY <2>0, <2>1 DEF Counted, TypeOK, Put
  <2> QED BY <1>s, <2>0, <2>2, <2>3, <2>4, <2>5
<1> QED BY <1>1, <1>2, <1>3, <1>4

LEMMA RotatedTyped ==
  ASSUME TypeOK, NEW lines \in Seq(Entries), Rotated(lines)
  PROVE  /\ files' \in [Files -> Seq(Entries)]
         /\ handle' \in [file : Files, open : BOOLEAN]
         /\ index' \in Files
         /\ buffer' \in Seq(Entries)
<1>1. index' \in Files
  BY FileBackendAssumption DEF Rotated, TypeOK, NextIndex, Files
<1> QED BY <1>1 DEF Rotated, TypeOK, NewHandle

LEMMA ConsumeTyped ==
  ASSUME TypeCorrect, Consume
  PROVE  TypeCorrect'
<1> USE DEF TypeCorrect
<1>s. (UNCHANGED <<pc, puts>> => PutsLeft')
  BY DEF PutsLeft, Putting
<1>1. CASE Loop
  <2>0. cons = "top" /\ cons' \in {"ended", "get"} /\ UNCHANGED <<sync, disk, hand, pc, kept, ending>>
    BY <1>1 DEF Loop
  <2>1. TypeOK'
    BY <2>0 DEF TypeOK, disk, sync, ending
  <2> QED BY <1>s, <2>0, <2>1 DEF HandAt, Counted, sync
<1>2. CASE Take
  <2>0. /\ cons = "get" /\ queue # <<>> /\ queue' = Tail(queue)
        /\ UNCHANGED <<unfinished, puts, died, stop, open, disk, pc, kept, ending>>
        /\ IF Head(queue) = None THEN cons' = "ended" /\ UNCHANGED hand
                                 ELSE cons' = "append" /\ hand' = Head(queue)
    BY <1>2 DEF Take
  <2>1. queue' \in Seq(Entries) /\ Len(queue') = Len(queue) - 1 /\ Len(queue) \in Nat /\ Head(queue) \in Entries
    BY <2>0, TailTyped DEF TypeOK
  <2>2. TypeOK'
    BY <2>0, <2>1, FileBackendAssumption DEF TypeOK, disk, ending
  <2>3. HandAt'
    BY <2>0 DEF HandAt
  <2>4. Counted'
    BY <2>0, <2>1 DEF Counted, TypeOK
  <2> QED BY <1>s, <2>0, <2>2, <2>3, <2>4
<1>3. CASE AppendLine
  <2>0. /\ cons = "append" /\ cons' = "top" /\ hand' = None /\ unfinished' = unfinished - 1
        /\ UNCHANGED <<queue, puts, died, stop, open, pc, kept, ending>>
    BY <1>3 DEF AppendLine, TaskDone
  <2>1. /\ files' \in [Files -> Seq(Entries)] /\ handle' \in [file : Files, open : BOOLEAN]
        /\ index' \in Files /\ buffer' \in Seq(Entries)
    <3>1. CASE buffer' = Append(buffer, hand) /\ UNCHANGED <<files, index, handle>>
      BY <3>1, LinesTyped DEF TypeOK
    <3>2. CASE Rotated(Append(buffer, hand))
      BY <3>2, LinesTyped, RotatedTyped
    <3> QED BY <1>3, <3>1, <3>2 DEF AppendLine
  <2>2. unfinished' \in Nat /\ unfinished' >= Len(queue)
    BY <2>0 DEF Counted, TypeOK
  <2>3. TypeOK'
    BY <2>0, <2>1, <2>2 DEF TypeOK, Entries, ending
  <2> QED BY <1>s, <2>0, <2>2, <2>3 DEF HandAt, Counted
<1>4. CASE AppendFails
  <2>0. /\ cons = "append" /\ cons' = "ended" /\ hand' = None /\ died' = TRUE
        /\ buffer' = Append(buffer, hand)
        /\ UNCHANGED <<queue, unfinished, puts, stop, open, index, pc, kept, ending>>
    BY <1>4 DEF AppendFails
  <2>1. files' \in [Files -> Seq(Entries)] /\ handle' \in [file : Files, open : BOOLEAN]
    <3>1. CASE handle' = [handle EXCEPT !.open = FALSE] /\ UNCHANGED files
      BY <3>1 DEF TypeOK
    <3>2. CASE /\ handle' = NewHandle(index)
               /\ \E k \in 0..Len(Append(buffer, hand)) :
                    files' = [files EXCEPT ![index] = SubSeq(Append(buffer, hand), 1, k)]
      BY <3>2, LinesTyped DEF TypeOK, NewHandle
    <3> QED BY <1>4, <3>1, <3>2 DEF AppendFails
  <2>2. TypeOK'
    BY <2>0, <2>1, LinesTyped DEF TypeOK, Entries, ending
  <2>3. Counted'
    BY <2>0 DEF Counted, TypeOK
  <2> QED BY <1>s, <2>0, <2>2, <2>3 DEF HandAt
<1> QED BY <1>1, <1>2, <1>3, <1>4 DEF Consume

LEMMA TypeSteps == TypeCorrect /\ [Next]_vars => TypeCorrect'
<1> SUFFICES ASSUME TypeCorrect, [Next]_vars PROVE TypeCorrect'
  OBVIOUS
<1>1. CASE UNCHANGED vars
  BY <1>1 DEF vars, sync, disk, ending, TypeCorrect, TypeOK, PutsLeft, Putting, HandAt, Counted
<1>2. ASSUME NEW w \in Writers, Write(w) \/ Writing(w) PROVE TypeCorrect'
  BY <1>2, WriteTyped, DrainOutTyped DEF Writing, Actors
<1>3. CASE Close \/ Closing
  BY <1>3, CloseTyped, DrainOutTyped DEF Closing, Actors
<1>4. CASE Consume
  BY <1>4, ConsumeTyped
<1> QED BY <1>1, <1>2, <1>3, <1>4 DEF Next

\* The variables have their types for every number of writers and every size: the
\* queue is never longer than its maxsize, the accepted lines are never more than
\* the bound, and task_done() is never called once too often.
THEOREM BackendTyped == Spec => []TypeOK
<1>1. Spec => []TypeCorrect
  BY TypeStarts, TypeSteps, PTL DEF Spec
<1>2. TypeCorrect => TypeOK
  BY DEF TypeCorrect
<1> QED BY <1>1, <1>2, PTL

-----------------------------------------------------------------------------
(***************************************************************************)
(* FileBackend: the order of the lines.                                    *)
(***************************************************************************)
\* The lines that have been taken out of the queue, and are still somewhere.
KeptLines == UNION {In(kept[a]) : a \in Actors}
Out == OnDisk \cup In(buffer) \cup ({hand} \ {None}) \cup KeptLines

LEMMA KeptExcept ==
  ASSUME TypeOK, NEW a \in Actors, NEW s, kept' = [kept EXCEPT ![a] = s]
  PROVE  \A x : x \in KeptLines' <=> x \in In(s) \/ \E b \in Actors \ {a} : x \in In(kept[b])
<1>1. kept'[a] = s /\ \A b \in Actors \ {a} : kept'[b] = kept[b]
  BY DEF TypeOK
<1>2. \A x : x \in KeptLines' <=> \E b \in Actors : x \in In(kept'[b])
  BY DEF KeptLines, In
<1> QED BY <1>1, <1>2

LEMMA KeptIff == \A x : x \in KeptLines <=> \E b \in Actors : x \in In(kept[b])
<1> QED BY DEF KeptLines

LEMMA DiskIff == \A x : x \in OnDisk <=> \E i \in Files : x \in In(files[i])
<1> QED BY DEF OnDisk

LEMMA DiskExcept ==
  ASSUME TypeOK, NEW i \in Files, NEW s, files' = [files EXCEPT ![i] = s]
  PROVE  \A x : x \in OnDisk' <=> x \in In(s) \/ \E j \in Files \ {i} : x \in In(files[j])
<1>1. files'[i] = s /\ \A j \in Files \ {i} : files'[j] = files[j]
  BY DEF TypeOK
<1>2. \A x : x \in OnDisk' <=> \E j \in Files : x \in In(files'[j])
  BY DEF OnDisk, In
<1> QED BY <1>1, <1>2

\* No line moves but in the queue.
StaysPut == UNCHANGED <<buffer, files, index, hand, kept>>

LEMMA OutStays == StaysPut => UNCHANGED <<OnDisk, KeptLines, Out>>
<1> QED BY DEF StaysPut, Out, KeptLines, OnDisk, In

LEMMA OutDrain ==
  ASSUME TypeCorrect, NEW a \in Actors, Drain(a)
  PROVE  /\ Out' \subseteq Out \cup ({Head(queue)} \ {None})
         /\ kept[a] = <<>> \/ Len(kept[a]) < Keep => Out' = Out \cup ({Head(queue)} \ {None})
         /\ kept[a] # <<>> => Out \cup ({Head(queue)} \ {None}) \subseteq Out' \cup {Head(kept[a])}
<1> DEFINE h == Head(queue)
           s == kept[a]
           t == Append(s, h)
<1>1. /\ h \in Entries /\ s \in Seq(Entries) /\ Len(s) \in Nat /\ Keep \in Nat \ {0}
      /\ kept' = [kept EXCEPT ![a] = LastOf(t)] /\ UNCHANGED <<buffer, files, hand>>
  BY TailTyped, FileBackendAssumption DEF TypeCorrect, TypeOK, Drain, disk
<1>2. /\ t \in Seq(Entries) /\ Len(t) = Len(s) + 1 /\ t # <<>>
      /\ In(t) = In(s) \cup ({h} \ {None})
      /\ s # <<>> => Head(t) = Head(s)
  <2> HIDE DEF h, s
  <2>1. t \in Seq(Entries) /\ Len(t) = Len(s) + 1 /\ t # <<>>
    BY <1>1
  <2>2. In(t) = In(s) \cup ({h} \ {None})
    BY <1>1, InAppend
  <2>3. s # <<>> => Head(t) = Head(s)
    BY <1>1
  <2> QED BY <2>1, <2>2, <2>3
<1>3. In(t) = In(Tail(t)) \cup ({Head(t)} \ {None})
  BY <1>2, InTail
<1>4. LastOf(t) = (IF Len(s) + 1 > Keep THEN Tail(t) ELSE t)
  BY <1>2 DEF LastOf
<1>5. /\ \A x : x \in KeptLines' <=> x \in In(LastOf(t)) \/ \E b \in Actors \ {a} : x \in In(kept[b])
      /\ \A x : x \in KeptLines <=> x \in In(s) \/ \E b \in Actors \ {a} : x \in In(kept[b])
  BY <1>1, KeptExcept, KeptIff DEF TypeCorrect
<1>6. In(LastOf(t)) \subseteq In(s) \cup ({h} \ {None})
  BY <1>2, <1>3, <1>4
<1>7. s = <<>> \/ Len(s) < Keep => In(LastOf(t)) = In(s) \cup ({h} \ {None})
  BY <1>1, <1>2, <1>4
<1>8. s # <<>> => In(s) \cup ({h} \ {None}) \subseteq In(LastOf(t)) \cup {Head(s)}
  BY <1>2, <1>3, <1>4
<1>9. OnDisk' = OnDisk /\ In(buffer)' = In(buffer)
  BY <1>1 DEF OnDisk, In
<1> HIDE DEF h, s, t
<1>10. Out' \subseteq Out \cup ({h} \ {None})
  BY <1>1, <1>5, <1>6, <1>9 DEF Out
<1>11. s = <<>> \/ Len(s) < Keep => Out' = Out \cup ({h} \ {None})
  BY <1>1, <1>5, <1>7, <1>9 DEF Out
<1>12. s # <<>> => Out \cup ({h} \ {None}) \subseteq Out' \cup {Head(s)}
  BY <1>1, <1>5, <1>8, <1>9 DEF Out
<1> QED BY <1>10, <1>11, <1>12 DEF h, s

LEMMA OutJoined ==
  ASSUME TypeCorrect, NEW a \in Actors, Joined(a)
  PROVE  Out' = Out
<1>1. UNCHANGED <<files, hand>> /\ OnDisk' = OnDisk
  BY DEF Joined, OnDisk, In
<1>2. CASE UNCHANGED <<buffer, kept>>
  BY <1>1, <1>2 DEF Out, KeptLines, In
<1>3. CASE Mutate(a, "tail", buffer \o kept[a]) /\ kept' = [kept EXCEPT ![a] = buffer']
  <2>1. buffer' = buffer \o kept[a] /\ In(buffer') = In(buffer) \cup In(kept[a])
    BY <1>3, InConcat DEF Mutate, TypeCorrect, TypeOK
  <2>2. /\ \A x : x \in KeptLines' <=> x \in In(buffer') \/ \E b \in Actors \ {a} : x \in In(kept[b])
        /\ \A x : x \in KeptLines <=> x \in In(kept[a]) \/ \E b \in Actors \ {a} : x \in In(kept[b])
    BY <1>3, KeptExcept, KeptIff DEF TypeCorrect
  <2>3. In(buffer)' = In(buffer')
    BY DEF In
  <2> QED BY <1>1, <2>1, <2>2, <2>3 DEF Out
<1> QED BY <1>2, <1>3 DEF Joined

LEMMA OutWriteTail ==
  ASSUME TypeCorrect, NEW a \in Actors, WriteTail(a)
  PROVE  Out' = Out
<1>1. CASE UNCHANGED <<files, kept>>
  BY <1>1 DEF Out, KeptLines, OnDisk, In, WriteTail
<1>2. CASE /\ kept[a] # <<>>
           /\ files' = [files EXCEPT ![handle.file] = Append(@, Head(kept[a]))]
           /\ kept' = [kept EXCEPT ![a] = Tail(@)]
  <2> DEFINE h == Head(kept[a])
             i == handle.file
  <2>1. i \in Files /\ files[i] \in Seq(Entries) /\ kept[a] \in Seq(Entries) /\ h \in Entries
    BY <1>2, TailTyped DEF TypeCorrect, TypeOK
  <2>2. /\ In(kept[a]) = In(Tail(kept[a])) \cup ({h} \ {None})
        /\ In(Append(files[i], h)) = In(files[i]) \cup ({h} \ {None})
    BY <1>2, <2>1, InTail, InAppend
  <2>3. /\ \A x : x \in KeptLines' <=> x \in In(Tail(kept[a])) \/ \E b \in Actors \ {a} : x \in In(kept[b])
        /\ \A x : x \in KeptLines <=> x \in In(kept[a]) \/ \E b \in Actors \ {a} : x \in In(kept[b])
    <3>1. kept' = [kept EXCEPT ![a] = Tail(kept[a])]
      BY <1>2
    <3> QED BY <3>1, KeptExcept, KeptIff DEF TypeCorrect
  <2>4. /\ \A x : x \in OnDisk' <=> x \in In(Append(files[i], h)) \/ \E j \in Files \ {i} : x \in In(files[j])
        /\ \A x : x \in OnDisk <=> x \in In(files[i]) \/ \E j \in Files \ {i} : x \in In(files[j])
    <3>1. files' = [files EXCEPT ![i] = Append(files[i], h)]
      BY <1>2
    <3> QED BY <2>1, <3>1, DiskExcept, DiskIff DEF TypeCorrect
  <2>5. In(buffer)' = In(buffer) /\ hand' = hand
    BY DEF In, WriteTail
  <2> HIDE DEF h, i
  <2> QED BY <2>2, <2>3, <2>4, <2>5 DEF Out
<1> QED BY <1>1, <1>2 DEF WriteTail

LEMMA OutClear ==
  ASSUME TypeCorrect, NEW a \in Actors, Clear(a)
  PROVE  Out = Out' \cup In(buffer) /\ UNCHANGED <<OnDisk, KeptLines>>
<1>1. buffer' = <<>> /\ UNCHANGED <<files, hand, kept>>
  BY DEF Clear, Mutate
<1>2. In(buffer)' = {}
  BY <1>1 DEF In
<1>3. UNCHANGED <<OnDisk, KeptLines>>
  BY <1>1 DEF OnDisk, KeptLines, In
<1> QED BY <1>1, <1>2, <1>3 DEF Out

LEMMA OutCleanup ==
  ASSUME TypeCorrect, NEW w \in Writers, Cleanup(w)
  PROVE  /\ Out' \subseteq Out
         /\ kept[w] = <<>> => Out' = Out
<1>1. UNCHANGED <<buffer, files, hand>> /\ OnDisk' = OnDisk /\ In(buffer)' = In(buffer)
  BY DEF Cleanup, disk, OnDisk, In
<1>2. CASE kept' = kept
  <2>1. KeptLines' = KeptLines
    BY <1>2 DEF KeptLines, In
  <2> QED BY <1>1, <2>1 DEF Out
<1>3. CASE kept' = [kept EXCEPT ![w] = <<>>]
  <2>1. /\ \A x : x \in KeptLines' <=> x \in In(<<>>) \/ \E b \in Actors \ {w} : x \in In(kept[b])
        /\ \A x : x \in KeptLines <=> x \in In(kept[w]) \/ \E b \in Actors \ {w} : x \in In(kept[b])
    BY <1>3, KeptExcept, KeptIff DEF TypeCorrect, Actors
  <2> QED BY <1>1, <2>1, InEmpty DEF Out
<1> QED BY <1>2, <1>3 DEF Cleanup

LEMMA OutTake ==
  ASSUME TypeCorrect, Take
  PROVE  Out' = Out \cup ({Head(queue)} \ {None}) /\ UNCHANGED <<OnDisk, KeptLines, buffer, files>>
<1>1. UNCHANGED <<buffer, files, kept>> /\ hand = None
  BY DEF Take, disk, TypeCorrect, HandAt
<1>2. hand' = Head(queue) \/ (Head(queue) = None /\ hand' = hand)
  BY DEF Take
<1>3. UNCHANGED <<OnDisk, KeptLines>> /\ In(buffer)' = In(buffer)
  BY <1>1 DEF OnDisk, KeptLines, In
<1> QED BY <1>1, <1>2, <1>3 DEF Out

\* The buffer with the consumer's line behind it.
LEMMA InLines ==
  ASSUME TypeCorrect
  PROVE  In(Append(buffer, hand)) = In(buffer) \cup ({hand} \ {None})
<1> QED BY InAppend DEF TypeCorrect, TypeOK

LEMMA OutBuffered ==
  ASSUME TypeCorrect, buffer' = Append(buffer, hand), hand' = None, UNCHANGED <<files, kept>>
  PROVE  Out' = Out /\ OnDisk' = OnDisk
<1>1. OnDisk' = OnDisk /\ KeptLines' = KeptLines /\ In(buffer)' = In(Append(buffer, hand))
  BY DEF OnDisk, KeptLines, In
<1> QED BY <1>1, InLines DEF Out

\* A file is overwritten, wholly or in part, by the buffer and the consumer's line.
LEMMA OutOverwrites ==
  ASSUME TypeCorrect, NEW s, files' = [files EXCEPT ![index] = s], hand' = None, UNCHANGED kept,
         In(s) \cup In(buffer') = In(buffer) \cup ({hand} \ {None})
  PROVE  /\ Out' \subseteq Out
         /\ Out \subseteq Out' \cup In(files[index])
<1>1. /\ \A x : x \in OnDisk' <=> x \in In(s) \/ \E j \in Files \ {index} : x \in In(files[j])
      /\ \A x : x \in OnDisk <=> x \in In(files[index]) \/ \E j \in Files \ {index} : x \in In(files[j])
  BY DiskExcept, DiskIff DEF TypeCorrect, TypeOK
<1>2. KeptLines' = KeptLines /\ In(buffer)' = In(buffer')
  BY DEF KeptLines, In
<1> QED BY <1>1, <1>2 DEF Out

LEMMA OutAppendLine ==
  ASSUME TypeCorrect, AppendLine
  PROVE  Out' \subseteq Out /\ Out \subseteq Out' \cup In(files[index])
<1>1. hand' = None /\ UNCHANGED kept
  BY DEF AppendLine, NewHandle
<1>2. CASE buffer' = Append(buffer, hand) /\ UNCHANGED <<files, index, handle>>
  BY <1>1, <1>2, OutBuffered
<1>3. CASE Rotated(Append(buffer, hand))
  <2>1. /\ files' = [files EXCEPT ![index] = Append(buffer, hand)]
        /\ buffer' = <<>>
    BY <1>3 DEF Rotated
  <2> QED BY <1>1, <2>1, InLines, InEmpty, OutOverwrites
<1> QED BY <1>2, <1>3 DEF AppendLine

LEMMA OutAppendFails ==
  ASSUME TypeCorrect, AppendFails
  PROVE  Out' \subseteq Out /\ Out \subseteq Out' \cup In(files[index])
<1>1. hand' = None /\ UNCHANGED kept /\ buffer' = Append(buffer, hand)
  BY DEF AppendFails
<1>2. CASE UNCHANGED files
  BY <1>1, <1>2, OutBuffered
<1>3. ASSUME NEW k \in 0..Len(Append(buffer, hand)),
             files' = [files EXCEPT ![index] = SubSeq(Append(buffer, hand), 1, k)]
      PROVE  Out' \subseteq Out /\ Out \subseteq Out' \cup In(files[index])
  <2>1. In(SubSeq(Append(buffer, hand), 1, k)) \subseteq In(Append(buffer, hand))
    BY LinesTyped, InPrefix DEF TypeCorrect
  <2>2. In(SubSeq(Append(buffer, hand), 1, k)) \cup In(buffer') = In(buffer) \cup ({hand} \ {None})
    BY <1>1, <2>1, InLines
  <2> QED BY <1>1, <1>3, <2>2, OutOverwrites
<1> QED BY <1>2, <1>3 DEF AppendFails

\* The queue is first in, first out.
QueueNewest ==
    /\ \A i \in DOMAIN queue : queue[i] <= puts
    /\ \A m \in Out : m <= puts
    /\ \A i, j \in DOMAIN queue :
         i < j /\ queue[i] # None /\ queue[j] # None => queue[i] < queue[j]
    /\ \A m \in Out : \A i \in DOMAIN queue : queue[i] # None => m < queue[i]

\* What a step does to the queue, and to the lines that are out of it.
QueueStays == UNCHANGED <<queue, puts>> /\ Out' \subseteq Out
QueuePill == queue' = Append(queue, None) /\ UNCHANGED puts /\ Out' = Out
QueueLine == queue' = Append(queue, puts + 1) /\ puts' = puts + 1 /\ Out' = Out
QueuePops ==
    /\ queue # <<>> /\ queue' = Tail(queue) /\ UNCHANGED puts
    /\ Out' \subseteq Out \cup ({Head(queue)} \ {None})

LEMMA QueueSteps ==
  ASSUME TypeCorrect, Next
  PROVE  QueueStays \/ QueuePill \/ QueueLine \/ QueuePops
<1>1. ASSUME NEW w \in Writers, Write(w) PROVE QueueStays
  BY <1>1, OutStays DEF Write, disk, QueueStays, StaysPut
<1>2. ASSUME NEW w \in Writers, PutLine(w) PROVE QueueStays \/ QueueLine
  BY <1>2, OutStays DEF PutLine, Put, disk, QueueStays, QueueLine, StaysPut
<1>3. ASSUME NEW w \in Writers, Cleanup(w) PROVE QueueStays
  BY <1>3, OutCleanup DEF Cleanup, QueueStays
<1>4. ASSUME NEW a \in Actors, Drain(a) PROVE QueuePops
  BY <1>4, OutDrain DEF Drain, QueuePops
<1>5. ASSUME NEW a \in Actors, Drained(a) \/ Break(a) \/ Shut(a) PROVE QueueStays
  BY <1>5, OutStays DEF Drained, Break, Shut, disk, sync, QueueStays, StaysPut
<1>6. ASSUME NEW a \in Actors, Pill(a) PROVE QueuePill
  BY <1>6, OutStays DEF Pill, Put, disk, QueuePill, StaysPut
<1>7. ASSUME NEW a \in Actors, Joined(a) \/ WriteTail(a) PROVE QueueStays
  BY <1>7, OutJoined, OutWriteTail DEF Joined, WriteTail, sync, QueueStays
<1>8. ASSUME NEW a \in Actors, Clear(a) PROVE QueueStays
  BY <1>8, OutClear DEF Clear, sync, QueueStays
<1>9. CASE Close \/ Wait \/ Mark
  BY <1>9, OutStays DEF Close, Wait, Mark, disk, sync, QueueStays, StaysPut
<1>10. CASE LastPill
  BY <1>10, OutStays DEF LastPill, Put, disk, QueuePill, StaysPut
<1>11. CASE Loop
  BY <1>11, OutStays DEF Loop, disk, sync, QueueStays, StaysPut
<1>12. CASE Take
  BY <1>12, OutTake DEF Take, QueuePops
<1>13. CASE AppendLine
  BY <1>13, OutAppendLine DEF AppendLine, QueueStays
<1>14. CASE AppendFails
  BY <1>14, OutAppendFails DEF AppendFails, QueueStays
<1> QED BY <1>1, <1>2, <1>3, <1>4, <1>5, <1>6, <1>7, <1>8, <1>9, <1>10, <1>11, <1>12,
           <1>13, <1>14, Actions

LEMMA QueueNewestSteps ==
  ASSUME TypeCorrect, QueueNewest, Next
  PROVE  QueueNewest'
<1>1. /\ queue \in Seq(Entries) /\ Len(queue) \in Nat /\ DOMAIN queue = 1..Len(queue) /\ puts \in Nat
      /\ \A i \in DOMAIN queue : queue[i] \in Nat
  BY FileBackendAssumption DEF TypeCorrect, TypeOK, Entries, Lines, None
<1>0. /\ (\A i \in DOMAIN queue : queue[i] <= puts)'
      /\ (\A m \in Out : m <= puts)'
      /\ (\A i, j \in DOMAIN queue :
            i < j /\ queue[i] # None /\ queue[j] # None => queue[i] < queue[j])'
      /\ (\A m \in Out : \A i \in DOMAIN queue : queue[i] # None => m < queue[i])'
      => QueueNewest'
  BY DEF QueueNewest
<1>9. \A m \in Out : m \in Nat
  <2>1. hand \in Entries /\ buffer \in Seq(Entries) /\ files \in [Files -> Seq(Entries)] /\ kept \in [Actors -> Seq(Entries)]
    BY DEF TypeCorrect, TypeOK
  <2>2. \A m \in Out : m \in Lines
    BY <2>1, InEntries, KeptIff, DiskIff DEF Out, Entries
  <2> QED BY <2>2, FileBackendAssumption DEF Lines
<1>2. CASE QueueStays
  BY <1>0, <1>2 DEF QueueStays, QueueNewest
<1>3. ASSUME NEW e \in Nat, queue' = Append(queue, e), Out' = Out, puts' \in Nat, puts <= puts', e <= puts',
             e = None \/ e > puts
      PROVE  QueueNewest'
  <2>1. /\ DOMAIN queue' = 1..(Len(queue) + 1)
        /\ \A i \in 1..Len(queue) : queue'[i] = queue[i]
        /\ queue'[Len(queue) + 1] = e
    BY <1>1, <1>3
  <2>2. \A i \in DOMAIN queue' : i \in DOMAIN queue \/ i = Len(queue) + 1
    BY <1>1, <2>1
  <2>3. \A i \in DOMAIN queue' : queue'[i] <= puts'
    BY <1>1, <1>3, <2>1, <2>2 DEF QueueNewest
  <2>4. \A m \in Out' : m <= puts'
    BY <1>1, <1>9, <1>3 DEF QueueNewest
  <2>5. \A i, j \in DOMAIN queue' :
            i < j /\ queue'[i] # None /\ queue'[j] # None => queue'[i] < queue'[j]
    BY <1>1, <1>3, <2>1, <2>2 DEF QueueNewest
  <2>6. \A m \in Out' : \A i \in DOMAIN queue' : queue'[i] # None => m < queue'[i]
    BY <1>1, <1>9, <1>3, <2>1, <2>2 DEF QueueNewest
  <2> QED BY <1>0, <2>3, <2>4, <2>5, <2>6
<1>4. CASE QueuePill
  BY <1>1, <1>3, <1>4 DEF QueuePill, None
<1>5. CASE QueueLine
  BY <1>1, <1>3, <1>5 DEF QueueLine
<1>6. CASE QueuePops
  <2>1. /\ DOMAIN queue' = 1..(Len(queue) - 1) /\ Len(queue) >= 1
        /\ \A i \in 1..Len(queue) - 1 : queue'[i] = queue[i + 1]
        /\ Head(queue) = queue[1]
    BY <1>1, <1>6 DEF QueuePops
  <2>2. /\ puts' = puts /\ 1 \in DOMAIN queue
        /\ \A i \in DOMAIN queue' : i \in Nat /\ i + 1 \in DOMAIN queue /\ 1 < i + 1
    BY <1>1, <1>6, <2>1 DEF QueuePops
  <2>7. \A m \in Out' : m \in Out \/ (m = queue[1] /\ m # None)
    BY <1>6, <2>1 DEF QueuePops
  <2>3. \A i \in DOMAIN queue' : queue'[i] <= puts'
    BY <2>1, <2>2 DEF QueueNewest
  <2>4. \A m \in Out' : m <= puts'
    BY <2>2, <2>7 DEF QueueNewest
  <2>5. \A i, j \in DOMAIN queue' :
            i < j /\ queue'[i] # None /\ queue'[j] # None => queue'[i] < queue'[j]
    <3> SUFFICES ASSUME NEW i \in DOMAIN queue', NEW j \in DOMAIN queue', i < j,
                        queue'[i] # None, queue'[j] # None
                 PROVE  queue'[i] < queue'[j]
      OBVIOUS
    <3>1. /\ i + 1 \in DOMAIN queue /\ j + 1 \in DOMAIN queue /\ i + 1 < j + 1
          /\ queue'[i] = queue[i + 1] /\ queue'[j] = queue[j + 1]
      BY <2>1, <2>2
    <3> QED BY <3>1 DEF QueueNewest
  <2>6. \A m \in Out' : \A i \in DOMAIN queue' : queue'[i] # None => m < queue'[i]
    <3> SUFFICES ASSUME NEW m \in Out', NEW i \in DOMAIN queue', queue'[i] # None
                 PROVE  m < queue'[i]
      OBVIOUS
    <3>1. i + 1 \in DOMAIN queue /\ 1 \in DOMAIN queue /\ queue'[i] = queue[i + 1] /\ 1 < i + 1
      BY <2>1, <2>2
    <3>2. CASE m \in Out
      BY <3>1, <3>2 DEF QueueNewest
    <3>3. CASE m = queue[1] /\ m # None
      BY <3>1, <3>3 DEF QueueNewest
    <3> QED BY <2>7, <3>2, <3>3
  <2> QED BY <1>0, <2>3, <2>4, <2>5, <2>6
<1> QED BY <1>2, <1>4, <1>5, <1>6, QueueSteps

-----------------------------------------------------------------------------
(***************************************************************************)
(* FileBackend: who ends the runner.                                       *)
(***************************************************************************)
\* What is behind the join of the consumer runs when the consumer has ended.
AfterJoin == {"tail", "broken", "clear", "shut", "closed"}
JoinedLast == \A a \in Actors : pc[a] \in AfterJoin => cons = "ended"

LEMMA JoinedLastSteps ==
  ASSUME TypeCorrect, JoinedLast, Next
  PROVE  JoinedLast'
<1> USE DEF JoinedLast, AfterJoin, TypeCorrect, TypeOK
<1>1. ASSUME NEW w \in Writers, Write(w) \/ PutLine(w) \/ Cleanup(w) PROVE JoinedLast'
  BY <1>1 DEF Write, PutLine, Cleanup, PropagateTransient, SinkRaises, Goto
<1>2. ASSUME NEW a \in Actors, Drain(a) \/ Drained(a) \/ Pill(a) \/ Break(a) PROVE JoinedLast'
  BY <1>2 DEF Drain, Drained, Pill, Break, Goto
<1>3. ASSUME NEW a \in Actors, Joined(a) PROVE JoinedLast'
  BY <1>3 DEF Joined
<1>4. ASSUME NEW a \in Actors, WriteTail(a) \/ Clear(a) \/ Shut(a) PROVE JoinedLast'
  BY <1>4 DEF WriteTail, Clear, Shut
<1>5. CASE Close \/ Wait \/ Mark \/ LastPill
  BY <1>5 DEF Close, Wait, Mark, LastPill, Goto
<1>6. CASE Loop \/ Take \/ AppendLine \/ AppendFails
  BY <1>6 DEF Loop, Take, AppendLine, AppendFails
<1> QED BY <1>1, <1>2, <1>3, <1>4, <1>5, <1>6, Actions

\* The threads that have begun to end the runner, or have ended it.
Began(a) == kept[a] # <<>> \/ pc[a] \in {"wait", "mark", "last", "closed"} \cup (Draining \ {"raised"})

\* Until a second thread begins to end the runner, the first one has the queue
\* for itself: no pill is put while it drains, and its deque is in order.
NobodyYet == enders = 0 => (\A a \in Actors : ~Began(a)) /\ OnlyLines(queue)
OneBegan == enders <= 1 => \A a, b \in Actors : a # b /\ Began(a) => ~Began(b)
DrainsAlone == enders <= 1 => \A a \in Actors : pc[a] = "drain" =>
    /\ OnlyLines(queue)
    /\ OnlyLines(kept[a]) /\ Increasing(kept[a]) /\ Len(kept[a]) <= Keep
OneEnder == NobodyYet /\ OneBegan /\ DrainsAlone

\* A step in which nobody begins.
LEMMA BeganSteps ==
  ASSUME TypeCorrect, Next
  PROVE  \/ enders' = enders /\ \A a \in Actors : Began(a)' => Began(a)
         \/ /\ enders' = enders + 1
            /\ \E a \in Actors : \A b \in Actors \ {a} : Began(b)' => Began(b)
<1> USE DEF TypeCorrect, TypeOK
<1>1. ASSUME NEW w \in Writers, Write(w) \/ PutLine(w)
      PROVE  enders' = enders /\ \A a \in Actors : Began(a)' => Began(a)
  <2>1. kept' = kept /\ enders' = enders
    BY <1>1 DEF Write, PutLine, ending
  <2>2. UNCHANGED pc \/ Goto(w, "put") \/ Goto(w, "raised") \/ Goto(w, "fatal") \/ Goto(w, "idle")
    BY <1>1 DEF Write, PutLine, PropagateTransient, SinkRaises
  <2>3. \A a \in Actors : pc'[a] = pc[a] \/ pc'[a] \in {"put", "raised", "fatal", "idle"}
    BY <2>2 DEF Goto
  <2> QED BY <2>1, <2>3 DEF Began, Draining
<1>2. ASSUME NEW w \in Writers, Cleanup(w)
      PROVE  \/ enders' = enders /\ \A a \in Actors : Began(a)' => Began(a)
             \/ /\ enders' = enders + 1
                /\ \E a \in Actors : \A b \in Actors \ {a} : Began(b)' => Began(b)
  <2>1. CASE enders' = enders + 1 /\ Goto(w, "drain") /\ kept' = [kept EXCEPT ![w] = <<>>]
    <3>1. w \in Actors /\ \A b \in Actors \ {w} : pc'[b] = pc[b] /\ kept'[b] = kept[b]
      BY <2>1 DEF Goto, Actors
    <3> QED BY <2>1, <3>1 DEF Began
  <2>2. CASE Goto(w, "raised") /\ UNCHANGED <<kept, enders>>
    <3>1. \A a \in Actors : pc'[a] = pc[a] \/ pc'[a] = "raised"
      BY <2>2 DEF Goto
    <3> QED BY <2>2, <3>1 DEF Began, Draining
  <2> QED BY <1>2, <2>1, <2>2 DEF Cleanup, SinkRaises
<1>3. ASSUME NEW a \in Actors, DrainOut(a), Began(a)
      PROVE  enders' = enders /\ \A b \in Actors : Began(b)' => Began(b)
  <2>1. enders' = enders
    BY <1>3 DEF DrainOut, Drain, Drained, Pill, Joined, WriteTail, Break, Clear, Shut, ending
  <2>2. \A b \in Actors \ {a} : kept'[b] = kept[b]
    BY <1>3 DEF DrainOut, Drain, Drained, Pill, Joined, WriteTail, Break, Clear, Shut
  <2>3. \A b \in Actors \ {a} : pc'[b] = pc[b] \/ (pc[b] = "tail" /\ pc'[b] = "broken")
    BY <1>3 DEF DrainOut, Drain, Drained, Pill, Joined, WriteTail, Break, Clear, Shut, Mutate, Goto
  <2> QED BY <1>3, <2>1, <2>2, <2>3 DEF Began, Draining
<1>4. ASSUME NEW a \in Actors, DrainOut(a) PROVE Began(a)
  BY <1>4 DEF Began, DrainOut, Drain, Drained, Pill, Joined, WriteTail, Break, Clear, Shut, Draining
<1>5. CASE Close
  <2>1. \A b \in Actors \ {Closer} : pc'[b] = pc[b] /\ kept'[b] = kept[b]
    BY <1>5 DEF Close, Goto
  <2> QED BY <1>5, <2>1 DEF Close, Began, Actors
<1>6. CASE Wait \/ Mark \/ LastPill
  <2>1. kept' = kept /\ enders' = enders /\ pc[Closer] \in {"wait", "mark", "last"}
    BY <1>6 DEF Wait, Mark, LastPill, ending
  <2>2. \A b \in Actors \ {Closer} : pc'[b] = pc[b]
    BY <1>6 DEF Wait, Mark, LastPill, Goto
  <2> QED BY <2>1, <2>2 DEF Began
<1>7. CASE Consume
  <2>1. kept' = kept /\ enders' = enders /\ pc' = pc
    BY <1>7 DEF Consume, Loop, Take, AppendLine, AppendFails, ending
  <2> QED BY <2>1 DEF Began
<1> QED BY <1>1, <1>2, <1>3, <1>4, <1>5, <1>6, <1>7 DEF Next, Writing, Closing, Actors

\* What a draining thread keeps changes in its own steps only, and while it
\* keeps draining, in Drain.
LEMMA DrainingStays ==
  ASSUME TypeCorrect, Next, NEW a \in Actors, pc[a] = "drain"
  PROVE  kept'[a] = kept[a] \/ Drain(a)
<1> USE DEF TypeCorrect, TypeOK
<1>1. ASSUME NEW w \in Writers, Write(w) \/ PutLine(w) \/ Cleanup(w) PROVE kept'[a] = kept[a]
  BY <1>1 DEF Write, PutLine, Cleanup
<1>2. ASSUME NEW b \in Actors, \/ Drained(b) \/ Pill(b) \/ Joined(b) \/ WriteTail(b)
                               \/ Break(b) \/ Clear(b) \/ Shut(b)
      PROVE  kept'[a] = kept[a]
  BY <1>2 DEF Drained, Pill, Joined, WriteTail, Break, Clear, Shut
<1>3. ASSUME NEW b \in Actors \ {a}, Drain(b) PROVE kept'[a] = kept[a]
  BY <1>3 DEF Drain
<1>4. CASE Close \/ Wait \/ Mark \/ LastPill \/ Loop \/ Take \/ AppendLine \/ AppendFails
  BY <1>4 DEF Close, Wait, Mark, LastPill, Loop, Take, AppendLine, AppendFails
<1> QED BY <1>1, <1>2, <1>3, <1>4, Actions

\* A drain begins in the step that counts its thread among those that end the
\* runner, and with nothing kept.
LEMMA DrainBegins ==
  ASSUME TypeCorrect, NobodyYet, enders' <= 1, Next, NEW a \in Actors, pc[a] # "drain", pc'[a] = "drain"
  PROVE  enders = 0 /\ UNCHANGED queue /\ kept'[a] = <<>>
<1> USE DEF TypeCorrect, TypeOK
<1>1. ASSUME NEW w \in Writers, Write(w) \/ PutLine(w) PROVE FALSE
  BY <1>1 DEF Write, PutLine, PropagateTransient, SinkRaises, Goto
<1>2. ASSUME NEW w \in Writers, Cleanup(w) PROVE enders = 0 /\ UNCHANGED queue /\ kept'[a] = <<>>
  <2>1. a = w /\ enders' = enders + 1 /\ kept' = [kept EXCEPT ![w] = <<>>] /\ UNCHANGED queue
    BY <1>2 DEF Cleanup, Goto, SinkRaises
  <2> QED BY <2>1
<1>3. ASSUME NEW b \in Actors, DrainOut(b) PROVE FALSE
  BY <1>3 DEF DrainOut, Drain, Drained, Pill, Joined, WriteTail, Break, Clear, Shut, Mutate, Goto, Done
<1>4. CASE Close
  <2>1. a = Closer /\ enders' = enders + 1 /\ UNCHANGED <<queue, kept>>
    BY <1>4 DEF Close, Goto
  <2> QED BY <2>1 DEF NobodyYet, Began
<1>5. CASE Wait \/ Mark \/ LastPill
  BY <1>5 DEF Wait, Mark, LastPill, Goto
<1>6. CASE Consume
  BY <1>6 DEF Consume, Loop, Take, AppendLine, AppendFails
<1> QED BY <1>1, <1>2, <1>3, <1>4, <1>5, <1>6 DEF Next, Writing, Closing, Actors

\* A step that puts no pill leaves a queue without pills.
LEMMA QueueKeepsLines ==
  ASSUME TypeCorrect, OnlyLines(queue), QueueStays \/ QueueLine \/ QueuePops
  PROVE  OnlyLines(queue')
<1>1. queue \in Seq(Entries) /\ puts \in Nat
  BY FileBackendAssumption DEF TypeCorrect, TypeOK
<1>2. CASE QueueStays
  BY <1>2 DEF QueueStays, OnlyLines
<1>3. CASE QueueLine
  <2>1. /\ \A i \in DOMAIN queue' : i \in DOMAIN queue \/ i = Len(queue) + 1
        /\ \A i \in DOMAIN queue : queue'[i] = queue[i]
        /\ queue'[Len(queue) + 1] = puts + 1 /\ puts + 1 # None
    BY <1>1, <1>3 DEF QueueLine, None
  <2> QED BY <2>1 DEF OnlyLines
<1>4. CASE QueuePops
  <2>1. \A i \in DOMAIN queue' : i + 1 \in DOMAIN queue /\ queue'[i] = queue[i + 1]
    BY <1>1, <1>4 DEF QueuePops
  <2> QED BY <2>1 DEF OnlyLines
<1> QED BY <1>2, <1>3, <1>4

\* Only a thread that ends the runner puts a pill.
LEMMA PillsAreEnders ==
  ASSUME TypeCorrect, Next
  PROVE  \/ QueueStays \/ QueueLine \/ QueuePops
         \/ \E a \in Actors : Began(a) /\ (Pill(a) \/ (a = Closer /\ LastPill))
<1>1. ASSUME NEW w \in Writers, Write(w) PROVE QueueStays
  BY <1>1, OutStays DEF Write, disk, QueueStays, StaysPut
<1>2. ASSUME NEW w \in Writers, PutLine(w) PROVE QueueStays \/ QueueLine
  BY <1>2, OutStays DEF PutLine, Put, disk, QueueStays, QueueLine, StaysPut
<1>3. ASSUME NEW w \in Writers, Cleanup(w) PROVE QueueStays
  BY <1>3, OutCleanup DEF Cleanup, QueueStays
<1>4. ASSUME NEW a \in Actors, Drain(a) PROVE QueuePops
  BY <1>4, OutDrain DEF Drain, QueuePops
<1>5. ASSUME NEW a \in Actors, Drained(a) \/ Break(a) \/ Shut(a) PROVE QueueStays
  BY <1>5, OutStays DEF Drained, Break, Shut, disk, sync, QueueStays, StaysPut
<1>6. ASSUME NEW a \in Actors, Pill(a) PROVE Began(a)
  BY <1>6 DEF Pill, Began, Draining
<1>7. ASSUME NEW a \in Actors, Joined(a) \/ WriteTail(a) PROVE QueueStays
  BY <1>7, OutJoined, OutWriteTail DEF Joined, WriteTail, sync, QueueStays
<1>8. ASSUME NEW a \in Actors, Clear(a) PROVE QueueStays
  BY <1>8, OutClear DEF Clear, sync, QueueStays
<1>9. CASE Close \/ Wait \/ Mark
  BY <1>9, OutStays DEF Close, Wait, Mark, disk, sync, QueueStays, StaysPut
<1>10. CASE LastPill
  BY <1>10 DEF LastPill, Began, Actors
<1>11. CASE Loop
  BY <1>11, OutStays DEF Loop, disk, sync, QueueStays, StaysPut
<1>12. CASE Take
  BY <1>12, OutTake DEF Take, QueuePops
<1>13. CASE AppendLine
  BY <1>13, OutAppendLine DEF AppendLine, QueueStays
<1>14. CASE AppendFails
  BY <1>14, OutAppendFails DEF AppendFails, QueueStays
<1> QED BY <1>1, <1>2, <1>3, <1>4, <1>5, <1>6, <1>7, <1>8, <1>9, <1>10, <1>11, <1>12,
           <1>13, <1>14, Actions

\* One get_nowait of a drain: the deque stays in order, and what it drops is
\* older than what it keeps.
LEMMA DrainKeeps ==
  ASSUME TypeCorrect, QueueNewest, NEW a \in Actors, Drain(a), OnlyLines(queue),
         OnlyLines(kept[a]), Increasing(kept[a]), Len(kept[a]) <= Keep
  PROVE  /\ OnlyLines(kept'[a]) /\ Increasing(kept'[a]) /\ Len(kept'[a]) <= Keep
         /\ Len(kept[a]) = Keep =>
              /\ Len(kept'[a]) = Keep
              /\ \A i \in DOMAIN kept'[a] : kept[a][1] < kept'[a][i]
         /\ Head(queue) # None
<1> DEFINE h == Head(queue)
           s == kept[a]
           t == Append(s, h)
           n == Len(s)
<1>1. /\ h \in Entries /\ s \in Seq(Entries) /\ n \in Nat /\ Keep \in Nat \ {0} /\ n <= Keep
      /\ kept'[a] = LastOf(t) /\ h = queue[1] /\ 1 \in DOMAIN queue
      /\ DOMAIN s = 1..n
  BY TailTyped, FileBackendAssumption DEF TypeCorrect, TypeOK, Drain
<1>2. h # None
  BY <1>1 DEF OnlyLines
<1>3. \A i \in 1..n : s[i] # None /\ s[i] < h /\ s[i] \in Nat
  <2>1. \A i \in 1..n : s[i] # None /\ s[i] \in Entries
    BY <1>1 DEF OnlyLines
  <2>2. \A i \in 1..n : s[i] \in KeptLines
    BY <1>1, <2>1, KeptIff, InIff
  <2>3. \A i \in 1..n : s[i] \in Out
    BY <2>2 DEF Out
  <2>4. \A m \in Out : m < h
    BY <1>1, <1>2 DEF QueueNewest
  <2> QED BY <2>1, <2>3, <2>4 DEF Entries, Lines, None
<1>4. \A i, j \in 1..n : i < j => s[i] < s[j]
  BY <1>1 DEF Increasing
<1> HIDE DEF h, s, n
<1>5. /\ t \in Seq(Entries) /\ Len(t) = n + 1 /\ DOMAIN t = 1..(n + 1) /\ t # <<>>
      /\ \A i \in 1..n : t[i] = s[i]
      /\ t[n + 1] = h
  BY <1>1 DEF n
<1> HIDE DEF t
<1>6. /\ \A i \in 1..(n + 1) : t[i] # None
      /\ \A i, j \in 1..(n + 1) : i < j => t[i] < t[j]
  BY <1>1, <1>2, <1>3, <1>4, <1>5
<1>7. CASE n = Keep
  <2>1. kept'[a] = Tail(t)
    BY <1>1, <1>5, <1>7 DEF LastOf
  <2>2. /\ Len(kept'[a]) = n /\ DOMAIN kept'[a] = 1..n
        /\ \A i \in 1..n : kept'[a][i] = t[i + 1] /\ i + 1 \in 1..(n + 1) /\ 1 \in 1..(n + 1) /\ 1 < i + 1
    BY <1>1, <1>5, <2>1
  <2>3. OnlyLines(kept'[a]) /\ Increasing(kept'[a])
    BY <1>1, <1>6, <2>2 DEF OnlyLines, Increasing
  <2>4. 1 \in 1..n /\ t[1] = s[1]
    BY <1>1, <1>5, <1>7
  <2>5. \A i \in DOMAIN kept'[a] : s[1] < kept'[a][i]
    BY <1>6, <2>2, <2>4
  <2> QED BY <1>1, <1>2, <1>7, <2>2, <2>3, <2>5 DEF h, s, n
<1>8. CASE n < Keep
  <2>1. kept'[a] = t
    BY <1>1, <1>5, <1>8 DEF LastOf
  <2>2. OnlyLines(kept'[a]) /\ Increasing(kept'[a]) /\ Len(kept'[a]) <= Keep
    BY <1>1, <1>5, <1>6, <1>8, <2>1 DEF OnlyLines, Increasing
  <2> QED BY <1>2, <1>8, <2>2, <1>1 DEF h, s, n
<1> QED BY <1>1, <1>7, <1>8

LEMMA OneEnderSteps ==
  ASSUME TypeCorrect, QueueNewest, OneEnder, Next
  PROVE  OneEnder'
<1> USE DEF OneEnder
<1>1. enders \in Nat /\ enders' \in {enders, enders + 1}
  BY BeganSteps DEF TypeCorrect, TypeOK
<1>2. NobodyYet'
  <2> SUFFICES ASSUME enders' = 0 PROVE (\A a \in Actors : ~Began(a)') /\ OnlyLines(queue')
    BY DEF NobodyYet, OnlyLines
  <2>1. enders = 0 /\ \A a \in Actors : Began(a)' => Began(a)
    BY <1>1, BeganSteps
  <2>2. OnlyLines(queue')
    BY <2>1, QueueKeepsLines, PillsAreEnders DEF NobodyYet
  <2> QED BY <2>1, <2>2 DEF NobodyYet
<1>3. OneBegan'
  <2> SUFFICES ASSUME enders' <= 1, NEW a \in Actors, NEW b \in Actors, a # b, Began(a)', Began(b)'
               PROVE  FALSE
    BY DEF OneBegan
  <2>1. CASE enders' = enders /\ \A c \in Actors : Began(c)' => Began(c)
    BY <2>1 DEF OneBegan
  <2>2. CASE /\ enders' = enders + 1
             /\ \E c \in Actors : \A d \in Actors \ {c} : Began(d)' => Began(d)
    BY <1>1, <2>2 DEF NobodyYet
  <2> QED BY <2>1, <2>2, BeganSteps
<1>4. DrainsAlone'
  <2> SUFFICES ASSUME enders' <= 1, NEW a \in Actors, pc'[a] = "drain"
               PROVE  /\ OnlyLines(queue')
                      /\ OnlyLines(kept'[a]) /\ Increasing(kept'[a]) /\ Len(kept'[a]) <= Keep
    BY DEF DrainsAlone, OnlyLines, Increasing
  <2>1. CASE pc[a] = "drain"
    <3>1. Began(a) /\ enders = enders' /\ enders <= 1
      BY <1>1, <2>1 DEF Began, Draining, NobodyYet
    <3>2. \A b \in Actors : Began(b) => b = a
      BY <3>1 DEF OneBegan
    <3>3. /\ OnlyLines(queue)
          /\ OnlyLines(kept[a]) /\ Increasing(kept[a]) /\ Len(kept[a]) <= Keep
      BY <2>1, <3>1 DEF DrainsAlone
    <3>4. OnlyLines(queue')
      <4>1. ~\E b \in Actors : Began(b) /\ (Pill(b) \/ (b = Closer /\ LastPill))
        BY <2>1, <3>2 DEF Pill, LastPill
      <4> QED BY <3>3, <4>1, QueueKeepsLines, PillsAreEnders
    <3>5. CASE kept'[a] = kept[a]
      BY <3>3, <3>4, <3>5
    <3>6. CASE Drain(a)
      BY <3>3, <3>4, <3>6, DrainKeeps
    <3>7. kept'[a] = kept[a] \/ Drain(a)
      BY <2>1, <3>1, DrainingStays
    <3> QED BY <3>5, <3>6, <3>7
  <2>2. CASE pc[a] # "drain"
    <3>1. enders = 0 /\ UNCHANGED queue /\ kept'[a] = <<>>
      BY <2>2, <1>1, DrainBegins
    <3>2. OnlyLines(queue')
      BY <3>1 DEF NobodyYet
    <3> QED BY <3>1, <3>2, FileBackendAssumption DEF OnlyLines, Increasing
  <2> QED BY <2>1, <2>2
<1> QED BY <1>2, <1>3, <1>4

-----------------------------------------------------------------------------
(***************************************************************************)
(* FileBackend: the files in the order in which they are overwritten.      *)
(***************************************************************************)
\* While the consumer runs, the files are filled in turn, and each line is newer
\* than those in front of it.
FilesInTurn == cons # "ended" =>
    /\ Len(buffer) < MaxLines /\ OnlyLines(buffer) /\ Increasing(buffer)
    /\ \A k \in Files : /\ Turn(k) = <<>> \/ Len(Turn(k)) = MaxLines
                        /\ OnlyLines(Turn(k)) /\ Increasing(Turn(k))
    /\ \A k, j \in Files : k < j /\ Turn(k) # <<>> => Turn(j) # <<>>
    /\ \A k, j \in Files : k < j => \A x \in In(Turn(k)), y \in In(Turn(j)) : x < y
    /\ \A x \in OnDisk : \A y \in In(buffer) : x < y
    /\ hand # None => \A x \in OnDisk \cup In(buffer) : x < hand

\* Every file has its place in the order, and a rotation moves every place up.
Place(k) == IF index + k - 1 <= MaxFiles THEN index + k - 1 ELSE index + k - 1 - MaxFiles

LEMMA TurnPlace == \A k : Turn(k) = files[Place(k)]
<1> QED BY DEF Turn, Place

LEMMA PlaceIn ==
  ASSUME TypeOK
  PROVE  /\ \A k \in Files : Place(k) \in Files
         /\ \A i \in Files : \E k \in Files : Place(k) = i
         /\ Place(1) = index
         /\ \A j, k \in Files : Place(j) = Place(k) => j = k
<1>1. index \in Nat /\ index >= 1 /\ index <= MaxFiles /\ MaxFiles \in Nat \ {0}
  BY FileBackendAssumption DEF TypeOK, Files
<1>2. \A k \in Files : Place(k) \in Files
  BY <1>1 DEF Place, Files
<1>3. \A i \in Files : \E k \in Files : Place(k) = i
  <2> SUFFICES ASSUME NEW i \in Files PROVE \E k \in Files : Place(k) = i
    OBVIOUS
  <2>1. CASE i >= index
    <3>1. i - index + 1 \in Files /\ Place(i - index + 1) = i
      BY <1>1, <2>1 DEF Place, Files
    <3> QED BY <3>1
  <2>2. CASE i < index
    <3>1. i - index + 1 + MaxFiles \in Files /\ Place(i - index + 1 + MaxFiles) = i
      BY <1>1, <2>2 DEF Place, Files
    <3> QED BY <3>1
  <2> QED BY <1>1, <2>1, <2>2 DEF Files
<1>4. Place(1) = index
  BY <1>1 DEF Place
<1>5. \A j, k \in Files : Place(j) = Place(k) => j = k
  BY <1>1 DEF Place, Files
<1> QED BY <1>2, <1>3, <1>4, <1>5

LEMMA DiskTurns == TypeOK => \A x : x \in OnDisk <=> \E k \in Files : x \in In(Turn(k))
<1> QED BY PlaceIn, TurnPlace, DiskIff

LEMMA TurnTyped == TypeOK => \A k \in Files : Turn(k) \in Seq(Entries)
<1> QED BY PlaceIn, TurnPlace DEF TypeOK

LEMMA TurnRotated ==
  ASSUME TypeOK, NEW lines \in Seq(Entries), Rotated(lines)
  PROVE  /\ \A k \in Files : k < MaxFiles => Turn(k)' = Turn(k + 1)
         /\ Turn(MaxFiles)' = lines
<1>1. index \in Nat /\ index >= 1 /\ index <= MaxFiles /\ MaxFiles \in Nat \ {0}
  BY FileBackendAssumption DEF TypeOK, Files
<1>2. index' = IF index >= MaxFiles THEN 1 ELSE index + 1
  BY DEF Rotated, NextIndex
<1>3. \A k \in Files : k < MaxFiles => k + 1 \in Files /\ Place(k)' = Place(k + 1) /\ Place(k + 1) # index
  BY <1>1, <1>2 DEF Place, Files
<1>4. Place(MaxFiles)' = index
  BY <1>1, <1>2 DEF Place
<1>5. files'[index] = lines /\ \A i \in Files \ {index} : files'[i] = files[i]
  BY DEF Rotated, TypeOK
<1>6. \A k : Turn(k)' = files'[Place(k)']
  BY DEF Turn, Place
<1>7. ASSUME NEW k \in Files, k < MaxFiles PROVE Turn(k)' = Turn(k + 1)
  BY <1>3, <1>5, <1>6, <1>7, PlaceIn, TurnPlace
<1>8. Turn(MaxFiles)' = lines
  BY <1>4, <1>5, <1>6
<1> QED BY <1>7, <1>8

LEMMA TurnStays == UNCHANGED <<files, index>> => \A k : Turn(k)' = Turn(k)
<1> QED BY DEF Turn

LEMMA AppendInOrder ==
  ASSUME NEW s \in Seq(Entries), NEW e \in Lines, OnlyLines(s), Increasing(s), \A x \in In(s) : x < e
  PROVE  OnlyLines(Append(s, e)) /\ Increasing(Append(s, e))
<1> DEFINE t == Append(s, e)
           n == Len(s)
<1>1. /\ n \in Nat /\ DOMAIN s = 1..n /\ DOMAIN t = 1..(n + 1)
      /\ \A i \in 1..n : t[i] = s[i]
      /\ t[n + 1] = e
  BY DEF Entries
<1>2. e # None /\ e \in Nat
  BY DEF Lines, None
<1>3. \A i \in 1..n : s[i] # None /\ s[i] < e /\ s[i] \in Nat
  <2>1. \A i \in 1..n : s[i] # None /\ s[i] \in Entries
    BY <1>1 DEF OnlyLines
  <2>2. \A i \in 1..n : s[i] \in In(s)
    BY <1>1, <2>1, InIff
  <2> QED BY <2>1, <2>2 DEF Entries, Lines, None
<1>4. \A i, j \in 1..n : i < j => s[i] < s[j]
  BY <1>1 DEF Increasing
<1> HIDE DEF t, n
<1>5. OnlyLines(t)
  <2>1. \A i \in 1..(n + 1) : i \in 1..n \/ i = n + 1
    BY <1>1
  <2> QED BY <1>1, <1>2, <1>3, <2>1 DEF OnlyLines
<1>6. Increasing(t)
  <2> SUFFICES ASSUME NEW i \in 1..(n + 1), NEW j \in 1..(n + 1), i < j PROVE t[i] < t[j]
    BY <1>1 DEF Increasing
  <2>1. i \in 1..n /\ (j \in 1..n \/ j = n + 1)
    BY <1>1
  <2> QED BY <1>1, <1>3, <1>4, <2>1
<1> QED BY <1>5, <1>6 DEF t

LEMMA FilesInTurnSteps ==
  ASSUME TypeCorrect, QueueNewest, JoinedLast, FilesInTurn, Next
  PROVE  FilesInTurn'
<1>1. CASE UNCHANGED <<buffer, files, index, hand>> /\ (cons' # "ended" => cons # "ended")
  <2>1. In(buffer)' = In(buffer) /\ OnDisk' = OnDisk /\ \A k : Turn(k)' = Turn(k) /\ In(Turn(k))' = In(Turn(k))
    BY <1>1, TurnStays DEF In, OnDisk
  <2> QED BY <1>1, <2>1 DEF FilesInTurn, OnlyLines, Increasing
<1>2. ASSUME NEW w \in Writers, Write(w) \/ PutLine(w) \/ Cleanup(w) PROVE FilesInTurn'
  BY <1>1, <1>2 DEF Write, PutLine, Cleanup, disk
<1>3. ASSUME NEW a \in Actors, Drain(a) \/ Drained(a) \/ Pill(a) \/ Break(a) \/ Shut(a) PROVE FilesInTurn'
  BY <1>1, <1>3 DEF Drain, Drained, Pill, Break, Shut, disk
<1>4. ASSUME NEW a \in Actors, Joined(a) \/ WriteTail(a) \/ Clear(a) PROVE FilesInTurn'
  <2>1. cons = "ended" /\ cons' = "ended"
    BY <1>4 DEF Joined, WriteTail, Clear, JoinedLast, AfterJoin
  <2> QED BY <2>1 DEF FilesInTurn
<1>5. CASE Close \/ Wait \/ Mark \/ LastPill
  BY <1>1, <1>5 DEF Close, Wait, Mark, LastPill, disk
<1>6. CASE Loop
  BY <1>1, <1>6 DEF Loop, disk
<1>7. CASE Take
  <2>1. cons # "ended" /\ UNCHANGED <<buffer, files, index>> /\ queue # <<>>
    BY <1>7 DEF Take, disk
  <2>2. hand' # None => \A x \in OnDisk \cup In(buffer) : x < hand'
    <3>1. hand' # None => hand' = queue[1] /\ 1 \in DOMAIN queue
      BY <1>7 DEF Take, TypeCorrect, TypeOK, HandAt
    <3> QED BY <3>1 DEF QueueNewest, Out
  <2>3. In(buffer)' = In(buffer) /\ OnDisk' = OnDisk /\ \A k : Turn(k)' = Turn(k) /\ In(Turn(k))' = In(Turn(k))
    BY <2>1, TurnStays DEF In, OnDisk
  <2> QED BY <2>1, <2>2, <2>3 DEF FilesInTurn, OnlyLines, Increasing
<1>8. CASE AppendLine
  <2> DEFINE lines == Append(buffer, hand)
  <2>0. /\ buffer \in Seq(Entries) /\ hand \in Lines /\ MaxLines \in Nat \ {0} /\ Len(buffer) \in Nat
        /\ hand # None /\ TypeOK /\ cons # "ended"
    BY <1>8, FileBackendAssumption DEF AppendLine, TypeCorrect, TypeOK, HandAt, Entries
  <2>1. /\ lines \in Seq(Entries) /\ Len(lines) = Len(buffer) + 1
        /\ OnlyLines(lines) /\ Increasing(lines)
        /\ In(lines) = In(buffer) \cup {hand}
    BY <2>0, LinesTyped, InLines, AppendInOrder DEF FilesInTurn, TypeCorrect
  <2>2. \A x \in OnDisk : \A y \in In(lines) : x < y
    BY <2>0, <2>1 DEF FilesInTurn
  <2>3. hand' = None
    BY <1>8 DEF AppendLine, NewHandle
  <2>4. CASE Len(lines) < MaxLines /\ buffer' = lines /\ UNCHANGED <<files, index>>
    <3>1. In(buffer)' = In(lines) /\ OnDisk' = OnDisk /\ \A k : Turn(k)' = Turn(k) /\ In(Turn(k))' = In(Turn(k))
      BY <2>4, TurnStays DEF In, OnDisk
    <3> HIDE DEF lines
    <3> QED BY <2>0, <2>1, <2>2, <2>3, <2>4, <3>1 DEF FilesInTurn, OnlyLines, Increasing
  <2>5. CASE ~(Len(lines) < MaxLines) /\ Rotated(lines)
    <3>1. Len(lines) = MaxLines /\ lines # <<>>
      BY <2>0, <2>1, <2>5 DEF FilesInTurn
    <3> HIDE DEF lines
    <3>2. /\ \A k \in Files : k < MaxFiles => Turn(k)' = Turn(k + 1) /\ k + 1 \in Files
          /\ Turn(MaxFiles)' = lines
          /\ \A k \in Files : k < MaxFiles \/ k = MaxFiles
          /\ \A j, k \in Files : j < k => j < MaxFiles
      BY <2>0, <2>1, <2>5, TurnRotated, FileBackendAssumption DEF Files
    <3>3. \A k \in Files : \A x : x \in In(Turn(k))' <=> x \in In(Turn(k)')
      BY DEF In
    <3>4. \A k \in Files : In(Turn(k)) \subseteq OnDisk
      BY <2>0, DiskTurns
    <3>5. In(buffer)' = {} /\ Len(buffer') = 0 /\ OnlyLines(buffer') /\ Increasing(buffer')
      BY <2>5 DEF Rotated, In, OnlyLines, Increasing
    <3>6. \A k \in Files : /\ Turn(k)' = <<>> \/ Len(Turn(k)') = MaxLines
                           /\ OnlyLines(Turn(k)') /\ Increasing(Turn(k)')
      BY <2>0, <2>1, <3>1, <3>2 DEF FilesInTurn
    <3>7. \A k, j \in Files : k < j /\ Turn(k)' # <<>> => Turn(j)' # <<>>
      <4> SUFFICES ASSUME NEW k \in Files, NEW j \in Files, k < j, Turn(k)' # <<>>, j # MaxFiles
                   PROVE  Turn(j)' # <<>>
        BY <3>1, <3>2
      <4>1. k + 1 \in Files /\ j + 1 \in Files /\ k + 1 < j + 1 /\ Turn(k)' = Turn(k + 1) /\ Turn(j)' = Turn(j + 1)
        BY <3>2 DEF Files
      <4> QED BY <2>0, <4>1 DEF FilesInTurn
    <3>8. \A k, j \in Files : k < j => \A x \in In(Turn(k)'), y \in In(Turn(j)') : x < y
      <4> SUFFICES ASSUME NEW k \in Files, NEW j \in Files, k < j, NEW x \in In(Turn(k)'), NEW y \in In(Turn(j)')
                   PROVE  x < y
        OBVIOUS
      <4>1. k + 1 \in Files /\ Turn(k)' = Turn(k + 1)
        BY <3>2
      <4>2. CASE j = MaxFiles
        BY <2>2, <3>2, <3>4, <4>1, <4>2
      <4>3. CASE j < MaxFiles
        <5>1. j + 1 \in Files /\ k + 1 < j + 1 /\ Turn(j)' = Turn(j + 1)
          BY <3>2, <4>3 DEF Files
        <5> QED BY <2>0, <4>1, <5>1 DEF FilesInTurn
      <4> QED BY <3>2, <4>2, <4>3
    <3>9. (0 < MaxLines) /\ cons' # "ended"
      BY <2>0, <1>8 DEF AppendLine
    <3> QED BY <2>3, <3>3, <3>5, <3>6, <3>7, <3>8, <3>9 DEF FilesInTurn, OnlyLines, Increasing
  <2> QED BY <1>8, <2>4, <2>5 DEF AppendLine
<1>9. CASE AppendFails
  BY <1>9 DEF AppendFails, FilesInTurn
<1> QED BY <1>2, <1>3, <1>4, <1>5, <1>6, <1>7, <1>8, <1>9, Actions

-----------------------------------------------------------------------------
(***************************************************************************)
(* FileBackend: what is behind a line that is lost.                        *)
(***************************************************************************)
\* The last messages are written from the buffer that they have joined.
TailAt == Alone => \A a \in Actors :
    /\ pc[a] \in {"tail", "clear"} => In(buffer) \subseteq OnDisk \cup In(kept[a])
    /\ pc[a] = "clear" => kept[a] = <<>>

LEMMA TailAtSteps ==
  ASSUME TypeCorrect, JoinedLast, OneEnder, TailAt, Next
  PROVE  TailAt'
<1> SUFFICES ASSUME enders' <= 1, NEW a \in Actors, pc'[a] \in {"tail", "clear"}
             PROVE  /\ In(buffer)' \subseteq OnDisk' \cup In(kept[a])'
                    /\ pc'[a] = "clear" => kept'[a] = <<>>
  BY DEF TailAt, Alone
<1>1. CASE pc[a] \in {"tail", "clear"}
  <2>1. Began(a)
    BY <1>1 DEF Began, Draining
  <2>2. enders' = enders /\ enders <= 1 /\ cons = "ended"
    <3>1. enders \in Nat /\ enders' \in {enders, enders + 1}
      BY BeganSteps DEF TypeCorrect, TypeOK
    <3> QED BY <1>1, <2>1, <3>1 DEF OneEnder, NobodyYet, JoinedLast, AfterJoin
  <2>3. \A b \in Actors : Began(b) => b = a
    BY <2>1, <2>2 DEF OneEnder, OneBegan
  <2>4. /\ In(buffer) \subseteq OnDisk \cup In(kept[a])
        /\ pc[a] = "clear" => kept[a] = <<>>
    BY <1>1, <2>2 DEF TailAt, Alone
  <2>5. CASE StaysPut /\ (pc'[a] = "clear" => pc[a] = "clear")
    <3>1. In(buffer)' = In(buffer) /\ OnDisk' = OnDisk /\ In(kept[a])' = In(kept[a]) /\ kept' = kept
      BY <2>5 DEF StaysPut, In, OnDisk
    <3> QED BY <2>4, <2>5, <3>1
  <2>6. ASSUME NEW w \in Writers, Write(w) \/ PutLine(w) \/ Cleanup(w)
        PROVE  StaysPut /\ (pc'[a] = "clear" => pc[a] = "clear")
    <3>1. enders' = enders => StaysPut
      BY <2>6 DEF Write, PutLine, Cleanup, StaysPut, disk, TypeCorrect, TypeOK
    <3>2. pc'[a] = "clear" => pc[a] = "clear"
      BY <2>6 DEF Write, PutLine, Cleanup, PropagateTransient, SinkRaises, Goto, TypeCorrect, TypeOK
    <3> QED BY <2>2, <3>1, <3>2
  <2>7. CASE WriteTail(a)
    <3>1. CASE /\ kept[a] # <<>> /\ UNCHANGED <<pc, buffer>>
               /\ files' = [files EXCEPT ![handle.file] = Append(@, Head(kept[a]))]
               /\ kept' = [kept EXCEPT ![a] = Tail(@)]
      <4> DEFINE i == handle.file
                 h == Head(kept[a])
      <4>1. /\ i \in Files /\ files[i] \in Seq(Entries) /\ kept[a] \in Seq(Entries) /\ h \in Entries
            /\ kept'[a] = Tail(kept[a]) /\ files' = [files EXCEPT ![i] = Append(files[i], h)]
        BY <3>1, TailTyped DEF TypeCorrect, TypeOK
      <4>2. /\ In(kept[a]) = In(Tail(kept[a])) \cup ({h} \ {None})
            /\ In(Append(files[i], h)) = In(files[i]) \cup ({h} \ {None})
        BY <3>1, <4>1, InTail, InAppend
      <4>3. /\ \A x : x \in OnDisk' <=> x \in In(Append(files[i], h)) \/ \E j \in Files \ {i} : x \in In(files[j])
            /\ \A x : x \in OnDisk <=> x \in In(files[i]) \/ \E j \in Files \ {i} : x \in In(files[j])
        BY <4>1, DiskExcept, DiskIff DEF TypeCorrect
      <4>4. In(buffer)' = In(buffer) /\ In(kept[a])' = In(Tail(kept[a])) /\ pc[a] # "clear"
        <5>1. buffer' = buffer /\ kept[a]' = Tail(kept[a]) /\ pc[a] = "tail"
          BY <2>7, <3>1, <4>1 DEF WriteTail
        <5> QED BY <5>1 DEF In
      <4> HIDE DEF i, h
      <4> QED BY <2>4, <3>1, <4>2, <4>3, <4>4
    <3>2. CASE UNCHANGED <<files, kept>> /\ (pc'[a] = "clear" => kept[a] = <<>>)
      <4>1. In(buffer)' = In(buffer) /\ OnDisk' = OnDisk /\ In(kept[a])' = In(kept[a])
        BY <2>7, <3>2 DEF WriteTail, In, OnDisk
      <4> QED BY <2>4, <3>2, <4>1
    <3>3. Done(a) # "clear"
      BY DEF Done
    <3>4. pc \in [Actors -> WriterAt \cup CloserAt]
      BY DEF TypeCorrect, TypeOK
    <3> QED BY <2>7, <3>1, <3>2, <3>3, <3>4 DEF WriteTail, Goto
  <2>8. CASE Clear(a)
    <3>1. pc'[a] = "shut"
      BY <2>8 DEF Clear, Mutate
    <3> QED BY <3>1
  <2>9. ASSUME NEW b \in Actors, DrainOut(b) PROVE WriteTail(a) \/ Clear(a)
    <3>1. Began(b)
      BY <2>9 DEF Began, DrainOut, Drain, Drained, Pill, Joined, WriteTail, Break, Clear, Shut, Draining
    <3> QED BY <1>1, <2>3, <2>9, <3>1 DEF DrainOut, Drain, Drained, Pill, Joined, Break, Shut
  <2>10. CASE Close
    BY <2>2, <2>10 DEF Close, TypeCorrect, TypeOK
  <2>11. CASE Wait \/ Mark \/ LastPill
    <3>1. Began(Closer) /\ pc[Closer] \notin {"tail", "clear"} /\ Closer \in Actors
      BY <2>11 DEF Wait, Mark, LastPill, Began, Actors
    <3> QED BY <1>1, <2>3, <3>1
  <2>12. CASE Consume
    BY <2>2, <2>12 DEF Consume, Loop, Take, AppendLine, AppendFails
  <2> QED BY <2>5, <2>6, <2>7, <2>8, <2>9, <2>10, <2>11, <2>12 DEF Next, Writing, Closing, Actors
<1>2. CASE pc[a] \notin {"tail", "clear"}
  <2>1. Joined(a) /\ pc'[a] = "tail"
    <3> USE DEF TypeCorrect, TypeOK
    <3>1. ASSUME NEW w \in Writers, Write(w) \/ PutLine(w) \/ Cleanup(w) PROVE FALSE
      BY <1>2, <3>1 DEF Write, PutLine, Cleanup, PropagateTransient, SinkRaises, Goto
    <3>2. ASSUME NEW b \in Actors, \/ Drain(b) \/ Drained(b) \/ Pill(b)
                                   \/ Break(b) \/ Clear(b) \/ Shut(b)
          PROVE  FALSE
      BY <1>2, <3>2 DEF Drain, Drained, Pill, Break, Clear, Shut, Mutate, Goto, Done
    <3>3. ASSUME NEW b \in Actors, WriteTail(b) PROVE FALSE
      BY <1>2, <3>3 DEF WriteTail, Goto, Done
    <3>4. ASSUME NEW b \in Actors, Joined(b) PROVE Joined(a) /\ pc'[a] = "tail"
      <4>1. CASE Goto(b, "closed")
        BY <1>2, <4>1 DEF Goto
      <4>2. CASE Mutate(b, "tail", buffer \o kept[b])
        <5>1. a = b
          BY <1>2, <4>2 DEF Mutate
        <5> QED BY <3>4, <4>2, <5>1 DEF Mutate
      <4> QED BY <3>4, <4>1, <4>2 DEF Joined
    <3>5. CASE Close \/ Wait \/ Mark \/ LastPill
      BY <1>2, <3>5 DEF Close, Wait, Mark, LastPill, Goto
    <3>6. CASE Loop \/ Take \/ AppendLine \/ AppendFails
      BY <1>2, <3>6 DEF Loop, Take, AppendLine, AppendFails
    <3> QED BY <3>1, <3>2, <3>3, <3>4, <3>5, <3>6, Actions
  <2>2. kept'[a] = buffer'
    BY <1>2, <2>1 DEF Joined, Goto, TypeCorrect, TypeOK
  <2>3. In(buffer)' = In(kept[a])'
    BY <2>2 DEF In
  <2> QED BY <2>1, <2>3
<1> QED BY <1>1, <1>2

\* A lost line is older than files that are all full, or than a full deque.
Overwritten(l) == Turn(1) # <<>> /\ \A m \in OnDisk : l < m
Dropped(l) == \E a \in Actors :
    /\ Len(kept[a]) = Keep /\ Increasing(kept[a])
    /\ \A i \in DOMAIN kept[a] : l < kept[a][i]
Newer(l) == {m \in Out : m > l}
Outlived(l) == Cardinality(Newer(l)) >= Floor

LostAt == Alone => \A l \in Lost :
    IF cons = "ended" THEN Outlived(l) ELSE Overwritten(l) \/ Dropped(l)

LEMMA LostIff == \A x : x \in Lost <=> x \in 1..puts /\ x \notin Out /\ x \notin In(queue)
<1> QED BY DEF Lost, Accepted, Held, Out, KeptLines

LEMMA OutLines == TypeOK => Out \subseteq Lines
<1>1. ASSUME TypeOK PROVE Out \subseteq Lines
  <2>1. hand \in Entries /\ buffer \in Seq(Entries) /\ files \in [Files -> Seq(Entries)] /\ kept \in [Actors -> Seq(Entries)]
    BY <1>1 DEF TypeOK
  <2> QED BY <2>1, InEntries, KeptIff, DiskIff DEF Out, Entries
<1> QED BY <1>1

LEMMA NewerFinite ==
  ASSUME TypeOK, NEW l
  PROVE  IsFiniteSet(Newer(l)) /\ Cardinality(Newer(l)) \in Nat
<1>1. IsFiniteSet(Lines)
  BY FS_Interval, FileBackendAssumption DEF Lines
<1>2. Newer(l) \subseteq Lines
  BY OutLines DEF Newer
<1> QED BY <1>1, <1>2, FS_Subset, FS_CardinalityType

LEMMA FloorBounds ==
  /\ Floor \in Nat /\ Floor >= 1 /\ Floor <= Keep
  /\ MaxFiles * MaxLines \in Nat /\ Floor <= MaxFiles * MaxLines
<1>1. MaxFiles * MaxLines \in Nat /\ MaxFiles * MaxLines >= 1
  BY FileBackendAssumption
<1>2. Keep \in Nat /\ Keep >= 1
  BY FileBackendAssumption
<1> DEFINE n == MaxFiles * MaxLines
<1>3. Floor = IF Keep <= n THEN Keep ELSE n
  BY DEF Floor
<1> HIDE DEF n
<1> QED BY <1>1, <1>2, <1>3 DEF n

\* A set that holds all of an ordered sequence is as large as the sequence.
LEMMA SequenceInside ==
  ASSUME NEW s \in Seq(Nat), Increasing(s), NEW T, IsFiniteSet(T), \A i \in 1..Len(s) : s[i] \in T
  PROVE  Cardinality(T) >= Len(s)
<1> DEFINE n == Len(s)
           f == [i \in 1..n |-> s[i]]
<1>1. n \in Nat /\ DOMAIN s = 1..n /\ \A i \in 1..n : s[i] \in Nat
  OBVIOUS
<1> HIDE DEF n
<1>2. \A i, j \in 1..n : s[i] = s[j] => i = j
  BY <1>1 DEF Increasing
<1>3. f \in Injection(1..n, T)
  BY <1>2 DEF Injection, IsInjective, n
<1>4. IsFiniteSet(1..n) /\ Cardinality(1..n) = n
  BY <1>1, FS_Interval
<1>5. Cardinality(1..n) <= Cardinality(T)
  BY <1>3, FS_Injection
<1> QED BY <1>1, <1>4, <1>5, FS_CardinalityType DEF n

\* A set that holds every line of full files is as large as the rotation.
LEMMA FilesInside ==
  ASSUME NEW g \in [Files -> Seq(Nat)],
         \A k \in Files : Len(g[k]) = MaxLines /\ Increasing(g[k]),
         \A k, j \in Files : k < j => \A i, m \in 1..MaxLines : g[k][i] < g[j][m],
         NEW T, IsFiniteSet(T), \A k \in Files : \A i \in 1..MaxLines : g[k][i] \in T
  PROVE  Cardinality(T) >= MaxFiles * MaxLines
<1> DEFINE f == [p \in Files \X (1..MaxLines) |-> g[p[1]][p[2]]]
<1>1. \A k \in Files : DOMAIN g[k] = 1..MaxLines /\ \A i \in 1..MaxLines : g[k][i] \in Nat
  <2> SUFFICES ASSUME NEW k \in Files PROVE DOMAIN g[k] = 1..MaxLines /\ \A i \in 1..MaxLines : g[k][i] \in Nat
    OBVIOUS
  <2>1. g[k] \in Seq(Nat) /\ Len(g[k]) = MaxLines
    OBVIOUS
  <2> QED BY <2>1
<1>2. \A k, j \in Files : \A i, m \in 1..MaxLines : g[k][i] = g[j][m] => k = j /\ i = m
  <2> SUFFICES ASSUME NEW k \in Files, NEW j \in Files, NEW i \in 1..MaxLines, NEW m \in 1..MaxLines,
                      g[k][i] = g[j][m]
               PROVE  k = j /\ i = m
    OBVIOUS
  <2>1. g[k][i] \in Nat /\ g[j][m] \in Nat /\ k \in Nat /\ j \in Nat /\ i \in Nat /\ m \in Nat
    BY <1>1, FileBackendAssumption DEF Files
  <2>2. ~(k < j) /\ ~(j < k)
    BY <2>1
  <2>3. k = j
    BY <2>1, <2>2
  <2>4. ~(i < m) /\ ~(m < i)
    <3>1. DOMAIN g[k] = 1..MaxLines /\ Increasing(g[k]) /\ g[k][i] = g[k][m]
      BY <1>1, <2>3
    <3>2. \A x, y \in 1..MaxLines : x < y => g[k][x] < g[k][y]
      BY <3>1 DEF Increasing
    <3> QED BY <2>1, <3>1, <3>2
  <2> QED BY <2>1, <2>3, <2>4
<1>3. f \in Injection(Files \X (1..MaxLines), T)
  <2>1. f \in [Files \X (1..MaxLines) -> T]
    OBVIOUS
  <2>2. \A p, q \in Files \X (1..MaxLines) : f[p] = f[q] => p = q
    <3> SUFFICES ASSUME NEW p \in Files \X (1..MaxLines), NEW q \in Files \X (1..MaxLines), f[p] = f[q]
                 PROVE  p = q
      OBVIOUS
    <3>1. /\ p = <<p[1], p[2]>> /\ p[1] \in Files /\ p[2] \in 1..MaxLines
          /\ q = <<q[1], q[2]>> /\ q[1] \in Files /\ q[2] \in 1..MaxLines
          /\ g[p[1]][p[2]] = g[q[1]][q[2]]
      OBVIOUS
    <3>2. p[1] = q[1] /\ p[2] = q[2]
      BY <1>2, <3>1
    <3> QED BY <3>1, <3>2
  <2> QED BY <2>1, <2>2 DEF Injection, IsInjective
<1>4. /\ IsFiniteSet(Files) /\ Cardinality(Files) = MaxFiles
      /\ IsFiniteSet(1..MaxLines) /\ Cardinality(1..MaxLines) = MaxLines
  BY FS_Interval, FileBackendAssumption DEF Files
<1>5. Cardinality(Files \X (1..MaxLines)) = MaxFiles * MaxLines
  BY <1>4, FS_Product
<1>6. Cardinality(Files \X (1..MaxLines)) <= Cardinality(T)
  BY <1>3, FS_Injection
<1>7. Cardinality(T) \in Nat /\ MaxFiles * MaxLines \in Nat
  BY FS_CardinalityType, FloorBounds
<1> QED BY <1>5, <1>6, <1>7

LEMMA EntriesNat ==
  /\ Entries \subseteq Nat
  /\ \A s \in Seq(Entries) : /\ s \in Seq(Nat) /\ Len(s) \in Nat /\ DOMAIN s = 1..Len(s)
                            /\ \A i \in 1..Len(s) : s[i] \in Nat
<1>1. Entries \subseteq Nat
  BY FileBackendAssumption DEF Entries, Lines, None
<1>2. ASSUME NEW s \in Seq(Entries)
      PROVE  /\ s \in Seq(Nat) /\ Len(s) \in Nat /\ DOMAIN s = 1..Len(s)
             /\ \A i \in 1..Len(s) : s[i] \in Nat
  <2>1. Len(s) \in Nat /\ DOMAIN s = 1..Len(s) /\ \A i \in 1..Len(s) : s[i] \in Entries
    OBVIOUS
  <2>2. s \in Seq(Nat)
    BY <1>1, SeqMonotonic
  <2> QED BY <1>1, <2>1, <2>2
<1> QED BY <1>1, <1>2

LEMMA DequeOutlives ==
  ASSUME TypeOK, NEW l \in Nat, Dropped(l)
  PROVE  Outlived(l)
<1>1. PICK a \in Actors : /\ Len(kept[a]) = Keep /\ Increasing(kept[a])
                          /\ \A i \in DOMAIN kept[a] : l < kept[a][i]
  BY DEF Dropped
<1>2. /\ kept[a] \in Seq(Entries) /\ kept[a] \in Seq(Nat) /\ DOMAIN kept[a] = 1..Keep
      /\ \A i \in 1..Keep : kept[a][i] \in Nat
  <2>1. kept[a] \in Seq(Entries)
    BY DEF TypeOK
  <2> QED BY <1>1, <2>1, EntriesNat
<1>3. \A i \in 1..Keep : kept[a][i] \in Newer(l)
  <2>1. \A i \in 1..Keep : kept[a][i] # None /\ l < kept[a][i]
    BY <1>1, <1>2 DEF None
  <2>2. \A i \in 1..Keep : kept[a][i] \in KeptLines
    BY <1>2, <2>1, KeptIff, InIff
  <2> QED BY <1>2, <2>1, <2>2 DEF Out, Newer
<1>4. Cardinality(Newer(l)) >= Len(kept[a])
  BY <1>1, <1>2, <1>3, NewerFinite, SequenceInside
<1> QED BY <1>1, <1>4, FloorBounds, NewerFinite, FileBackendAssumption DEF Outlived

LEMMA DequesOutlive == TypeOK => \A l \in Nat : Dropped(l) => Outlived(l)
<1> QED BY DequeOutlives

LEMMA FilesOutlive ==
  ASSUME TypeOK, FilesInTurn, cons # "ended", NEW l \in Nat, Overwritten(l)
  PROVE  Outlived(l)
<1> DEFINE g == [k \in Files |-> Turn(k)]
<1>1. Entries \subseteq Nat /\ 1 \in Files /\ \A k \in Files : k = 1 \/ 1 < k
  BY FileBackendAssumption DEF Entries, Lines, None, Files
<1>2. \A k \in Files : Turn(k) # <<>>
  BY <1>1 DEF Overwritten, FilesInTurn
<1>3. \A k \in Files : /\ Turn(k) \in Seq(Entries) /\ Turn(k) \in Seq(Nat) /\ Len(Turn(k)) = MaxLines
                       /\ Increasing(Turn(k)) /\ OnlyLines(Turn(k))
  BY <1>1, <1>2, TurnTyped, EntriesNat DEF FilesInTurn
<1>4. \A k \in Files : \A i \in 1..MaxLines : Turn(k)[i] \in In(Turn(k)) /\ Turn(k)[i] \in OnDisk /\ Turn(k)[i] \in Nat
  <2> SUFFICES ASSUME NEW k \in Files, NEW i \in 1..MaxLines
               PROVE  Turn(k)[i] \in In(Turn(k)) /\ Turn(k)[i] \in OnDisk /\ Turn(k)[i] \in Nat
    OBVIOUS
  <2>1. i \in DOMAIN Turn(k) /\ Turn(k)[i] \in Nat
    BY <1>3
  <2>2. Turn(k)[i] # None
    BY <1>3, <2>1 DEF OnlyLines
  <2> QED BY <2>1, <2>2, InIff, DiskTurns
<1>5. \A k \in Files : \A i \in 1..MaxLines : Turn(k)[i] \in Newer(l)
  BY <1>4 DEF Overwritten, Newer, Out
<1>6. \A k, j \in Files : k < j => \A i, m \in 1..MaxLines : Turn(k)[i] < Turn(j)[m]
  BY <1>4 DEF FilesInTurn
<1>7. g \in [Files -> Seq(Nat)] /\ \A k \in Files : g[k] = Turn(k)
  BY <1>3
<1> HIDE DEF g
<1>8. /\ \A k \in Files : Len(g[k]) = MaxLines /\ Increasing(g[k])
      /\ \A k, j \in Files : k < j => \A i, m \in 1..MaxLines : g[k][i] < g[j][m]
      /\ \A k \in Files : \A i \in 1..MaxLines : g[k][i] \in Newer(l)
  BY <1>3, <1>5, <1>6, <1>7
<1>9. Cardinality(Newer(l)) >= MaxFiles * MaxLines
  BY <1>7, <1>8, NewerFinite, FilesInside
<1> QED BY <1>9, FloorBounds, NewerFinite DEF Outlived

\* A line of the file that is overwritten next, and one that is older than all
\* files, is older than what the rotation leaves.
LEMMA RotationNewer ==
  ASSUME TypeCorrect, FilesInTurn, cons = "append", NEW l \in Nat,
         l \in In(Turn(1)) \/ Overwritten(l)
  PROVE  /\ Turn(1) # <<>>
         /\ \A k \in Files : k # 1 => \A x \in In(Turn(k)) : l < x
         /\ \A x \in In(Append(buffer, hand)) : l < x
<1>1. /\ 1 \in Files /\ \A k \in Files : k # 1 => 1 < k
      /\ MaxLines \in Nat \ {0} /\ hand \in Lines /\ hand # None
      /\ In(Append(buffer, hand)) = In(buffer) \cup {hand}
      /\ TypeOK
  BY InLines, FileBackendAssumption DEF Files, TypeCorrect, TypeOK, HandAt, Entries
<1>2. Turn(1) # <<>>
  <2>1. l \in In(Turn(1)) => Turn(1) # <<>>
    BY InEmpty
  <2> QED BY <2>1 DEF Overwritten
<1>3. \E x \in In(Turn(1)) : l <= x /\ x \in Lines
  <2>1. Turn(1) \in Seq(Entries) /\ Len(Turn(1)) = MaxLines /\ OnlyLines(Turn(1))
    BY <1>1, <1>2, TurnTyped, EntriesNat DEF FilesInTurn
  <2>2. 1 \in DOMAIN Turn(1)
    BY <1>1, <2>1
  <2>3. Turn(1)[1] \in In(Turn(1))
    BY <2>1, <2>2, InIff DEF OnlyLines
  <2>4. In(Turn(1)) \subseteq Lines /\ In(Turn(1)) \subseteq OnDisk
    BY <1>1, <2>1, InEntries, DiskTurns
  <2>5. CASE l \in In(Turn(1))
    BY <2>4, <2>5
  <2>6. CASE Overwritten(l)
    BY <2>3, <2>4, <2>6 DEF Overwritten, Lines
  <2> QED BY <2>5, <2>6
<1>4. PICK x1 \in In(Turn(1)) : l <= x1 /\ x1 \in Lines
  BY <1>3
<1>5. x1 \in OnDisk
  BY <1>1, <1>4, DiskTurns
<1>6. \A y \in OnDisk \cup In(buffer) \cup {hand} : y \in Nat
  <2>1. OnDisk \cup In(buffer) \cup {hand} \subseteq Out
    BY <1>1 DEF Out
  <2> QED BY <1>1, <2>1, OutLines DEF Lines
<1>7. ASSUME NEW k \in Files, k # 1, NEW x \in In(Turn(k)) PROVE l < x
  <2>1. x1 < x /\ x \in OnDisk
    BY <1>1, <1>4, <1>7, DiskTurns DEF FilesInTurn
  <2> QED BY <1>4, <1>5, <1>6, <2>1
<1>8. ASSUME NEW x \in In(Append(buffer, hand)) PROVE l < x
  <2>1. x \in In(buffer) \/ x = hand
    BY <1>1
  <2>2. x1 < x
    BY <1>1, <1>5, <2>1 DEF FilesInTurn
  <2> QED BY <1>1, <1>4, <1>5, <1>6, <2>1, <2>2
<1> QED BY <1>2, <1>7, <1>8

\* Nothing is lost while the threads that end the runner, and the consumer,
\* leave the lines where they are.
LEMMA LostStays ==
  ASSUME TypeCorrect, Next, Out' = Out, QueueStays \/ QueuePill \/ QueueLine
  PROVE  Lost' \subseteq Lost
<1>1. queue \in Seq(Entries) /\ puts \in Nat
  BY FileBackendAssumption DEF TypeCorrect, TypeOK
<1>2. \A x : x \in Lost' <=> x \in 1..puts' /\ x \notin Out' /\ x \notin In(queue')
  BY DEF Lost, Accepted, Held, Out, KeptLines, In
<1>3. CASE QueueStays
  BY <1>2, <1>3, LostIff DEF QueueStays
<1>4. CASE QueuePill
  <2>1. In(queue') = In(queue) /\ puts' = puts
    BY <1>1, <1>4, InAppend DEF QueuePill, Entries
  <2> QED BY <1>2, <2>1, LostIff
<1>5. CASE QueueLine
  <2>1. queue' = Append(queue, puts + 1) /\ puts' = puts + 1 /\ puts + 1 \in Entries /\ puts + 1 # None
    <3>1. puts' \in 0..MaxPuts
      BY TypeSteps DEF TypeCorrect, TypeOK
    <3> QED BY <1>1, <1>5, <3>1, FileBackendAssumption DEF QueueLine, Entries, Lines, None
  <2>2. In(queue') = In(queue) \cup {puts + 1}
    BY <1>1, <2>1, InAppend
  <2>3. \A x \in 1..(puts + 1) : x \in 1..puts \/ x = puts + 1
    BY <1>1
  <2> QED BY <1>2, <2>1, <2>2, <2>3, LostIff
<1> QED BY <1>3, <1>4, <1>5

LEMMA LostPops ==
  ASSUME TypeCorrect, queue # <<>>, queue' = Tail(queue), puts' = puts,
         NEW S, Out \cup ({Head(queue)} \ {None}) \subseteq Out' \cup S
  PROVE  Lost' \subseteq Lost \cup S
<1>1. queue \in Seq(Entries)
  BY DEF TypeCorrect, TypeOK
<1>2. \A x : x \in Lost' <=> x \in 1..puts' /\ x \notin Out' /\ x \notin In(queue')
  BY DEF Lost, Accepted, Held, Out, KeptLines, In
<1>3. In(queue) = In(queue') \cup ({Head(queue)} \ {None})
  BY <1>1, InTail
<1> QED BY <1>2, <1>3, LostIff

LEMMA LostConsumed ==
  ASSUME TypeCorrect, UNCHANGED <<queue, puts>>, NEW S, Out \subseteq Out' \cup S
  PROVE  Lost' \subseteq Lost \cup S
<1>2. \A x : x \in Lost' <=> x \in 1..puts' /\ x \notin Out' /\ x \notin In(queue')
  BY DEF Lost, Accepted, Held, Out, KeptLines, In
<1> QED BY <1>2, LostIff

LEMMA PrimedFinite ==
  ASSUME TypeCorrect', NEW l
  PROVE  IsFiniteSet(Newer(l)') /\ Cardinality(Newer(l)') \in Nat
<1>1. (TypeOK => Out \subseteq Lines)'
  BY OutLines, PTL
<1>2. Out' \subseteq Lines
  BY <1>1 DEF TypeCorrect, Lines
<1>3. IsFiniteSet(Lines)
  BY FS_Interval, FileBackendAssumption DEF Lines
<1>4. Newer(l)' \subseteq Lines
  BY <1>2 DEF Newer
<1> QED BY <1>3, <1>4, FS_Subset, FS_CardinalityType

\* What is behind a line stays behind it.
LEMMA OutlivedGrows ==
  ASSUME TypeCorrect, TypeCorrect', NEW l, Out \subseteq Out', Outlived(l)
  PROVE  Outlived(l)'
<1>1. Newer(l) \subseteq Newer(l)' /\ IsFiniteSet(Newer(l)')
  BY PrimedFinite DEF Newer
<1> QED BY <1>1, FS_Subset, FloorBounds, FS_CardinalityType DEF Outlived

\* A full deque that drops a line keeps as much behind another one: it drops an
\* older line for a newer one.
LEMMA OutlivedDrain ==
  ASSUME TypeCorrect, TypeCorrect', NEW l \in Nat, NEW k0, NEW h, h \in Out', h \notin Out, h > l,
         Out \subseteq Out' \cup {k0}, Outlived(l)
  PROVE  Outlived(l)'
<1> DEFINE S == Newer(l)
           T == (S \ {k0}) \cup {h}
<1>1. IsFiniteSet(S) /\ Cardinality(S) \in Nat /\ h \notin S
  BY NewerFinite DEF TypeCorrect, Newer
<1>2. IsFiniteSet(Newer(l)')
  BY PrimedFinite
<1>3. T \subseteq Newer(l)'
  BY DEF Newer
<1> HIDE DEF S
<1>4. IsFiniteSet(S \ {k0}) /\ Cardinality(S \ {k0}) >= Cardinality(S) - 1 /\ h \notin S \ {k0}
  <2>1. /\ IsFiniteSet(S \ {k0})
        /\ Cardinality(S \ {k0}) = IF k0 \in S THEN Cardinality(S) - 1 ELSE Cardinality(S)
    BY <1>1, FS_RemoveElement
  <2> QED BY <1>1, <2>1
<1>5. Cardinality(T) >= Cardinality(S)
  <2>1. Cardinality(T) = Cardinality(S \ {k0}) + 1
    BY <1>4, FS_AddElement
  <2> QED BY <1>1, <1>4, <2>1, FS_CardinalityType
<1>6. Cardinality(T) <= Cardinality(Newer(l)') /\ Cardinality(Newer(l)') \in Nat
  BY <1>2, <1>3, FS_Subset, FS_CardinalityType
<1>7. IsFiniteSet(T) /\ Cardinality(T) \in Nat
  BY <1>2, <1>3, FS_Subset, FS_CardinalityType
<1> HIDE DEF T
<1>8. Cardinality(S) >= Floor
  BY DEF S, Outlived
<1> QED BY <1>1, <1>5, <1>6, <1>7, <1>8, FloorBounds DEF Outlived

LEMMA LostAtDrain ==
  ASSUME TypeCorrect, TypeCorrect', QueueNewest, OneEnder, LostAt, NEW a \in Actors, Drain(a), enders <= 1
  PROVE  \A l \in Lost' :
            IF cons' = "ended" THEN Outlived(l)' ELSE Overwritten(l)' \/ Dropped(l)'
<1>0. PICK h, k0 : h = Head(queue) /\ k0 = kept[a][1]
  OBVIOUS
<1>1. /\ queue # <<>> /\ queue' = Tail(queue) /\ UNCHANGED <<puts, files, index, cons, buffer, hand>>
      /\ \A b \in Actors \ {a} : kept'[b] = kept[b]
      /\ kept[a] \in Seq(Entries) /\ kept'[a] \in Seq(Entries)
      /\ h = queue[1] /\ 1 \in DOMAIN queue
  BY <1>0 DEF Drain, disk, TypeCorrect, TypeOK
<1>2. /\ OnlyLines(queue)
      /\ OnlyLines(kept[a]) /\ Increasing(kept[a]) /\ Len(kept[a]) <= Keep
  BY DEF OneEnder, DrainsAlone, Drain
<1>3. /\ OnlyLines(kept'[a]) /\ Increasing(kept'[a]) /\ Len(kept'[a]) <= Keep
      /\ Len(kept[a]) = Keep =>
              /\ Len(kept'[a]) = Keep
              /\ \A i \in DOMAIN kept'[a] : k0 < kept'[a][i]
      /\ h # None
  BY <1>0, <1>2, DrainKeeps
<1>4. Keep \in Nat \ {0} /\ Len(kept[a]) \in Nat
  BY <1>1, FileBackendAssumption
<1>5. OnDisk' = OnDisk /\ Turn(1)' = Turn(1)
  BY <1>1 DEF OnDisk, In, Turn
<1>6. \A m \in Out : m < h
  BY <1>1, <1>3 DEF QueueNewest
<1>7. \A l \in Lost : l \in Nat
  BY LostIff
<1>8. CASE Len(kept[a]) < Keep
  <2>1. Out' = Out \cup ({h} \ {None})
    BY <1>0, <1>8, OutDrain
  <2>2. Lost' \subseteq Lost
    BY <1>0, <1>1, <2>1, LostPops
  <2> SUFFICES ASSUME NEW l \in Lost
               PROVE  IF cons' = "ended" THEN Outlived(l)' ELSE Overwritten(l)' \/ Dropped(l)'
    BY <2>2
  <2>3. CASE cons = "ended"
    <3>1. Outlived(l)
      BY <2>3 DEF LostAt, Alone
    <3> QED BY <1>1, <2>1, <2>3, <3>1, OutlivedGrows
  <2>4. CASE cons # "ended"
    <3>1. Overwritten(l) \/ Dropped(l)
      BY <2>4 DEF LostAt, Alone
    <3>2. Overwritten(l) => Overwritten(l)'
      BY <1>5 DEF Overwritten
    <3>3. Dropped(l) => Dropped(l)'
      <4> SUFFICES ASSUME NEW b \in Actors, Len(kept[b]) = Keep, Increasing(kept[b]),
                          \A i \in DOMAIN kept[b] : l < kept[b][i]
                   PROVE  Dropped(l)'
        BY DEF Dropped
      <4>1. b # a
        BY <1>4, <1>8
      <4>2. kept'[b] = kept[b]
        BY <1>1, <4>1
      <4> QED BY <4>2 DEF Dropped, Increasing
    <3> QED BY <1>1, <2>4, <3>1, <3>2, <3>3
  <2> QED BY <2>3, <2>4
<1>9. CASE Len(kept[a]) = Keep
  <2>1. /\ 1 \in DOMAIN kept[a] /\ kept[a] # <<>> /\ Head(kept[a]) = k0
        /\ k0 # None /\ k0 \in Nat
    <3>1. 1 \in DOMAIN kept[a] /\ kept[a] # <<>> /\ Head(kept[a]) = k0
      BY <1>0, <1>1, <1>4, <1>9
    <3>2. k0 # None /\ k0 \in Nat
      BY <1>1, <1>2, <3>1, EntriesNat DEF OnlyLines
    <3> QED BY <3>1, <3>2
  <2>2. Out \cup ({h} \ {None}) \subseteq Out' \cup {k0}
    BY <1>0, <2>1, OutDrain
  <2>3. Lost' \subseteq Lost \cup {k0}
    BY <1>0, <1>1, <2>2, LostPops
  <2>4. k0 \in Out /\ k0 < h /\ h \in Out' /\ h \notin Out
    <3>1. k0 \in KeptLines
      BY <1>0, <2>1, KeptIff, InIff
    <3>2. k0 \in Out
      BY <3>1 DEF Out
    <3>3. h \in Nat
      BY <1>1, EntriesNat DEF TypeCorrect, TypeOK
    <3>4. k0 < h /\ h \notin Out
      BY <1>6, <3>2, <3>3
    <3> QED BY <1>3, <2>1, <2>2, <3>2, <3>3, <3>4
  <2>5. Dropped(k0)'
    <3>1. Len(kept'[a]) = Keep /\ Increasing(kept'[a]) /\ \A i \in DOMAIN kept'[a] : k0 < kept'[a][i]
      BY <1>3, <1>9
    <3> QED BY <3>1 DEF Dropped, Increasing
  <2>6. CASE cons = "ended"
    <3>1. Outlived(k0)'
      <4>1. (TypeOK => \A l \in Nat : Dropped(l) => Outlived(l))'
        BY DequesOutlive, PTL
      <4> QED BY <2>1, <2>5, <4>1 DEF TypeCorrect
    <3>2. ASSUME NEW l \in Lost PROVE Outlived(l)'
      <4>1. Outlived(l) /\ l \in Nat
        BY <1>7, <2>6 DEF LostAt, Alone
      <4>2. \E m \in Out : m > l
        <5>1. Newer(l) # {}
          BY <4>1, FS_EmptySet, FloorBounds, NewerFinite DEF Outlived, TypeCorrect
        <5> QED BY <5>1 DEF Newer
      <4>3. h > l
        <5>1. h \in Nat /\ Out \subseteq Nat
          BY <1>1, EntriesNat, OutLines DEF TypeCorrect, TypeOK, Lines
        <5> QED BY <1>6, <4>1, <4>2, <5>1
      <4> QED BY <2>2, <2>4, <4>1, <4>3, OutlivedDrain
    <3> QED BY <1>1, <2>3, <2>6, <3>1, <3>2
  <2>7. CASE cons # "ended"
    <3>1. ASSUME NEW l \in Lost PROVE Overwritten(l)' \/ Dropped(l)'
      <4>1. Overwritten(l) \/ Dropped(l)
        BY <2>7 DEF LostAt, Alone
      <4>2. Overwritten(l) => Overwritten(l)'
        BY <1>5 DEF Overwritten
      <4>3. ASSUME NEW b \in Actors, Len(kept[b]) = Keep, Increasing(kept[b]),
                   \A i \in DOMAIN kept[b] : l < kept[b][i]
            PROVE  Dropped(l)'
        <5>1. CASE b # a
          <6>1. kept'[b] = kept[b]
            BY <1>1, <5>1
          <6> QED BY <4>3, <6>1 DEF Dropped, Increasing
        <5>2. CASE b = a
          <6>1. l < k0 /\ l \in Nat
            BY <1>7, <2>1, <4>3, <5>2
          <6>2. Len(kept'[a]) = Keep /\ Increasing(kept'[a]) /\ \A i \in DOMAIN kept'[a] : k0 < kept'[a][i]
            BY <1>3, <1>9
          <6>3. \A i \in DOMAIN kept'[a] : kept'[a][i] \in Nat
            BY <1>1, EntriesNat
          <6>4. \A i \in DOMAIN kept'[a] : l < kept'[a][i]
            BY <2>1, <6>1, <6>2, <6>3
          <6> QED BY <6>2, <6>4 DEF Dropped, Increasing
        <5> QED BY <5>1, <5>2
      <4> QED BY <4>1, <4>2, <4>3 DEF Dropped
    <3> QED BY <1>1, <2>3, <2>5, <2>7, <3>1
  <2> QED BY <2>6, <2>7
<1> QED BY <1>2, <1>4, <1>8, <1>9

\* A step that leaves the lines where they are.
LEMMA LostAtStays ==
  ASSUME TypeCorrect, TypeCorrect', FilesInTurn, LostAt, Next, StaysPut, enders <= 1,
         QueueStays \/ QueuePill \/ QueueLine, cons = "ended" => cons' = "ended"
  PROVE  \A l \in Lost' :
            IF cons' = "ended" THEN Outlived(l)' ELSE Overwritten(l)' \/ Dropped(l)'
<1>1. Out' = Out /\ OnDisk' = OnDisk
  BY OutStays
<1>2. Lost' \subseteq Lost
  BY <1>1, LostStays
<1> SUFFICES ASSUME NEW l \in Lost
             PROVE  IF cons' = "ended" THEN Outlived(l)' ELSE Overwritten(l)' \/ Dropped(l)'
  BY <1>2
<1>3. l \in Nat
  BY LostIff
<1>4. CASE cons' # "ended"
  <2>1. Overwritten(l) \/ Dropped(l)
    BY <1>4 DEF LostAt, Alone
  <2>2. Overwritten(l) => Overwritten(l)'
    BY <1>1 DEF Overwritten, Turn, StaysPut
  <2>3. Dropped(l) => Dropped(l)'
    BY DEF Dropped, Increasing, StaysPut
  <2> QED BY <1>4, <2>1, <2>2, <2>3
<1>5. CASE cons' = "ended"
  <2>1. Outlived(l)
    <3>1. CASE cons = "ended"
      BY <3>1 DEF LostAt, Alone
    <3>2. CASE cons # "ended"
      BY <1>3, <3>2, FilesOutlive, DequeOutlives DEF LostAt, Alone, TypeCorrect
    <3> QED BY <3>1, <3>2
  <2> QED BY <1>1, <1>5, <2>1, OutlivedGrows
<1> QED BY <1>4, <1>5

LEMMA LostAtTake ==
  ASSUME TypeCorrect, TypeCorrect', FilesInTurn, LostAt, Take, enders <= 1
  PROVE  \A l \in Lost' :
            IF cons' = "ended" THEN Outlived(l)' ELSE Overwritten(l)' \/ Dropped(l)'
<1>1. /\ Out' = Out \cup ({Head(queue)} \ {None}) /\ OnDisk' = OnDisk
      /\ queue # <<>> /\ queue' = Tail(queue) /\ cons # "ended"
      /\ UNCHANGED <<puts, files, index, kept>>
  BY OutTake DEF Take, disk
<1>2. Lost' \subseteq Lost
  BY <1>1, LostPops
<1> SUFFICES ASSUME NEW l \in Lost
             PROVE  IF cons' = "ended" THEN Outlived(l)' ELSE Overwritten(l)' \/ Dropped(l)'
  BY <1>2
<1>3. l \in Nat /\ (Overwritten(l) \/ Dropped(l))
  BY <1>1, LostIff DEF LostAt, Alone
<1>4. Overwritten(l) => Overwritten(l)'
  BY <1>1 DEF Overwritten, Turn
<1>5. Dropped(l) => Dropped(l)'
  BY <1>1 DEF Dropped, Increasing
<1>6. Outlived(l)'
  <2>1. Outlived(l)
    BY <1>1, <1>3, FilesOutlive, DequeOutlives DEF TypeCorrect
  <2> QED BY <1>1, <2>1, OutlivedGrows
<1> QED BY <1>3, <1>4, <1>5, <1>6

LEMMA LostAtAppendLine ==
  ASSUME TypeCorrect, TypeCorrect', FilesInTurn, LostAt, AppendLine, enders <= 1
  PROVE  \A l \in Lost' :
            IF cons' = "ended" THEN Outlived(l)' ELSE Overwritten(l)' \/ Dropped(l)'
<1>1. /\ cons = "append" /\ cons' = "top" /\ UNCHANGED <<queue, puts, kept>> /\ hand' = None
  BY DEF AppendLine
<1>2. \A l \in Lost : l \in Nat /\ (Overwritten(l) \/ Dropped(l))
  BY <1>1, LostIff DEF LostAt, Alone
<1>3. \A l : Dropped(l) => Dropped(l)'
  BY <1>1 DEF Dropped, Increasing
<1>4. CASE buffer' = Append(buffer, hand) /\ UNCHANGED <<files, index>>
  <2>1. Out' = Out /\ OnDisk' = OnDisk
    BY <1>1, <1>4, OutBuffered
  <2>2. Lost' \subseteq Lost
    BY <1>1, <2>1, LostConsumed
  <2>3. \A l : Overwritten(l) => Overwritten(l)'
    BY <1>4, <2>1 DEF Overwritten, Turn
  <2> QED BY <1>1, <1>2, <1>3, <2>2, <2>3
<1>5. CASE Rotated(Append(buffer, hand))
  <2> DEFINE lines == Append(buffer, hand)
  <2>1. /\ TypeOK /\ lines \in Seq(Entries) /\ lines # <<>> /\ 1 \in Files /\ Turn(1) = files[index]
        /\ MaxFiles \in Files
    <3>1. TypeOK /\ 1 \in Files /\ MaxFiles \in Files
      BY FileBackendAssumption DEF TypeCorrect, Files
    <3>2. lines \in Seq(Entries) /\ Len(lines) = Len(buffer) + 1 /\ Len(buffer) \in Nat
      BY <3>1, LinesTyped DEF TypeOK
    <3>3. lines # <<>>
      BY <3>2
    <3> QED BY <3>1, <3>2, <3>3, PlaceIn, TurnPlace
  <2>2. /\ \A k \in Files : k < MaxFiles => Turn(k)' = Turn(k + 1)
        /\ Turn(MaxFiles)' = lines
    BY <1>5, <2>1, TurnRotated
  <2>3. Lost' \subseteq Lost \cup In(Turn(1))
    BY <1>1, <2>1, OutAppendLine, LostConsumed
  <2>4. \A x : x \in OnDisk' => x \in In(lines) \/ \E k \in Files : k # 1 /\ x \in In(Turn(k))
    <3>1. files' = [files EXCEPT ![index] = lines] /\ index \in Files
      BY <1>5, <2>1 DEF Rotated, TypeOK
    <3>2. \A x : x \in OnDisk' <=> x \in In(lines) \/ \E j \in Files \ {index} : x \in In(files[j])
      BY <2>1, <3>1, DiskExcept
    <3>3. \A j \in Files \ {index} : \E k \in Files : k # 1 /\ files[j] = Turn(k)
      BY <2>1, PlaceIn, TurnPlace
    <3> QED BY <3>2, <3>3
  <2> SUFFICES ASSUME NEW l \in Lost \cup In(Turn(1)) PROVE Overwritten(l)' \/ Dropped(l)'
    BY <1>1, <2>3
  <2>5. CASE l \in In(Turn(1)) \/ Overwritten(l)
    <3>1. l \in Nat
      BY <1>2, <2>1, TurnTyped, InEntries DEF Lines
    <3>2. /\ Turn(1) # <<>>
          /\ \A k \in Files : k # 1 => \A x \in In(Turn(k)) : l < x
          /\ \A x \in In(lines) : l < x
      BY <1>1, <2>5, <3>1, RotationNewer
    <3>3. \A m \in OnDisk' : l < m
      BY <2>4, <3>2
    <3>4. Turn(1)' # <<>>
      <4>1. CASE MaxFiles = 1
        BY <2>1, <2>2, <4>1
      <4>2. CASE 1 < MaxFiles
        <5>1. 2 \in Files /\ Turn(1)' = Turn(2) /\ 1 < 2
          BY <2>1, <2>2, <4>2 DEF Files
        <5> QED BY <1>1, <2>1, <3>2, <5>1 DEF FilesInTurn
      <4> QED BY <4>1, <4>2, FileBackendAssumption
    <3> QED BY <3>3, <3>4 DEF Overwritten
  <2> QED BY <1>2, <1>3, <2>5
<1> QED BY <1>4, <1>5 DEF AppendLine

\* A failed rotation may tear the oldest file; the files behind it and the
\* buffer, which is full, are all newer.
LEMMA LostAtAppendFails ==
  ASSUME TypeCorrect, TypeCorrect', FilesInTurn, LostAt, AppendFails, enders <= 1
  PROVE  \A l \in Lost' :
            IF cons' = "ended" THEN Outlived(l)' ELSE Overwritten(l)' \/ Dropped(l)'
<1> DEFINE lines == Append(buffer, hand)
           g == [k \in Files |-> IF k < MaxFiles THEN Turn(k + 1) ELSE lines]
<1>1. /\ cons = "append" /\ cons' = "ended" /\ UNCHANGED <<queue, puts, kept>>
      /\ buffer' = lines
      /\ \A j \in Files \ {index} : files'[j] = files[j]
      /\ Len(lines) >= MaxLines
  BY DEF AppendFails, TypeCorrect, TypeOK
<1>2. /\ TypeOK /\ lines \in Seq(Entries) /\ Len(lines) = Len(buffer) + 1
      /\ 1 \in Files /\ Turn(1) = files[index] /\ MaxFiles \in Files
      /\ MaxFiles \in Nat /\ MaxLines \in Nat /\ Len(buffer) \in Nat
      /\ \A k \in Files : k < MaxFiles => k + 1 \in Files /\ k + 1 # 1 /\ 1 < k + 1
      /\ \A k \in Files : k < MaxFiles \/ k = MaxFiles
      /\ hand \in Lines
      /\ In(lines) = In(buffer) \cup {hand}
  <2>1. TypeOK /\ 1 \in Files /\ MaxFiles \in Files /\ MaxFiles \in Nat /\ MaxLines \in Nat
    BY FileBackendAssumption DEF TypeCorrect, Files
  <2>2. /\ \A k \in Files : k < MaxFiles => k + 1 \in Files /\ k + 1 # 1 /\ 1 < k + 1
        /\ \A k \in Files : k < MaxFiles \/ k = MaxFiles
    BY <2>1 DEF Files
  <2>3. hand \in Lines /\ hand # None /\ Len(buffer) \in Nat
    BY <1>1 DEF TypeCorrect, TypeOK, HandAt, Entries
  <2>4. Turn(1) = files[index]
    BY <2>1, PlaceIn, TurnPlace
  <2> QED BY <2>1, <2>2, <2>3, <2>4, LinesTyped, InLines
<1>3. /\ Len(lines) = MaxLines /\ OnlyLines(lines) /\ Increasing(lines)
      /\ \A x \in OnDisk : \A y \in In(lines) : x < y
  <2>1. Len(lines) = MaxLines
    BY <1>1, <1>2 DEF FilesInTurn
  <2>2. OnlyLines(buffer) /\ Increasing(buffer) /\ buffer \in Seq(Entries) /\ \A x \in In(buffer) : x < hand
    BY <1>1, <1>2 DEF FilesInTurn, TypeOK, Lines, None
  <2>3. OnlyLines(lines) /\ Increasing(lines)
    BY <1>2, <2>2, AppendInOrder
  <2>4. \A x \in OnDisk : \A y \in In(lines) : x < y
    BY <1>1, <1>2 DEF FilesInTurn, Lines, None
  <2> QED BY <2>1, <2>3, <2>4
<1>4. /\ In(lines) \subseteq Out'
      /\ \A k \in Files : k # 1 => In(Turn(k)) \subseteq Out'
      /\ Out \subseteq Out' \cup In(Turn(1))
  <2>1. In(lines) \subseteq Out'
    BY <1>1 DEF Out, In
  <2>2. \A j \in Files \ {index} : In(files[j]) \subseteq OnDisk'
    BY <1>1 DEF OnDisk, In
  <2>3. \A k \in Files : k # 1 => \E j \in Files \ {index} : Turn(k) = files[j]
    BY <1>2, PlaceIn, TurnPlace
  <2>4. OnDisk' \subseteq Out'
    BY DEF Out
  <2> QED BY <1>2, <2>1, <2>2, <2>3, <2>4, OutAppendFails
<1>5. Lost' \subseteq Lost \cup In(Turn(1))
  BY <1>1, <1>4, LostConsumed
<1>6. \A l \in Lost : l \in Nat /\ (Overwritten(l) \/ Dropped(l))
  BY <1>1, LostIff DEF LostAt, Alone
<1>9. (TypeOK => \A l \in Nat : Dropped(l) => Outlived(l))'
  BY DequesOutlive, PTL
<1> HIDE DEF lines
<1> SUFFICES ASSUME NEW l \in Lost \cup In(Turn(1)) PROVE Outlived(l)'
  BY <1>1, <1>5
<1>7. CASE l \in In(Turn(1)) \/ Overwritten(l)
  <2>1. l \in Nat
    BY <1>2, <1>6, TurnTyped, InEntries DEF Lines
  <2>2. /\ Turn(1) # <<>>
        /\ \A k \in Files : k # 1 => \A x \in In(Turn(k)) : l < x
        /\ \A x \in In(lines) : l < x
    BY <1>1, <1>7, <2>1, RotationNewer DEF lines
  <2>3. \A k \in Files : /\ g[k] \in Seq(Entries) /\ Len(g[k]) = MaxLines /\ OnlyLines(g[k]) /\ Increasing(g[k])
                         /\ \A x \in In(g[k]) : l < x /\ x \in Out'
    <3> SUFFICES ASSUME NEW k \in Files
                 PROVE  /\ g[k] \in Seq(Entries) /\ Len(g[k]) = MaxLines /\ OnlyLines(g[k]) /\ Increasing(g[k])
                        /\ \A x \in In(g[k]) : l < x /\ x \in Out'
      OBVIOUS
    <3>1. CASE k < MaxFiles
      <4>1. g[k] = Turn(k + 1) /\ k + 1 \in Files /\ k + 1 # 1 /\ Turn(k + 1) # <<>>
        BY <1>1, <1>2, <2>2, <3>1 DEF FilesInTurn
      <4> HIDE DEF g
      <4> QED BY <1>1, <1>2, <1>4, <2>2, <4>1, TurnTyped DEF FilesInTurn
    <3>2. CASE k = MaxFiles
      <4>1. g[k] = lines
        BY <1>2, <3>2
      <4> HIDE DEF g
      <4> QED BY <1>2, <1>3, <1>4, <2>2, <4>1
    <3> QED BY <1>2, <3>1, <3>2
  <2>4. \A k \in Files : \A i \in 1..MaxLines : g[k][i] \in In(g[k])
    <3> HIDE DEF g
    <3> SUFFICES ASSUME NEW k \in Files, NEW i \in 1..MaxLines PROVE g[k][i] \in In(g[k])
      OBVIOUS
    <3>1. i \in DOMAIN g[k] /\ g[k][i] # None
      BY <2>3, EntriesNat DEF OnlyLines
    <3> QED BY <3>1, InIff
  <2>5. \A k, j \in Files : k < j => \A i, m \in 1..MaxLines : g[k][i] < g[j][m]
    <3> SUFFICES ASSUME NEW k \in Files, NEW j \in Files, k < j,
                        NEW x \in In(g[k]), NEW y \in In(g[j])
                 PROVE  x < y
      BY <2>4
    <3>1. k < MaxFiles /\ k + 1 \in Files /\ x \in In(Turn(k + 1)) /\ x \in OnDisk
      <4>1. k < MaxFiles
        BY <1>2 DEF Files
      <4> QED BY <1>2, <4>1, DiskTurns
    <3>2. CASE j = MaxFiles
      BY <1>2, <1>3, <3>1, <3>2
    <3>3. CASE j < MaxFiles
      <4>1. j + 1 \in Files /\ k + 1 < j + 1 /\ y \in In(Turn(j + 1))
        BY <1>2, <3>3 DEF Files
      <4> QED BY <1>1, <3>1, <4>1 DEF FilesInTurn
    <3> QED BY <1>2, <3>2, <3>3
  <2>6. g \in [Files -> Seq(Nat)]
    BY <2>3, EntriesNat
  <2> HIDE DEF g
  <2>7. \A k \in Files : \A i \in 1..MaxLines : g[k][i] \in Newer(l)'
    <3>1. \A m \in Out' : l < m => m \in Newer(l)'
      BY DEF Newer
    <3> QED BY <2>3, <2>4, <3>1
  <2>8. IsFiniteSet(Newer(l)') /\ Cardinality(Newer(l)') \in Nat
    BY PrimedFinite
  <2>9. Cardinality(Newer(l)') >= MaxFiles * MaxLines
    BY <2>3, <2>5, <2>6, <2>7, <2>8, FilesInside
  <2> QED BY <2>8, <2>9, FloorBounds DEF Outlived
<1>8. CASE Dropped(l)
  <2>1. l \in Nat
    BY <1>2, <1>6, TurnTyped, InEntries DEF Lines
  <2>2. Dropped(l)'
    BY <1>1, <1>8 DEF Dropped, Increasing
  <2> QED BY <1>9, <2>1, <2>2 DEF TypeCorrect
<1> QED BY <1>6, <1>7, <1>8

LEMMA LostAtSteps ==
  ASSUME TypeCorrect, QueueNewest, JoinedLast, FilesInTurn, OneEnder, TailAt, LostAt, Next
  PROVE  LostAt'
<1>0. TypeCorrect'
  BY TypeSteps
<1>1. enders \in Nat /\ enders' \in {enders, enders + 1}
  BY BeganSteps DEF TypeCorrect, TypeOK
<1> SUFFICES ASSUME enders' <= 1
             PROVE  \A l \in Lost' :
                       IF cons' = "ended" THEN Outlived(l)' ELSE Overwritten(l)' \/ Dropped(l)'
  BY DEF LostAt, Alone
<1>2. enders <= 1
  BY <1>1
<1>3. CASE StaysPut /\ (QueueStays \/ QueuePill \/ QueueLine) /\ (cons = "ended" => cons' = "ended")
  BY <1>0, <1>2, <1>3, LostAtStays
<1>4. ASSUME NEW w \in Writers, Write(w) \/ PutLine(w)
      PROVE  StaysPut /\ (QueueStays \/ QueuePill \/ QueueLine) /\ (cons = "ended" => cons' = "ended")
  BY <1>4, OutStays DEF Write, PutLine, Put, disk, QueueStays, QueueLine, StaysPut
<1>5. ASSUME NEW w \in Writers, Cleanup(w)
      PROVE  StaysPut /\ QueueStays /\ (cons = "ended" => cons' = "ended")
  <2>1. kept' = kept
    <3>1. CASE kept' = [kept EXCEPT ![w] = <<>>] /\ enders' = enders + 1
      <4>1. enders = 0 /\ w \in Actors
        BY <1>1, <3>1 DEF Actors
      <4>2. kept[w] = <<>>
        BY <4>1 DEF OneEnder, NobodyYet, Began
      <4> QED BY <3>1, <4>1, <4>2 DEF TypeCorrect, TypeOK
    <3> QED BY <1>5, <3>1 DEF Cleanup
  <2> QED BY <1>5, <2>1, OutStays DEF Cleanup, disk, QueueStays, StaysPut
<1>6. ASSUME NEW a \in Actors, Drained(a) \/ Break(a) \/ Shut(a) \/ Pill(a)
      PROVE  StaysPut /\ (QueueStays \/ QueuePill) /\ (cons = "ended" => cons' = "ended")
  BY <1>6, OutStays DEF Drained, Break, Shut, Pill, Put, disk, sync, QueueStays, QueuePill, StaysPut
<1>7. CASE Close \/ Wait \/ Mark \/ LastPill \/ Loop
  BY <1>3, <1>7, OutStays DEF Close, Wait, Mark, LastPill, Loop, Put, disk, sync, QueueStays, QueuePill, StaysPut
<1>8. ASSUME NEW a \in Actors, Drain(a)
      PROVE  \A l \in Lost' : IF cons' = "ended" THEN Outlived(l)' ELSE Overwritten(l)' \/ Dropped(l)'
  BY <1>0, <1>2, <1>8, LostAtDrain
<1>9. ASSUME NEW a \in Actors, Joined(a) \/ WriteTail(a) \/ Clear(a)
      PROVE  \A l \in Lost' : IF cons' = "ended" THEN Outlived(l)' ELSE Overwritten(l)' \/ Dropped(l)'
  <2>1. cons = "ended" /\ cons' = "ended" /\ UNCHANGED <<queue, puts>>
    BY <1>9 DEF Joined, WriteTail, Clear, JoinedLast, AfterJoin, sync
  <2>2. Out' = Out
    <3>1. CASE Joined(a) \/ WriteTail(a)
      BY <3>1, OutJoined, OutWriteTail
    <3>2. CASE Clear(a)
      <4>1. In(buffer) \subseteq OnDisk
        BY <1>2, <3>2, InEmpty DEF TailAt, Alone, Clear
      <4> QED BY <3>2, <4>1, OutClear DEF Out
    <3> QED BY <1>9, <3>1, <3>2
  <2>3. Lost' \subseteq Lost
    BY <2>1, <2>2, LostConsumed
  <2>4. \A l \in Lost : Outlived(l)
    BY <1>2, <2>1 DEF LostAt, Alone
  <2> QED BY <1>0, <2>1, <2>2, <2>3, <2>4, OutlivedGrows
<1>10. CASE Take
  BY <1>0, <1>2, <1>10, LostAtTake
<1>11. CASE AppendLine
  BY <1>0, <1>2, <1>11, LostAtAppendLine
<1>12. CASE AppendFails
  BY <1>0, <1>2, <1>12, LostAtAppendFails
<1> QED BY <1>3, <1>4, <1>5, <1>6, <1>7, <1>8, <1>9, <1>10, <1>11, <1>12, Actions

\* The invariant behind LossIsOldest.
OrderInv == QueueNewest /\ JoinedLast /\ OneEnder /\ FilesInTurn /\ TailAt /\ LostAt

LEMMA OrderStarts == Init => OrderInv
<1> SUFFICES ASSUME Init PROVE OrderInv
  OBVIOUS
<1>1. TypeCorrect
  BY TypeStarts
<1>2. /\ queue = <<>> /\ puts = 0 /\ buffer = <<>> /\ hand = None /\ enders = 0 /\ cons = "top"
      /\ \A i \in Files : files[i] = <<>>
      /\ \A a \in Actors : kept[a] = <<>> /\ pc[a] = "idle"
  BY DEF Init
<1>3. /\ In(queue) = {} /\ In(buffer) = {} /\ OnDisk = {} /\ KeptLines = {} /\ Out = {}
      /\ DOMAIN queue = {} /\ DOMAIN buffer = {}
  <2>1. OnDisk = {} /\ KeptLines = {}
    BY <1>2, InEmpty DEF OnDisk, KeptLines
  <2> QED BY <1>2, <2>1, InEmpty DEF Out
<1>4. \A k \in Files : Turn(k) = <<>>
  BY <1>1, <1>2, PlaceIn, TurnPlace DEF TypeCorrect
<1>5. QueueNewest /\ JoinedLast
  BY <1>2, <1>3 DEF QueueNewest, JoinedLast, AfterJoin
<1>6. OneEnder
  BY <1>2, <1>3 DEF OneEnder, NobodyYet, OneBegan, DrainsAlone, Began, Draining, OnlyLines
<1>7. FilesInTurn
  <2>1. OnlyLines(<<>>) /\ Increasing(<<>>) /\ Len(<<>>) = 0 /\ 0 < MaxLines
    BY FileBackendAssumption DEF OnlyLines, Increasing
  <2> QED BY <1>2, <1>3, <1>4, <2>1, InEmpty DEF FilesInTurn
<1>8. TailAt
  BY <1>2 DEF TailAt
<1>9. LostAt
  BY <1>2, LostIff DEF LostAt
<1> QED BY <1>5, <1>6, <1>7, <1>8, <1>9 DEF OrderInv

LEMMA OrderSteps == TypeCorrect /\ OrderInv /\ [Next]_vars => OrderInv'
<1> SUFFICES ASSUME TypeCorrect, OrderInv, [Next]_vars PROVE OrderInv'
  OBVIOUS
<1>1. CASE Next
  BY <1>1, QueueNewestSteps, JoinedLastSteps, OneEnderSteps, FilesInTurnSteps, TailAtSteps, LostAtSteps
     DEF OrderInv
<1>2. CASE UNCHANGED vars
  <2>1. UNCHANGED <<Out, OnDisk, Lost>> /\ \A k : Turn(k)' = Turn(k) /\ In(Turn(k))' = In(Turn(k))
    BY <1>2 DEF vars, sync, disk, ending, Out, OnDisk, KeptLines, Lost, Accepted, Held, In, Turn
  <2>2. QueueNewest' /\ JoinedLast'
    BY <1>2, <2>1 DEF OrderInv, vars, sync, QueueNewest, JoinedLast
  <2>3. OneEnder'
    BY <1>2 DEF OrderInv, vars, sync, ending, OneEnder, NobodyYet, OneBegan, DrainsAlone, Began, OnlyLines, Increasing
  <2>4. FilesInTurn'
    <3>1. UNCHANGED <<buffer, hand, cons, In(buffer)>>
      BY <1>2 DEF vars, disk, In
    <3> QED BY <2>1, <3>1 DEF OrderInv, FilesInTurn, OnlyLines, Increasing
  <2>5. TailAt'
    <3>1. UNCHANGED <<pc, kept, enders, In(buffer)>> /\ \A a : In(kept[a])' = In(kept[a])
      BY <1>2 DEF vars, disk, ending, In
    <3> QED BY <2>1, <3>1 DEF OrderInv, TailAt, Alone
  <2>6. LostAt'
    BY <1>2, <2>1 DEF OrderInv, vars, ending, LostAt, Alone, Overwritten, Dropped, Outlived, Newer, Increasing
  <2> QED BY <2>2, <2>3, <2>4, <2>5, <2>6 DEF OrderInv
<1> QED BY <1>1, <1>2

LEMMA OldestIsLost == TypeCorrect /\ OrderInv => LossIsOldest
<1> SUFFICES ASSUME TypeCorrect, OrderInv, Alone, NEW l \in Lost
             PROVE  Cardinality({m \in OnDisk \cup (Held \ In(queue)) : m > l}) >= Floor
  BY DEF LossIsOldest
<1>1. Out \cap In(queue) = {}
  <2>1. \A m \in Out : \A x \in In(queue) : m < x
    BY InIff DEF OrderInv, QueueNewest
  <2>2. \A m \in Out : m \in Nat
    BY OutLines DEF TypeCorrect, Lines
  <2> QED BY <2>1, <2>2
<1>2. OnDisk \cup (Held \ In(queue)) = Out
  BY <1>1 DEF Held, Out, KeptLines
<1>3. Outlived(l)
  <2>1. l \in Nat
    BY LostIff
  <2>2. CASE cons = "ended"
    BY <2>2 DEF OrderInv, LostAt
  <2>3. CASE cons # "ended"
    BY <2>1, <2>3, FilesOutlive, DequeOutlives DEF OrderInv, LostAt, TypeCorrect
  <2> QED BY <2>2, <2>3
<1> QED BY <1>2, <1>3 DEF Outlived, Newer

\* LossIsOldest holds for every number of writers, sizes of the queue, the files
\* and the rotation, number of kept messages, and failures of the disk.
THEOREM OldestAreLost == Spec => []LossIsOldest
<1>1. Spec => [](TypeCorrect /\ OrderInv)
  BY TypeStarts, TypeSteps, OrderStarts, OrderSteps, PTL DEF Spec
<1> QED BY <1>1, OldestIsLost, PTL

-----------------------------------------------------------------------------
(***************************************************************************)
(* FileBackend: where everybody stands until a drain begins.               *)
(***************************************************************************)
\* Nobody has begun to drain: nobody ends the runner, or close does so cleanly.
NoDrain == enders = IF clean THEN 1 ELSE 0
PlacesAt == NoDrain =>
    /\ ~stop
    /\ clean <=> pc[Closer] # "idle"
    /\ pc[Closer] \in {"idle", "wait", "mark", "last", "join", "closed"}
    /\ \A w \in Writers : pc[w] \in {"idle", "put", "fatal", "raised"}

\* close has not begun.
NotYet == (pc[Closer] = "idle" => ~stop /\ ~clean) /\ (clean => enders > 0)

\* A report that raises in the handler of write.
ReportRaises(w) ==
    /\ pc[w] = "fatal" /\ Goto(w, "raised")
    /\ UNCHANGED <<sync, disk, cons, hand, kept, ending>>

\* The steps until a drain begins.
LEMMA BeforeDrain ==
  ASSUME TypeCorrect, NotYet, PlacesAt, Next, NoDrain'
  PROVE  /\ NoDrain
         /\ \/ \E w \in Writers : Write(w) \/ PutLine(w) \/ ReportRaises(w)
            \/ Close /\ CleanDrain
            \/ Wait \/ Mark \/ LastPill
            \/ Joined(Closer) /\ clean /\ pc[Closer] = "join"
            \/ Loop \/ Take \/ AppendLine \/ AppendFails
<1>a. enders \in Nat /\ clean \in BOOLEAN /\ Closer \notin Writers
  BY FileBackendAssumption DEF TypeCorrect, TypeOK
<1>1. ASSUME UNCHANGED ending PROVE NoDrain
  BY <1>1 DEF ending, NoDrain
<1>2. ASSUME NEW w \in Writers, Write(w) \/ PutLine(w) PROVE NoDrain
  BY <1>1, <1>2 DEF Write, PutLine
<1>3. ASSUME NEW w \in Writers, Cleanup(w) PROVE NoDrain /\ ReportRaises(w)
  <2>1. CASE enders' = enders + 1 /\ clean' = clean
    BY <1>a, <2>1 DEF NoDrain, NotYet
  <2>2. CASE SinkRaises(w) /\ UNCHANGED <<died, kept, enders>>
    BY <1>1, <1>3, <2>2 DEF Cleanup, SinkRaises, ReportRaises, sync, ending
  <2> QED BY <1>3, <2>1, <2>2 DEF Cleanup
<1>4. ASSUME NEW a \in Actors, DrainOut(a)
      PROVE  NoDrain /\ Joined(Closer) /\ clean /\ pc[Closer] = "join"
  <2>1. NoDrain
    BY <1>1, <1>4 DEF DrainOut, Drain, Drained, Pill, Joined, WriteTail, Break, Clear, Shut
  <2>2. pc[a] \in Draining \ {"raised"}
    BY <1>4 DEF DrainOut, Drain, Drained, Pill, Joined, WriteTail, Break, Clear, Shut, Draining
  <2>3. a = Closer /\ pc[Closer] = "join"
    BY <2>1, <2>2 DEF PlacesAt, Draining, Actors
  <2>4. clean
    BY <2>1, <2>3 DEF PlacesAt
  <2>5. Joined(Closer)
    BY <1>4, <2>3 DEF DrainOut, Drain, Drained, Pill, WriteTail, Break, Clear, Shut
  <2> QED BY <2>1, <2>3, <2>4, <2>5
<1>5. CASE Close
  <2>1. ~clean /\ enders' = enders + 1 /\ clean' = CleanDrain
    BY <1>5 DEF Close, NotYet
  <2>2. CleanDrain /\ enders = 0
    BY <1>a, <2>1 DEF NoDrain
  <2> QED BY <1>5, <2>1, <2>2 DEF NoDrain
<1>6. CASE Wait \/ Mark \/ LastPill \/ Loop \/ Take \/ AppendLine \/ AppendFails
  BY <1>1, <1>6 DEF Wait, Mark, LastPill, Loop, Take, AppendLine, AppendFails
<1> QED BY <1>2, <1>3, <1>4, <1>5, <1>6 DEF Next, Writing, Closing, Consume, Actors

LEMMA NotYetSteps ==
  ASSUME TypeCorrect, NotYet, Next
  PROVE  NotYet'
<1>a. enders \in Nat /\ Closer \notin Writers /\ Closer \in Actors /\ pc \in [Actors -> WriterAt \cup CloserAt]
  BY FileBackendAssumption DEF TypeCorrect, TypeOK, Actors
<1>1. ASSUME NEW w \in Writers, Write(w) \/ PutLine(w) PROVE NotYet'
  BY <1>a, <1>1 DEF NotYet, Write, PutLine, PropagateTransient, SinkRaises, Goto, ending
<1>2. ASSUME NEW w \in Writers, Cleanup(w) PROVE NotYet'
  BY <1>a, <1>2 DEF NotYet, Cleanup, SinkRaises, Goto
<1>3. ASSUME NEW a \in Actors, DrainOut(a) PROVE NotYet'
  <2>1. UNCHANGED <<stop, ending>> /\ (pc'[Closer] = "idle" => pc[Closer] = "idle")
    BY <1>a, <1>3 DEF DrainOut, Drain, Drained, Pill, Joined, WriteTail, Break, Clear, Shut, Mutate, Goto, Done, sync
  <2> QED BY <2>1 DEF NotYet, ending
<1>4. CASE Close
  BY <1>a, <1>4 DEF NotYet, Close, Goto
<1>5. CASE Wait \/ Mark \/ LastPill
  BY <1>a, <1>5 DEF NotYet, Wait, Mark, LastPill, Goto, ending, sync
<1>6. CASE Consume
  BY <1>6 DEF NotYet, Consume, Loop, Take, AppendLine, AppendFails, ending, sync
<1> QED BY <1>1, <1>2, <1>3, <1>4, <1>5, <1>6 DEF Next, Writing, Closing, Actors

LEMMA PlacesAtSteps ==
  ASSUME TypeCorrect, NotYet, PlacesAt, Next
  PROVE  PlacesAt'
<1> SUFFICES ASSUME NoDrain'
             PROVE  /\ ~stop'
                    /\ clean' <=> pc'[Closer] # "idle"
                    /\ pc'[Closer] \in {"idle", "wait", "mark", "last", "join", "closed"}
                    /\ \A w \in Writers : pc'[w] \in {"idle", "put", "fatal", "raised"}
  BY DEF PlacesAt
<1>a. Closer \notin Writers /\ Closer \in Actors /\ Writers \subseteq Actors /\ pc \in [Actors -> WriterAt \cup CloserAt]
  BY FileBackendAssumption DEF TypeCorrect, TypeOK, Actors
<1>b. /\ ~stop
      /\ clean <=> pc[Closer] # "idle"
      /\ pc[Closer] \in {"idle", "wait", "mark", "last", "join", "closed"}
      /\ \A w \in Writers : pc[w] \in {"idle", "put", "fatal", "raised"}
  BY BeforeDrain DEF PlacesAt
<1>1. ASSUME NEW w \in Writers, Write(w) \/ PutLine(w) \/ ReportRaises(w)
      PROVE  /\ UNCHANGED <<stop, clean>>
             /\ UNCHANGED pc \/ \E place \in {"put", "fatal", "idle", "raised"} : Goto(w, place)
  BY <1>1 DEF Write, PutLine, PropagateTransient, SinkRaises, ReportRaises, ending, sync
<1>2. ASSUME NEW w \in Writers, UNCHANGED <<stop, clean>>,
             UNCHANGED pc \/ \E place \in {"put", "fatal", "idle", "raised"} : Goto(w, place)
      PROVE  /\ ~stop'
             /\ clean' <=> pc'[Closer] # "idle"
             /\ pc'[Closer] \in {"idle", "wait", "mark", "last", "join", "closed"}
             /\ \A x \in Writers : pc'[x] \in {"idle", "put", "fatal", "raised"}
  BY <1>a, <1>b, <1>2 DEF Goto
<1>3. CASE Close /\ CleanDrain
  <2>1. stop' = FALSE /\ clean' = TRUE /\ Goto(Closer, "wait")
    BY <1>3 DEF Close
  <2> QED BY <1>a, <1>b, <2>1 DEF Goto
<1>4. CASE Wait \/ Mark \/ LastPill
  <2>1. UNCHANGED <<stop, clean>> /\ pc[Closer] # "idle" /\ \E place \in {"mark", "last", "join"} : Goto(Closer, place)
    BY <1>4 DEF Wait, Mark, LastPill, ending, sync
  <2> QED BY <1>a, <1>b, <2>1 DEF Goto
<1>5. CASE Joined(Closer) /\ clean /\ pc[Closer] = "join"
  <2>1. UNCHANGED <<stop, clean>> /\ Goto(Closer, "closed")
    BY <1>5 DEF Joined, ending, sync
  <2> QED BY <1>a, <1>b, <1>5, <2>1 DEF Goto
<1>6. CASE Loop \/ Take \/ AppendLine \/ AppendFails
  <2>1. UNCHANGED <<stop, clean, pc>>
    BY <1>6 DEF Loop, Take, AppendLine, AppendFails, ending, sync
  <2> QED BY <1>b, <2>1
<1> QED BY <1>1, <1>2, <1>3, <1>4, <1>5, <1>6, BeforeDrain

\* While nobody has stopped the runner or declared it dead, close has come no
\* further than the end of queue.join().
Running == ~died /\ ~stop =>
    /\ NoDrain /\ cons # "ended" /\ OnlyLines(queue)
    /\ pc[Closer] \in {"idle", "wait", "mark"}

LEMMA RunningSteps ==
  ASSUME TypeCorrect, NotYet, PlacesAt, Running, Next
  PROVE  Running'
<1> SUFFICES ASSUME ~died', ~stop'
             PROVE  /\ NoDrain' /\ cons' # "ended" /\ OnlyLines(queue')
                    /\ pc'[Closer] \in {"idle", "wait", "mark"}
  BY DEF Running, OnlyLines
<1>a. Closer \notin Writers /\ Closer \in Actors /\ pc \in [Actors -> WriterAt \cup CloserAt] /\ enders \in Nat
  BY FileBackendAssumption DEF TypeCorrect, TypeOK, Actors
<1>b. ~died /\ ~stop
  <2>1. ASSUME NEW w \in Writers, Write(w) \/ PutLine(w) \/ Cleanup(w) PROVE ~died /\ ~stop
    BY <2>1 DEF Write, PutLine, Cleanup
  <2>2. ASSUME NEW a \in Actors, DrainOut(a) PROVE ~died /\ ~stop
    BY <2>2 DEF DrainOut, Drain, Drained, Pill, Joined, WriteTail, Break, Clear, Shut, sync
  <2>3. CASE Close
    BY <2>3 DEF Close, NotYet
  <2>4. CASE Wait \/ Mark \/ LastPill
    BY <2>4 DEF Wait, Mark, LastPill, sync
  <2>5. CASE Consume
    BY <2>5 DEF Consume, Loop, Take, AppendLine, AppendFails, sync
  <2> QED BY <2>1, <2>2, <2>3, <2>4, <2>5 DEF Next, Writing, Closing, Actors
<1>c. /\ NoDrain /\ cons # "ended" /\ OnlyLines(queue)
      /\ pc[Closer] \in {"idle", "wait", "mark"}
      /\ \A w \in Writers : pc[w] \in {"idle", "put", "fatal", "raised"}
  BY <1>b DEF Running, PlacesAt
<1>1. ASSUME NEW w \in Writers, Write(w) \/ PutLine(w)
      PROVE  NoDrain' /\ cons' # "ended" /\ OnlyLines(queue') /\ pc'[Closer] \in {"idle", "wait", "mark"}
  <2>1. UNCHANGED <<cons, ending>> /\ (QueueStays \/ QueueLine)
    BY <1>1, OutStays DEF Write, PutLine, Put, disk, QueueStays, QueueLine, StaysPut
  <2>2. pc'[Closer] = pc[Closer]
    BY <1>1, <1>a DEF Write, PutLine, PropagateTransient, SinkRaises, Goto
  <2> QED BY <1>c, <2>1, <2>2, QueueKeepsLines DEF NoDrain, ending
<1>2. ASSUME NEW w \in Writers, Cleanup(w)
      PROVE  NoDrain' /\ cons' # "ended" /\ OnlyLines(queue') /\ pc'[Closer] \in {"idle", "wait", "mark"}
  <2>1. UNCHANGED <<cons, ending, queue>> /\ Goto(w, "raised")
    BY <1>2 DEF Cleanup, SinkRaises, ending
  <2> QED BY <1>a, <1>c, <2>1 DEF NoDrain, ending, Goto
<1>3. ASSUME NEW a \in Actors, DrainOut(a) PROVE FALSE
  <2>1. pc[a] \in Draining \ {"raised"}
    BY <1>3 DEF DrainOut, Drain, Drained, Pill, Joined, WriteTail, Break, Clear, Shut, Draining
  <2> QED BY <1>c, <2>1 DEF Draining, Actors
<1>4. CASE Close
  <2>1. CleanDrain /\ clean' = TRUE /\ enders' = enders + 1 /\ UNCHANGED <<cons, queue>> /\ Goto(Closer, "wait") /\ ~clean
    BY <1>4 DEF Close, NotYet
  <2> QED BY <1>a, <1>c, <2>1 DEF NoDrain, Goto
<1>5. CASE Wait
  BY <1>a, <1>c, <1>5 DEF Wait, Goto, NoDrain, ending, sync
<1>6. CASE Mark \/ LastPill
  BY <1>c, <1>6 DEF Mark, LastPill
<1>7. CASE Loop \/ AppendLine \/ AppendFails
  <2>1. UNCHANGED <<ending, queue, pc>> /\ cons' # "ended"
    BY <1>b, <1>7 DEF Loop, AppendLine, AppendFails, sync
  <2> QED BY <1>c, <2>1 DEF NoDrain, ending
<1>8. CASE Take
  <2>1. QueuePops /\ UNCHANGED <<ending, pc>>
    BY <1>8, OutTake DEF Take, QueuePops
  <2>2. queue # <<>> /\ Head(queue) = queue[1] /\ 1 \in DOMAIN queue
    BY <1>8 DEF Take, TypeCorrect, TypeOK
  <2>3. cons' = "append"
    BY <1>c, <1>8, <2>2 DEF Take, OnlyLines
  <2> QED BY <1>c, <2>1, <2>3, QueueKeepsLines DEF NoDrain, ending
<1> QED BY <1>1, <1>2, <1>3, <1>4, <1>5, <1>6, <1>7, <1>8 DEF Next, Writing, Closing, Consume, Actors

-----------------------------------------------------------------------------
(***************************************************************************)
(* FileBackend: the numbers of the lines until a drain begins or a rota- *)
(* tion fails.                                                             *)
(***************************************************************************)
\* No drain has begun, and no rotation has failed.
Undrained == NoDrain /\ Len(buffer) < MaxLines

\* The pill of a clean close is in the queue, and is its last entry.
Pilled == pc[Closer] = "join" /\ cons # "ended"

ClosingAt == Undrained =>
    /\ died <=> pc[Closer] \in {"last", "join", "closed"}
    /\ cons = "ended" => pc[Closer] \in {"join", "closed"} /\ queue = <<>>
    /\ Pilled => queue # <<>> /\ queue[Len(queue)] = None

\* How many lines are in the queue, and how many are in the files or overwritten.
Behind == IF Pilled THEN Len(queue) - 1 ELSE Len(queue)
Gone == puts - Behind - Len(InHand) - Len(buffer)
Block(n) == [i \in 1..MaxLines |-> (n - 1) * MaxLines + i]

QueueNumbered == \A i \in 1..Behind : queue[i] = puts - Behind + i
HandNumbered == hand # None => hand = puts - Behind
BufferNumbered == \A i \in DOMAIN buffer : buffer[i] = Gone + i
RotatedTimes(r) ==
    /\ Gone = r * MaxLines
    /\ \A k \in Files : Turn(k) = IF r + k > MaxFiles THEN Block(r + k - MaxFiles) ELSE <<>>
FilesNumbered == \E r \in Nat : RotatedTimes(r)
Numbered == Undrained => QueueNumbered /\ HandNumbered /\ BufferNumbered /\ FilesNumbered

LEMMA HandLength == Len(InHand) = IF hand = None THEN 0 ELSE 1
<1> QED BY DEF InHand

LEMMA BeforeFailure ==
  ASSUME TypeCorrect, FilesInTurn, NotYet, PlacesAt, Next, Undrained'
  PROVE  /\ Undrained
         /\ \/ \E w \in Writers : Write(w) \/ PutLine(w) \/ ReportRaises(w)
            \/ Close /\ CleanDrain
            \/ Wait \/ Mark \/ LastPill
            \/ Joined(Closer) /\ clean /\ pc[Closer] = "join"
            \/ Loop \/ Take \/ AppendLine
<1>1. NoDrain' /\ Len(buffer') < MaxLines
  BY DEF Undrained
<1>2. /\ NoDrain
      /\ \/ \E w \in Writers : Write(w) \/ PutLine(w) \/ ReportRaises(w)
         \/ Close /\ CleanDrain
         \/ Wait \/ Mark \/ LastPill
         \/ Joined(Closer) /\ clean /\ pc[Closer] = "join"
         \/ Loop \/ Take \/ AppendLine \/ AppendFails
  BY <1>1, BeforeDrain
<1>3. ASSUME NEW w \in Writers, Write(w) \/ PutLine(w) \/ ReportRaises(w) PROVE UNCHANGED buffer
  BY <1>3 DEF Write, PutLine, ReportRaises, disk
<1>4. ASSUME Close \/ Wait \/ Mark \/ LastPill \/ Loop \/ Take PROVE UNCHANGED buffer
  BY <1>4 DEF Close, Wait, Mark, LastPill, Loop, Take, disk
<1>5. ASSUME Joined(Closer), clean PROVE UNCHANGED buffer
  BY <1>5 DEF Joined
<1>6. ASSUME AppendLine PROVE Len(buffer) < MaxLines
  BY <1>6 DEF AppendLine, FilesInTurn
<1>7. ASSUME AppendFails PROVE FALSE
  <2>1. buffer' = Append(buffer, hand) /\ Len(Append(buffer, hand)) >= MaxLines
    BY <1>7 DEF AppendFails
  <2>2. Len(Append(buffer, hand)) \in Nat /\ MaxLines \in Nat
    BY LinesTyped, FileBackendAssumption DEF TypeCorrect
  <2> QED BY <1>1, <2>1, <2>2
<1>8. Len(buffer) < MaxLines
  BY <1>1, <1>2, <1>3, <1>4, <1>5, <1>6, <1>7
<1> QED BY <1>2, <1>7, <1>8 DEF Undrained

\* Steps that leave the lines and the files where they are.
Rests ==
    /\ UNCHANGED <<queue, puts, died, hand, buffer, files, index, Pilled>>
    /\ cons' = "ended" <=> cons = "ended"
    /\ pc'[Closer] \in {"last", "join", "closed"} <=> pc[Closer] \in {"last", "join", "closed"}
    /\ pc[Closer] \in {"join", "closed"} => pc'[Closer] \in {"join", "closed"}

LEMMA RestSteps ==
  ASSUME TypeCorrect, NotYet, PlacesAt, NoDrain
  PROVE  /\ \A w \in Writers : Write(w) \/ (PutLine(w) /\ (died \/ Full)) \/ ReportRaises(w) => Rests
         /\ (Close /\ CleanDrain) \/ Wait \/ Loop => Rests
         /\ Joined(Closer) /\ clean /\ pc[Closer] = "join" => Rests
<1>a. Closer \notin Writers /\ Closer \in Actors /\ pc \in [Actors -> WriterAt \cup CloserAt]
  BY FileBackendAssumption DEF TypeCorrect, TypeOK, Actors
<1>1. ASSUME NEW w \in Writers, Write(w) \/ (PutLine(w) /\ (died \/ Full)) \/ ReportRaises(w) PROVE Rests
  <2>1. UNCHANGED <<queue, puts, died, hand, buffer, files, index, cons>>
    BY <1>1 DEF Write, PutLine, ReportRaises, disk, sync
  <2>2. pc'[Closer] = pc[Closer]
    BY <1>a, <1>1 DEF Write, PutLine, ReportRaises, PropagateTransient, SinkRaises, Goto
  <2> QED BY <2>1, <2>2 DEF Rests, Pilled
<1>2. CASE Close /\ CleanDrain
  <2>1. UNCHANGED <<queue, puts, died, hand, buffer, files, index, cons>>
    BY <1>2 DEF Close, disk
  <2>2. pc'[Closer] = "wait" /\ pc[Closer] = "idle"
    BY <1>a, <1>2 DEF Close, Goto
  <2> QED BY <2>1, <2>2 DEF Rests, Pilled
<1>3. CASE Wait
  <2>1. UNCHANGED <<queue, puts, died, hand, buffer, files, index, cons>>
    BY <1>3 DEF Wait, disk, sync
  <2>2. pc'[Closer] = "mark" /\ pc[Closer] = "wait"
    BY <1>a, <1>3 DEF Wait, Goto
  <2> QED BY <2>1, <2>2 DEF Rests, Pilled
<1>4. CASE Loop
  <2>1. UNCHANGED <<queue, puts, died, hand, buffer, files, index, pc>> /\ cons = "top" /\ cons' = "get"
    BY <1>4 DEF Loop, disk, sync, PlacesAt
  <2> QED BY <2>1 DEF Rests, Pilled
<1>5. CASE Joined(Closer) /\ clean /\ pc[Closer] = "join"
  <2>1. UNCHANGED <<queue, puts, died, hand, buffer, files, index, cons>> /\ cons = "ended"
    BY <1>5 DEF Joined, sync
  <2>2. pc'[Closer] = "closed"
    BY <1>a, <1>5 DEF Joined, Goto
  <2> QED BY <1>5, <2>1, <2>2 DEF Rests, Pilled
<1> QED BY <1>1, <1>2, <1>3, <1>4, <1>5

LEMMA RestsKeep ==
  ASSUME Rests, ClosingAt, Numbered, Undrained
  PROVE  ClosingAt' /\ Numbered'
<1>1. UNCHANGED <<Behind, Gone, InHand>> /\ \A k : Turn(k)' = Turn(k)
  BY DEF Rests, Behind, Gone, InHand, Turn
<1>2. ClosingAt'
  BY DEF Rests, ClosingAt
<1>3. QueueNumbered' /\ HandNumbered' /\ BufferNumbered'
  BY <1>1 DEF Rests, Numbered, QueueNumbered, HandNumbered, BufferNumbered
<1>4. FilesNumbered'
  BY <1>1 DEF Rests, Numbered, FilesNumbered, RotatedTimes, Block
<1> QED BY <1>2, <1>3, <1>4 DEF Numbered

\* The files and the buffer stay numbered while the lines in them do not change.
LEMMA FilesKeep ==
  ASSUME UNCHANGED <<files, index, buffer, Gone>>, BufferNumbered, FilesNumbered
  PROVE  BufferNumbered' /\ FilesNumbered'
<1>1. \A k : Turn(k)' = Turn(k)
  BY DEF Turn
<1> QED BY <1>1 DEF BufferNumbered, FilesNumbered, RotatedTimes, Block

LEMMA GoneBounds ==
  ASSUME TypeCorrect, FilesNumbered
  PROVE  Gone \in Nat
<1> QED BY FileBackendAssumption DEF FilesNumbered, RotatedTimes

\* The numbers that the definitions above are made of.
LEMMA NumbersTyped ==
  ASSUME TypeCorrect
  PROVE  /\ queue \in Seq(Entries) /\ buffer \in Seq(Entries) /\ Len(queue) \in Nat /\ Len(buffer) \in Nat
         /\ puts \in Nat /\ Behind \in Int /\ Len(InHand) \in Nat /\ Gone \in Int
         /\ MaxLines \in Nat \ {0} /\ MaxFiles \in Nat \ {0}
         /\ hand \in Entries /\ cons \in {"top", "get", "append", "ended"} /\ died \in BOOLEAN
         /\ Closer \in Actors /\ Writers \subseteq Actors /\ Closer \notin Writers
         /\ pc \in [Actors -> WriterAt \cup CloserAt]
<1>1. /\ queue \in Seq(Entries) /\ buffer \in Seq(Entries) /\ puts \in Nat
      /\ hand \in Entries /\ cons \in {"top", "get", "append", "ended"} /\ died \in BOOLEAN
      /\ pc \in [Actors -> WriterAt \cup CloserAt]
  BY FileBackendAssumption DEF TypeCorrect, TypeOK
<1>2. Len(queue) \in Nat /\ Len(buffer) \in Nat
  BY <1>1
<1>3. Behind \in Int /\ Len(InHand) \in Nat
  BY <1>2, HandLength DEF Behind
<1> QED BY <1>1, <1>2, <1>3, FileBackendAssumption DEF Gone, Actors

LEMMA PutLineNumbers ==
  ASSUME TypeCorrect, ClosingAt, Numbered, Undrained, NEW w \in Writers, PutLine(w), ~died, ~Full
  PROVE  ClosingAt' /\ Numbered'
<1>a. /\ queue' = Append(queue, puts + 1) /\ puts' = puts + 1 /\ Goto(w, "idle")
      /\ UNCHANGED <<died, stop, buffer, files, index, cons, hand>>
  BY DEF PutLine, Put, disk
<1>b. pc'[Closer] = pc[Closer] /\ pc[Closer] \notin {"last", "join", "closed"}
  BY <1>a, NumbersTyped DEF Goto, ClosingAt
<1>1. /\ Len(queue') = Len(queue) + 1
      /\ \A i \in 1..Len(queue) : queue'[i] = queue[i]
      /\ queue'[Len(queue) + 1] = puts + 1
  BY <1>a, NumbersTyped
<1>2. Behind = Len(queue) /\ Behind' = Len(queue) + 1 /\ InHand' = InHand
  BY <1>a, <1>b, <1>1 DEF Behind, Pilled, InHand
<1>n. /\ puts \in Nat /\ Len(queue) \in Nat /\ Len(InHand) \in Nat /\ Len(buffer) \in Nat
      /\ UNCHANGED <<Len(InHand), Len(buffer)>>
  BY <1>a, <1>2, NumbersTyped
<1>3. Gone' = Gone /\ puts' - Behind' = puts - Behind
  <2>1. puts' - Behind' = puts - Behind
    BY <1>a, <1>n, <1>2
  <2> QED BY <1>n, <2>1 DEF Gone
<1>4. ClosingAt'
  BY <1>a, <1>b DEF ClosingAt, Pilled
<1>5. QueueNumbered'
  <2>1. ASSUME NEW i \in 1..(Len(queue) + 1) PROVE queue'[i] = puts + 1 - (Len(queue) + 1) + i
    <3>1. CASE i \in 1..Len(queue)
      <4>1. queue'[i] = puts - Len(queue) + i
        BY <1>1, <1>2, <3>1 DEF Numbered, QueueNumbered
      <4> QED BY <1>n, <4>1
    <3>2. CASE i = Len(queue) + 1
      BY <1>1, <1>n, <3>2
    <3> QED BY <1>n, <3>1, <3>2
  <2>2. puts' = puts + 1
    BY <1>a
  <2>3. ASSUME NEW i \in 1..Behind' PROVE queue'[i] = puts' - Behind' + i
    <3>1. i \in 1..(Len(queue) + 1)
      BY <1>2
    <3>2. queue'[i] = puts + 1 - (Len(queue) + 1) + i
      BY <2>1, <3>1
    <3>3. puts' - Behind' + i = puts + 1 - (Len(queue) + 1) + i
      <4>1. Behind' = Len(queue) + 1
        BY <1>2
      <4> QED BY <1>n, <2>2, <4>1
    <3> QED BY <3>2, <3>3
  <2> QED BY <2>3 DEF QueueNumbered
<1>6. HandNumbered'
  BY <1>a, <1>3 DEF Numbered, HandNumbered
<1>7. BufferNumbered' /\ FilesNumbered'
  BY <1>a, <1>3, FilesKeep DEF Numbered
<1> QED BY <1>4, <1>5, <1>6, <1>7 DEF Numbered

LEMMA MarkNumbers ==
  ASSUME TypeCorrect, ClosingAt, Numbered, Undrained, Mark
  PROVE  ClosingAt' /\ Numbered'
<1>a. /\ pc[Closer] = "mark" /\ pc'[Closer] = "last" /\ died' = TRUE
      /\ UNCHANGED <<queue, puts, buffer, files, index, cons, hand>>
  BY NumbersTyped DEF Mark, Goto, disk
<1>1. UNCHANGED <<Behind, InHand>>
  BY <1>a DEF Behind, Pilled, InHand
<1>2. Gone' = Gone
  BY <1>a, <1>1 DEF Gone
<1>3. ClosingAt'
  BY <1>a DEF ClosingAt, Pilled
<1>4. QueueNumbered' /\ HandNumbered'
  BY <1>a, <1>1 DEF Numbered, QueueNumbered, HandNumbered
<1>5. BufferNumbered' /\ FilesNumbered'
  BY <1>a, <1>2, FilesKeep DEF Numbered
<1> QED BY <1>3, <1>4, <1>5 DEF Numbered

LEMMA LastPillNumbers ==
  ASSUME TypeCorrect, ClosingAt, Numbered, Undrained, LastPill
  PROVE  ClosingAt' /\ Numbered'
<1>a. /\ pc[Closer] = "last" /\ pc'[Closer] = "join" /\ queue' = Append(queue, None)
      /\ UNCHANGED <<puts, died, buffer, files, index, cons, hand>>
  BY NumbersTyped DEF LastPill, Put, Goto, disk
<1>b. cons # "ended"
  BY <1>a DEF ClosingAt
<1>1. /\ Len(queue') = Len(queue) + 1 /\ queue' # <<>>
      /\ \A i \in 1..Len(queue) : queue'[i] = queue[i]
      /\ queue'[Len(queue')] = None
  <2>1. None \in Entries
    BY DEF Entries
  <2> QED BY <1>a, <2>1, NumbersTyped
<1>2. Behind = Len(queue) /\ Behind' = Len(queue) /\ InHand' = InHand
  BY <1>a, <1>b, <1>1, NumbersTyped DEF Behind, Pilled, InHand
<1>3. Gone' = Gone
  BY <1>a, <1>2 DEF Gone
<1>4. ClosingAt'
  BY <1>a, <1>b, <1>1 DEF ClosingAt, Pilled
<1>5. QueueNumbered' /\ HandNumbered'
  BY <1>a, <1>1, <1>2 DEF Numbered, QueueNumbered, HandNumbered
<1>6. BufferNumbered' /\ FilesNumbered'
  BY <1>a, <1>3, FilesKeep DEF Numbered
<1> QED BY <1>4, <1>5, <1>6 DEF Numbered

LEMMA HeadOfQueue ==
  ASSUME NEW s \in Seq(Entries), s # <<>>
  PROVE  /\ Len(s) >= 1 /\ Len(Tail(s)) = Len(s) - 1 /\ Head(s) = s[1] /\ Head(s) \in Entries
         /\ \A i \in 1..Len(Tail(s)) : Tail(s)[i] = s[i + 1]
         /\ Tail(s) = <<>> <=> Len(s) = 1
<1>1. /\ Len(s) >= 1 /\ Len(Tail(s)) = Len(s) - 1 /\ Head(s) = s[1] /\ Tail(s) \in Seq(Entries)
      /\ \A i \in 1..Len(Tail(s)) : Tail(s)[i] = s[i + 1]
  OBVIOUS
<1> DEFINE t == Tail(s)
<1>2. t = <<>> <=> Len(t) = 0
  <2>1. t \in Seq(Entries)
    OBVIOUS
  <2> HIDE DEF t
  <2> QED BY <2>1, EmptySeq
<1>3. Head(s) \in Entries
  OBVIOUS
<1> QED BY <1>1, <1>2, <1>3

LEMMA TakeNumbers ==
  ASSUME TypeCorrect, ClosingAt, Numbered, Undrained, Take
  PROVE  ClosingAt' /\ Numbered'
<1> DEFINE t == Tail(queue)
           h == Head(queue)
<1>a. /\ cons = "get" /\ queue' = t /\ hand = None
      /\ h = None => cons' = "ended" /\ hand' = hand
      /\ h # None => cons' = "append" /\ hand' = h
      /\ UNCHANGED <<puts, died, buffer, files, index, pc>>
  <2>1. UNCHANGED <<puts, died, buffer, files, index, pc>> /\ cons = "get" /\ queue' = t
    BY DEF Take, disk
  <2> QED BY <2>1 DEF Take, TypeCorrect, HandAt
<1>1. /\ Len(queue) >= 1 /\ Len(t) = Len(queue) - 1 /\ h = queue[1]
      /\ \A i \in 1..Len(t) : t[i] = queue[i + 1]
      /\ t = <<>> <=> Len(queue) = 1
      /\ h \in Entries
  BY NumbersTyped, HeadOfQueue DEF Take
<1>n. /\ puts \in Nat /\ Len(queue) \in Nat /\ Len(buffer) \in Nat /\ Gone \in Nat
      /\ Behind \in Int /\ Len(InHand) = 0
  BY <1>a, NumbersTyped, HandLength, GoneBounds DEF Numbered
<1>b. puts - Behind >= 0
  BY <1>n DEF Gone
<1> HIDE DEF t, h
<1>2. CASE h # None
  <2>1. Behind >= 1
    <3>1. CASE ~Pilled
      BY <1>1, <1>n, <3>1 DEF Behind
    <3>2. CASE Pilled
      <4>1. Len(queue) # 1
        BY <1>1, <1>2, <3>2 DEF ClosingAt
      <4> QED BY <1>1, <1>n, <3>2, <4>1 DEF Behind
    <3> QED BY <3>1, <3>2
  <2>2. h = puts - Behind + 1
    BY <1>1, <1>n, <2>1 DEF Numbered, QueueNumbered
  <2>3. Pilled' = Pilled /\ cons' = "append" /\ hand' = h
    BY <1>a, <1>2 DEF Pilled
  <2>4. Len(queue') = Len(queue) - 1
    BY <1>a, <1>1
  <2>5. Behind' = Behind - 1
    BY <1>n, <2>3, <2>4 DEF Behind
  <2>6. Len(InHand)' = 1
    BY <1>2, <2>3, HandLength DEF InHand
  <2>7. Gone' = Gone
    BY <1>a, <1>n, <2>5, <2>6 DEF Gone
  <2>8. QueueNumbered'
    <3>1. ASSUME NEW i \in 1..(Behind - 1) PROVE queue'[i] = puts - (Behind - 1) + i
      <4>1. i + 1 \in 1..Behind /\ i \in 1..Len(t)
        BY <1>1, <1>n DEF Behind
      <4>2. queue'[i] = queue[i + 1] /\ queue[i + 1] = puts - Behind + (i + 1)
        BY <1>a, <1>1, <4>1 DEF Numbered, QueueNumbered
      <4> QED BY <1>n, <4>2
    <3>2. puts' = puts
      BY <1>a
    <3> QED BY <2>5, <3>1, <3>2 DEF QueueNumbered
  <2>9. HandNumbered'
    <3>1. puts' = puts
      BY <1>a
    <3> QED BY <1>n, <2>2, <2>3, <2>5, <3>1 DEF HandNumbered
  <2>10. BufferNumbered' /\ FilesNumbered'
    BY <1>a, <2>7, FilesKeep DEF Numbered
  <2>11. ClosingAt'
    <3>1. Pilled' => queue' # <<>> /\ queue'[Len(queue')] = None
      <4> SUFFICES ASSUME Pilled PROVE t # <<>> /\ t[Len(t)] = None
        BY <1>a, <2>3
      <4>1. Len(queue) >= 2 /\ queue[Len(queue)] = None
        BY <1>n, <2>1 DEF Behind, ClosingAt
      <4>2. Len(t) \in 1..Len(t) /\ Len(t) + 1 = Len(queue)
        BY <1>1, <1>n, <4>1
      <4> QED BY <1>1, <4>1, <4>2
    <3> QED BY <1>a, <2>3, <3>1 DEF ClosingAt
  <2> QED BY <2>8, <2>9, <2>10, <2>11 DEF Numbered
<1>3. CASE h = None
  <2>1. Pilled /\ Len(queue) = 1 /\ Behind = 0
    <3>1. ASSUME Behind >= 1 PROVE FALSE
      <4>1. queue[1] = puts - Behind + 1
        BY <1>n, <3>1 DEF Numbered, QueueNumbered
      <4>2. queue[1] = 0
        BY <1>1, <1>3 DEF None
      <4> QED BY <1>b, <1>n, <4>1, <4>2
    <3> QED BY <1>1, <1>n, <3>1 DEF Behind
  <2>2. cons' = "ended" /\ queue' = <<>> /\ hand' = None /\ pc'[Closer] = "join"
    BY <1>a, <1>1, <1>3, <2>1 DEF Pilled
  <2>3. Behind' = 0 /\ ~Pilled'
    BY <2>2 DEF Behind, Pilled
  <2>4. InHand' = InHand
    BY <1>a, <2>2 DEF InHand
  <2>5. Gone' = Gone
    BY <1>a, <2>1, <2>3, <2>4 DEF Gone
  <2>6. QueueNumbered' /\ HandNumbered'
    BY <2>2, <2>3 DEF QueueNumbered, HandNumbered
  <2>7. BufferNumbered' /\ FilesNumbered'
    BY <1>a, <2>5, FilesKeep DEF Numbered
  <2>8. ClosingAt'
    BY <1>a, <2>2, <2>3 DEF ClosingAt
  <2> QED BY <2>6, <2>7, <2>8 DEF Numbered
<1> QED BY <1>2, <1>3

LEMMA AppendLineNumbers ==
  ASSUME TypeCorrect, FilesInTurn, ClosingAt, Numbered, Undrained, AppendLine
  PROVE  ClosingAt' /\ Numbered'
<1> DEFINE lines == Append(buffer, hand)
           b == Len(buffer)
<1>a. /\ cons = "append" /\ hand # None /\ hand' = None /\ cons' = "top"
      /\ UNCHANGED <<queue, puts, died, pc>>
  BY DEF AppendLine, TypeCorrect, HandAt, NewHandle
<1>1. /\ lines \in Seq(Entries) /\ Len(lines) = b + 1 /\ DOMAIN lines = 1..(b + 1)
      /\ \A i \in 1..b : lines[i] = buffer[i]
      /\ lines[b + 1] = hand
      /\ DOMAIN buffer = 1..b
  BY NumbersTyped
<1>n. /\ puts \in Nat /\ b \in Nat /\ Gone \in Nat /\ Behind \in Int /\ MaxLines \in Nat \ {0}
      /\ Len(InHand) = 1 /\ Len(InHand') = 0
  BY <1>a, NumbersTyped, HandLength, GoneBounds DEF Numbered, InHand
<1>2. Behind' = Behind /\ Pilled' = Pilled
  BY <1>a DEF Behind, Pilled
<1>3. hand = Gone + b + 1
  BY <1>a, <1>n DEF Numbered, HandNumbered, Gone
<1>4. ASSUME NEW i \in 1..(b + 1) PROVE lines[i] = Gone + i
  <2>1. CASE i \in 1..b
    BY <1>1, <2>1 DEF Numbered, BufferNumbered
  <2>2. CASE i = b + 1
    <3>1. lines[i] = hand
      BY <1>1, <2>2
    <3> QED BY <1>3, <1>n, <2>2, <3>1
  <2> QED BY <1>n, <2>1, <2>2
<1> HIDE DEF lines, b
<1>5. ClosingAt'
  BY <1>a, <1>2 DEF ClosingAt
<1>6. QueueNumbered' /\ HandNumbered'
  BY <1>a, <1>2 DEF Numbered, QueueNumbered, HandNumbered
<1>7. CASE Len(lines) < MaxLines /\ buffer' = lines /\ UNCHANGED <<files, index>>
  <2>1. Len(buffer') = b + 1
    BY <1>1, <1>7
  <2>2. Gone' = Gone
    <3>1. puts' = puts
      BY <1>a
    <3> QED BY <1>n, <1>2, <2>1, <3>1 DEF Gone, b
  <2>3. BufferNumbered'
    BY <1>1, <1>4, <1>7, <2>2 DEF BufferNumbered
  <2>4. FilesNumbered'
    <3>1. \A k : Turn(k)' = Turn(k)
      BY <1>7, TurnStays
    <3> QED BY <2>2, <3>1 DEF Numbered, FilesNumbered, RotatedTimes, Block
  <2> QED BY <1>5, <1>6, <2>3, <2>4 DEF Numbered
<1>8. CASE ~(Len(lines) < MaxLines) /\ Rotated(lines)
  <2>0. b < MaxLines
    BY DEF Undrained, b
  <2>1. b + 1 = MaxLines
    BY <1>1, <1>8, <1>n, <2>0
  <2>2. buffer' = <<>> /\ Len(buffer') = 0
    BY <1>8 DEF Rotated
  <2>3. Gone' = Gone + MaxLines
    <3>1. puts' = puts
      BY <1>a
    <3> QED BY <1>n, <1>2, <2>1, <2>2, <3>1 DEF Gone, b
  <2>4. PICK r \in Nat : RotatedTimes(r)
    BY DEF Numbered, FilesNumbered
  <2>5. lines = Block(r + 1)
    <3>1. \A i \in 1..MaxLines : lines[i] = (r + 1 - 1) * MaxLines + i
      BY <1>4, <2>1, <2>4, <1>n DEF RotatedTimes
    <3>2. DOMAIN lines = 1..MaxLines /\ lines = [i \in 1..(b + 1) |-> lines[i]]
      BY <1>1, <2>1
    <3> QED BY <3>1, <3>2, <2>1 DEF Block
  <2>6. RotatedTimes(r + 1)'
    <3>1. Gone' = (r + 1) * MaxLines
      BY <1>n, <2>3, <2>4 DEF RotatedTimes
    <3>2. ASSUME NEW k \in Files
          PROVE  Turn(k)' = IF r + 1 + k > MaxFiles THEN Block(r + 1 + k - MaxFiles) ELSE <<>>
      <4>0. MaxFiles \in Nat \ {0} /\ k \in Nat /\ k <= MaxFiles
        BY NumbersTyped DEF Files
      <4>1. CASE k < MaxFiles
        <5>1. k + 1 \in Files
          BY <4>0, <4>1 DEF Files
        <5>2. Turn(k)' = Turn(k + 1)
          BY <1>1, <1>8, <4>1, TurnRotated DEF TypeCorrect
        <5>3. Turn(k + 1) = IF r + (k + 1) > MaxFiles THEN Block(r + (k + 1) - MaxFiles) ELSE <<>>
          BY <2>4, <5>1 DEF RotatedTimes
        <5>4. r + (k + 1) = r + 1 + k /\ r + (k + 1) - MaxFiles = r + 1 + k - MaxFiles
          BY <4>0
        <5> QED BY <5>2, <5>3, <5>4
      <4>2. CASE k = MaxFiles
        <5>1. Turn(k)' = lines
          BY <1>1, <1>8, <4>2, TurnRotated DEF TypeCorrect
        <5>2. r + 1 + k > MaxFiles /\ r + 1 + k - MaxFiles = r + 1
          BY <4>0, <4>2
        <5> QED BY <2>5, <5>1, <5>2
      <4> QED BY <4>0, <4>1, <4>2
    <3> QED BY <3>1, <3>2 DEF RotatedTimes, Block
  <2>7. FilesNumbered'
    <3>1. r + 1 \in Nat
      OBVIOUS
    <3> QED BY <2>6, <3>1 DEF FilesNumbered
  <2>8. BufferNumbered'
    BY <2>2 DEF BufferNumbered
  <2> QED BY <1>5, <1>6, <2>7, <2>8 DEF Numbered
<1> QED BY <1>7, <1>8 DEF AppendLine, lines

LEMMA NumberedSteps ==
  ASSUME TypeCorrect, FilesInTurn, NotYet, PlacesAt, ClosingAt, Numbered, Next
  PROVE  ClosingAt' /\ Numbered'
<1>1. ASSUME ~Undrained' PROVE ClosingAt' /\ Numbered'
  BY <1>1 DEF ClosingAt, Numbered
<1> SUFFICES ASSUME Undrained' PROVE ClosingAt' /\ Numbered'
  BY <1>1
<1>2. /\ Undrained
      /\ \/ \E w \in Writers : Write(w) \/ PutLine(w) \/ ReportRaises(w)
         \/ Close /\ CleanDrain
         \/ Wait \/ Mark \/ LastPill
         \/ Joined(Closer) /\ clean /\ pc[Closer] = "join"
         \/ Loop \/ Take \/ AppendLine
  BY BeforeFailure
<1>3. CASE Rests
  BY <1>2, <1>3, RestsKeep
<1>4. NoDrain
  BY <1>2 DEF Undrained
<1>5. ASSUME NEW w \in Writers, Write(w) \/ PutLine(w) \/ ReportRaises(w) PROVE ClosingAt' /\ Numbered'
  <2>1. CASE PutLine(w) /\ ~died /\ ~Full
    BY <1>2, <2>1, PutLineNumbers
  <2>2. CASE ~(PutLine(w) /\ ~died /\ ~Full)
    BY <1>3, <1>4, <1>5, <2>2, RestSteps
  <2> QED BY <2>1, <2>2
<1>6. CASE (Close /\ CleanDrain) \/ Wait \/ Loop \/ (Joined(Closer) /\ clean /\ pc[Closer] = "join")
  BY <1>3, <1>4, <1>6, RestSteps
<1>7. CASE Mark \/ LastPill \/ Take \/ AppendLine
  BY <1>2, <1>7, MarkNumbers, LastPillNumbers, TakeNumbers, AppendLineNumbers
<1> QED BY <1>2, <1>5, <1>6, <1>7

\* The invariant behind StreamIntact and CleanCloseKeeps.
StreamInv == NotYet /\ PlacesAt /\ Running /\ ClosingAt /\ Numbered

LEMMA StreamStarts == Init => StreamInv
<1> SUFFICES ASSUME Init PROVE StreamInv
  OBVIOUS
<1>1. /\ queue = <<>> /\ puts = 0 /\ buffer = <<>> /\ hand = None /\ enders = 0 /\ cons = "top"
      /\ clean = FALSE /\ died = FALSE /\ stop = FALSE
      /\ \A a \in Actors : pc[a] = "idle"
  BY DEF Init
<1>2. pc[Closer] = "idle" /\ \A w \in Writers : pc[w] = "idle"
  BY <1>1 DEF Actors
<1>3. NotYet /\ PlacesAt /\ Running
  BY <1>1, <1>2 DEF NotYet, PlacesAt, Running, NoDrain, OnlyLines
<1>4. ClosingAt /\ Behind = 0 /\ Gone = 0 /\ Len(buffer) = 0 /\ DOMAIN buffer = {}
  <2>1. ~Pilled /\ Len(queue) = 0 /\ Len(buffer) = 0 /\ DOMAIN buffer = {} /\ Len(InHand) = 0
    BY <1>1, <1>2, HandLength DEF Pilled
  <2>2. ClosingAt /\ Behind = 0
    BY <1>1, <1>2, <2>1 DEF ClosingAt, Behind
  <2>3. puts = 0
    BY <1>1
  <2> QED BY <2>1, <2>2, <2>3 DEF Gone
<1>5. \A k \in Files : Turn(k) = <<>>
  BY <1>1, TypeStarts, PlaceIn, TurnPlace DEF TypeCorrect, Init
<1>6. RotatedTimes(0)
  BY <1>4, <1>5, FileBackendAssumption DEF RotatedTimes, Files
<1>7. Numbered
  BY <1>1, <1>4, <1>6 DEF Numbered, QueueNumbered, HandNumbered, BufferNumbered, FilesNumbered
<1> QED BY <1>3, <1>4, <1>7 DEF StreamInv

LEMMA StreamSteps == TypeCorrect /\ OrderInv /\ StreamInv /\ [Next]_vars => StreamInv'
<1> SUFFICES ASSUME TypeCorrect, OrderInv, StreamInv, [Next]_vars PROVE StreamInv'
  OBVIOUS
<1>1. CASE Next
  BY <1>1, NotYetSteps, PlacesAtSteps, RunningSteps, NumberedSteps DEF StreamInv, OrderInv
<1>2. CASE UNCHANGED vars
  <2>1. UNCHANGED <<queue, puts, died, stop, buffer, files, index, hand, cons, pc, clean, enders>>
    BY <1>2 DEF vars, sync, disk, ending
  <2>2. UNCHANGED <<NoDrain, Undrained, Pilled, Behind, InHand, Gone>> /\ \A k : Turn(k)' = Turn(k)
    BY <2>1 DEF NoDrain, Undrained, Pilled, Behind, InHand, Gone, Turn
  <2>3. NotYet' /\ PlacesAt' /\ Running'
    BY <2>1, <2>2 DEF StreamInv, NotYet, PlacesAt, Running, OnlyLines
  <2>4. ClosingAt'
    BY <2>1, <2>2 DEF StreamInv, ClosingAt
  <2>5. Numbered'
    BY <2>1, <2>2 DEF StreamInv, Numbered, QueueNumbered, HandNumbered, BufferNumbered, FilesNumbered, RotatedTimes, Block
  <2> QED BY <2>3, <2>4, <2>5 DEF StreamInv
<1> QED BY <1>1, <1>2

-----------------------------------------------------------------------------
(***************************************************************************)
(* FileBackend: the stream of lines.                                       *)
(***************************************************************************)
\* The n numbers behind number b.
Run(b, n) == [i \in 1..n |-> b + i]

LEMMA RunTyped == \A b, n \in Nat : Run(b, n) \in Seq(Nat) /\ Len(Run(b, n)) = n
<1> QED BY DEF Run

LEMMA RunsJoin ==
  ASSUME NEW b \in Nat, NEW n \in Nat, NEW m \in Nat
  PROVE  Run(b, n) \o Run(b + n, m) = Run(b, n + m)
<1> DEFINE s == Run(b, n)
           t == Run(b + n, m)
           u == s \o t
<1>1. /\ s \in Seq(Nat) /\ t \in Seq(Nat) /\ Len(s) = n /\ Len(t) = m
      /\ \A i \in 1..n : s[i] = b + i
      /\ \A i \in 1..m : t[i] = b + n + i
  BY RunTyped DEF Run
<1> HIDE DEF s, t
<1>2. /\ u \in Seq(Nat) /\ Len(u) = n + m
      /\ \A i \in 1..(n + m) : u[i] = IF i <= n THEN s[i] ELSE t[i - n]
  BY <1>1, ConcatProperties
<1> HIDE DEF u
<1>3. \A i \in 1..(n + m) : u[i] = b + i
  <2> SUFFICES ASSUME NEW i \in 1..(n + m) PROVE u[i] = b + i
    OBVIOUS
  <2>1. CASE i <= n
    BY <1>1, <1>2, <2>1
  <2>2. CASE ~(i <= n)
    <3>1. i - n \in 1..m /\ b + n + (i - n) = b + i
      BY <2>2
    <3> QED BY <1>1, <1>2, <2>2, <3>1
  <2> QED BY <2>1, <2>2
<1>4. u = [i \in 1..(n + m) |-> u[i]]
  BY <1>2
<1>5. u = Run(b, n + m)
  BY <1>3, <1>4 DEF Run
<1> QED BY <1>5 DEF u, s, t

\* A sequence of numbers that goes up by one.
LEMMA RunEqual ==
  ASSUME NEW S, NEW s \in Seq(S), NEW b \in Nat, \A i \in 1..Len(s) : s[i] = b + i
  PROVE  s = Run(b, Len(s))
<1>1. s = [i \in 1..Len(s) |-> s[i]]
  OBVIOUS
<1> QED BY <1>1 DEF Run

\* FlattenSeq is the last of the sequences f[i] that put the first i together.
LEMMA Flattened ==
  ASSUME NEW S, NEW n \in Nat \ {0}, NEW s \in [1..n -> Seq(S)], NEW f \in [1..n -> Seq(S)],
         f[1] = s[1], \A i \in 2..n : f[i] = f[i - 1] \o s[i]
  PROVE  FlattenSeq(s) = f[n]
<1> DEFINE step(g) == [i \in 1..n |-> IF i = 1 THEN s[i] ELSE g[i - 1] \o s[i]]
           flat == CHOOSE g : g = step(g)
<1>1. Len(s) = n /\ n # 0
  OBVIOUS
<1>2. FlattenSeq(s) = flat[n]
  BY <1>1 DEF FlattenSeq
<1>3. f = step(f)
  <2>1. \A i \in 1..n : f[i] = IF i = 1 THEN s[i] ELSE f[i - 1] \o s[i]
    <3> SUFFICES ASSUME NEW i \in 1..n PROVE f[i] = IF i = 1 THEN s[i] ELSE f[i - 1] \o s[i]
      OBVIOUS
    <3>1. CASE i = 1
      BY <3>1
    <3>2. CASE i # 1
      <4>1. i \in Nat /\ i >= 1 /\ i <= n /\ n \in Nat
        OBVIOUS
      <4>2. i \in 2..n
        BY <3>2, <4>1
      <4> QED BY <3>2, <4>2
    <3> QED BY <3>1, <3>2
  <2>2. f = [i \in 1..n |-> f[i]]
    OBVIOUS
  <2> QED BY <2>1, <2>2
<1>4. flat = step(flat)
  BY <1>3
<1> HIDE DEF flat
<1>5. \A i \in 1..n : flat[i] = IF i = 1 THEN s[i] ELSE flat[i - 1] \o s[i]
  BY <1>4
<1> DEFINE Same == {m \in Nat : m + 1 \in 1..n => flat[m + 1] = f[m + 1]}
<1>6. 0 \in Same
  BY <1>5
<1>7. ASSUME NEW m \in Nat, m \in Same PROVE m + 1 \in Same
  <2> SUFFICES ASSUME (m + 1) + 1 \in 1..n PROVE flat[(m + 1) + 1] = f[(m + 1) + 1]
    OBVIOUS
  <2>1. m + 1 \in 1..n /\ (m + 1) + 1 \in 2..n /\ (m + 1) + 1 # 1 /\ ((m + 1) + 1) - 1 = m + 1
    OBVIOUS
  <2>2. flat[m + 1] = f[m + 1]
    BY <1>7, <2>1
  <2>3. flat[(m + 1) + 1] = flat[m + 1] \o s[(m + 1) + 1]
    BY <1>5, <2>1
  <2>4. f[(m + 1) + 1] = f[m + 1] \o s[(m + 1) + 1]
    BY <2>1
  <2> QED BY <2>2, <2>3, <2>4
<1>8. \A m \in Nat : m \in Same
  <2> HIDE DEF Same
  <2> QED BY <1>6, <1>7, NatSets
<1>9. n - 1 \in Nat /\ (n - 1) + 1 = n /\ n \in 1..n
  OBVIOUS
<1>10. n - 1 \in Same
  BY <1>8, <1>9
<1> QED BY <1>2, <1>9, <1>10

\* After r rotations: the files that have not been written yet, the files that
\* have been overwritten, and the first k files from the oldest to the newest.
NotWritten(r) == IF r >= MaxFiles THEN 0 ELSE MaxFiles - r
Overwrote(r) == IF r >= MaxFiles THEN r - MaxFiles ELSE 0
WrittenOf(r, k) == IF k <= NotWritten(r) THEN 0 ELSE k - NotWritten(r)
Written(r, k) == Run(Overwrote(r) * MaxLines, WrittenOf(r, k) * MaxLines)

LEMMA Products ==
  ASSUME NEW x \in Nat, NEW y \in Nat, NEW m \in Nat
  PROVE  x * m \in Nat /\ (x + y) * m = x * m + y * m /\ 1 * m = m /\ 0 * m = 0 /\ x * m >= 0
<1> QED OBVIOUS

LEMMA RotationNumbers ==
  ASSUME NEW r \in Nat
  PROVE  /\ NotWritten(r) \in 0..MaxFiles /\ Overwrote(r) \in Nat /\ MaxFiles \in Nat \ {0}
         /\ r = Overwrote(r) + (MaxFiles - NotWritten(r))
         /\ \A k \in Files :
              /\ WrittenOf(r, k) \in Nat
              /\ r + k > MaxFiles <=> k > NotWritten(r)
              /\ k > NotWritten(r) => r + k - MaxFiles = Overwrote(r) + WrittenOf(r, k)
              /\ k - 1 \in Files /\ k > NotWritten(r) => WrittenOf(r, k) = WrittenOf(r, k - 1) + 1
              /\ k - 1 \in Files /\ ~(k > NotWritten(r)) => WrittenOf(r, k) = 0 /\ WrittenOf(r, k - 1) = 0
         /\ Overwrote(r) > 0 => NotWritten(r) = 0
<1> QED BY FileBackendAssumption DEF NotWritten, Overwrote, WrittenOf, Files

LEMMA FilesFlattened ==
  ASSUME TypeCorrect, NEW r \in Nat, RotatedTimes(r)
  PROVE  FlattenSeq([k \in Files |-> Turn(k)]) = Written(r, MaxFiles)
<1> DEFINE s == [k \in Files |-> Turn(k)]
           f == [k \in Files |-> Written(r, k)]
           v == Overwrote(r)
           w(k) == WrittenOf(r, k)
           none(k) == ~(k > NotWritten(r))
<1>1. MaxLines \in Nat \ {0} /\ MaxFiles \in Nat \ {0} /\ Files = 1..MaxFiles /\ v \in Nat
  BY FileBackendAssumption, RotationNumbers DEF Files
<1>2. \A k \in Files : w(k) \in Nat
  BY RotationNumbers
<1>3. ASSUME NEW k \in Files, none(k) PROVE Turn(k) = <<>>
  BY <1>3, RotationNumbers DEF RotatedTimes
<1>4. ASSUME NEW k \in Files, ~none(k)
      PROVE  w(k) - 1 \in Nat /\ Turn(k) = Run((v + (w(k) - 1)) * MaxLines, MaxLines)
  <2>1. w(k) - 1 \in Nat
    BY <1>1, <1>4 DEF WrittenOf, NotWritten
  <2>2. Turn(k) = Block(v + w(k))
    BY <1>4, RotationNumbers DEF RotatedTimes
  <2>3. (v + w(k)) - 1 = v + (w(k) - 1)
    BY <1>1, <1>2, <2>1
  <2> QED BY <2>1, <2>2, <2>3 DEF Block, Run
<1>5. \A k \in Files : Turn(k) \in Seq(Nat) /\ Written(r, k) \in Seq(Nat)
  <2> SUFFICES ASSUME NEW k \in Files PROVE Turn(k) \in Seq(Nat) /\ Written(r, k) \in Seq(Nat)
    OBVIOUS
  <2>1. v * MaxLines \in Nat /\ w(k) * MaxLines \in Nat
    BY <1>1, <1>2, Products
  <2>2. Written(r, k) \in Seq(Nat)
    BY <2>1, RunTyped DEF Written
  <2>3. CASE none(k)
    <3>1. <<>> \in Seq(Nat)
      OBVIOUS
    <3> QED BY <1>3, <2>2, <2>3, <3>1
  <2>4. CASE ~none(k)
    <3>1. v + (w(k) - 1) \in Nat
      BY <1>1, <1>4, <2>4
    <3>2. (v + (w(k) - 1)) * MaxLines \in Nat
      BY <1>1, <3>1, Products
    <3> QED BY <1>1, <1>4, <2>2, <2>4, <3>2, RunTyped
  <2> QED BY <2>3, <2>4
<1>6. s \in [1..MaxFiles -> Seq(Nat)] /\ f \in [1..MaxFiles -> Seq(Nat)]
  BY <1>1, <1>5
<1>0. NotWritten(r) \in Nat
  BY RotationNumbers
<1>7. 1 \in Files /\ f[1] = s[1]
  <2>1. 1 \in Files
    BY <1>1
  <2>2. CASE none(1)
    <3>1. w(1) = 0
      BY <1>0, <2>2 DEF WrittenOf
    <3>2. w(1) * MaxLines = 0
      BY <1>1, <3>1, Products
    <3>3. Written(r, 1) = <<>>
      BY <3>2 DEF Written, Run
    <3> QED BY <1>3, <2>1, <2>2, <3>3
  <2>3. CASE ~none(1)
    <3>1. w(1) = 1
      BY <1>0, <2>3 DEF WrittenOf
    <3>2. (v + (w(1) - 1)) * MaxLines = v * MaxLines /\ w(1) * MaxLines = MaxLines
      BY <1>1, <3>1
    <3> QED BY <1>4, <2>1, <2>3, <3>2 DEF Written
  <2> QED BY <2>1, <2>2, <2>3
<1>8. ASSUME NEW k \in 2..MaxFiles PROVE f[k] = f[k - 1] \o s[k]
  <2>1. k \in Files /\ k - 1 \in Files
    BY <1>1
  <2>2. f[k] = Written(r, k) /\ f[k - 1] = Written(r, k - 1) /\ s[k] = Turn(k)
    BY <2>1
  <2>3. CASE none(k)
    <3>1. Written(r, k) = Written(r, k - 1) /\ Turn(k) = <<>>
      BY <1>3, <2>1, <2>3, RotationNumbers DEF Written
    <3> QED BY <1>5, <2>1, <2>2, <3>1, ConcatEmptySeq
  <2>4. CASE ~none(k)
    <3>1. w(k) = w(k - 1) + 1 /\ w(k - 1) \in Nat /\ w(k) - 1 = w(k - 1)
      BY <1>2, <2>1, <2>4, RotationNumbers
    <3>2. /\ Turn(k) = Run(v * MaxLines + w(k - 1) * MaxLines, MaxLines)
          /\ Written(r, k) = Run(v * MaxLines, w(k - 1) * MaxLines + MaxLines)
      <4>1. (v + w(k - 1)) * MaxLines = v * MaxLines + w(k - 1) * MaxLines
        BY <1>1, <3>1, Products
      <4>2. w(k) * MaxLines = w(k - 1) * MaxLines + MaxLines
        BY <1>1, <3>1, Products
      <4> QED BY <1>4, <2>1, <2>4, <3>1, <4>1, <4>2 DEF Written
    <3>3. v * MaxLines \in Nat /\ w(k - 1) * MaxLines \in Nat
      BY <1>1, <3>1, Products
    <3>4. Written(r, k - 1) \o Turn(k) = Written(r, k)
      <4> DEFINE b == v * MaxLines
                 n == w(k - 1) * MaxLines
      <4>1. Written(r, k - 1) = Run(b, n) /\ Turn(k) = Run(b + n, MaxLines) /\ Written(r, k) = Run(b, n + MaxLines)
        BY <3>2 DEF Written
      <4>2. b \in Nat /\ n \in Nat /\ MaxLines \in Nat
        BY <1>1, <3>3
      <4> HIDE DEF b, n
      <4>3. Run(b, n) \o Run(b + n, MaxLines) = Run(b, n + MaxLines)
        BY <4>2, RunsJoin
      <4> QED BY <4>1, <4>3
    <3> QED BY <2>2, <3>4
  <2> QED BY <2>3, <2>4
<1> HIDE DEF s, f
<1>9. FlattenSeq(s) = f[MaxFiles]
  BY <1>1, <1>6, <1>7, <1>8, Flattened
<1>10. f[MaxFiles] = Written(r, MaxFiles)
  BY <1>1 DEF f
<1> QED BY <1>9, <1>10 DEF s

\* Until a drain begins or a rotation fails, and with no pill in the queue, the
\* stream has no gap.
LEMMA UndrainedGapless ==
  ASSUME TypeCorrect, Numbered, Undrained, ~Pilled
  PROVE  Gapless
<1>1. PICK r \in Nat : RotatedTimes(r)
  BY DEF Numbered, FilesNumbered
<1> DEFINE v == Overwrote(r)
           w == WrittenOf(r, MaxFiles)
           b == v * MaxLines
           disc == w * MaxLines
           F == FlattenSeq([k \in Files |-> Turn(k)])
           q == Len(queue)
           l == Len(buffer)
           h == Len(InHand)
<1>2. F = Run(b, disc)
  BY <1>1, FilesFlattened DEF Written
<1>3. /\ MaxLines \in Nat \ {0} /\ MaxFiles \in Nat \ {0} /\ v \in Nat /\ MaxFiles \in Files
      /\ q \in Nat /\ l \in Nat /\ h \in Nat /\ puts \in Nat
  <2>1. MaxLines \in Nat \ {0} /\ MaxFiles \in Nat \ {0} /\ MaxFiles \in Files
    BY FileBackendAssumption DEF Files
  <2>2. v \in Nat
    BY RotationNumbers
  <2> QED BY <2>1, <2>2, NumbersTyped
<1>5. w \in Nat /\ v + w = r /\ (v > 0 => w = MaxFiles)
  <2>1. w = MaxFiles - NotWritten(r)
    BY <1>3 DEF WrittenOf, NotWritten
  <2> QED BY <1>3, <2>1, RotationNumbers
<1>4. b \in Nat /\ disc \in Nat /\ (v = 0 => b = 0) /\ r * MaxLines = b + disc
  <2> HIDE DEF v, w
  <2> QED BY <1>3, <1>5, Products
<1>6. /\ queue \in Seq(Entries) /\ buffer \in Seq(Entries)
      /\ \A i \in 1..q : queue[i] = puts - q + i
      /\ \A i \in 1..l : buffer[i] = Gone + i
      /\ hand # None => hand = puts - q
      /\ Gone = puts - q - h - l
      /\ Gone = r * MaxLines
  <2>1. Behind = q
    BY DEF Behind
  <2>2. DOMAIN buffer = 1..l
    BY NumbersTyped
  <2> QED BY <1>1, <2>1, <2>2, NumbersTyped DEF Numbered, QueueNumbered, HandNumbered, BufferNumbered, Gone, RotatedTimes
<1>7. InHand = (IF hand = None THEN <<>> ELSE <<hand>>) /\ h = IF hand = None THEN 0 ELSE 1
  BY HandLength DEF InHand
<1>8. v > 0 => disc = MaxFiles * MaxLines
  BY <1>5
<1> HIDE DEF v, w, b, disc, F, q, l, h
<1>9. Gone = b + disc /\ puts - q = b + disc + l + h /\ puts = b + (disc + l + h + q)
  BY <1>3, <1>4, <1>6
<1>10. buffer = Run(b + disc, l)
  <2>1. b + disc \in Nat /\ \A i \in 1..l : buffer[i] = b + disc + i
    BY <1>4, <1>6, <1>9
  <2> QED BY <1>6, <2>1, RunEqual DEF l
<1>11. InHand = Run(b + disc + l, h)
  <2>1. CASE hand = None
    BY <1>7, <2>1 DEF Run
  <2>2. CASE hand # None
    <3>1. hand = b + disc + l + 1 /\ b + disc + l \in Nat
      BY <1>3, <1>4, <1>6, <1>7, <1>9, <2>2
    <3>2. InHand = <<hand>> /\ h = 1
      BY <1>7, <2>2
    <3>3. InHand \in Seq({hand}) /\ Len(InHand) = 1 /\ \A i \in 1..Len(InHand) : InHand[i] = b + disc + l + i
      BY <3>1, <3>2
    <3> QED BY <3>1, <3>2, <3>3, RunEqual
  <2> QED BY <2>1, <2>2
<1>12. queue = Run(b + disc + l + h, q)
  <2>1. b + disc + l + h \in Nat
    BY <1>3, <1>4
  <2>2. \A i \in 1..q : queue[i] = b + disc + l + h + i
    BY <1>6, <1>9
  <2> QED BY <1>6, <2>1, <2>2, RunEqual DEF q
<1>13. F \o buffer = Run(b, disc + l)
  <2>1. b \in Nat /\ disc \in Nat /\ l \in Nat
    BY <1>3, <1>4
  <2>2. Run(b, disc) \o Run(b + disc, l) = Run(b, disc + l)
    BY <2>1, RunsJoin
  <2> QED BY <1>2, <1>10, <2>2
<1>14. (F \o buffer) \o InHand = Run(b, disc + l + h)
  <2>1. b \in Nat /\ h \in Nat /\ disc + l \in Nat /\ b + (disc + l) = b + disc + l
    BY <1>3, <1>4
  <2>2. Run(b, disc + l) \o Run(b + (disc + l), h) = Run(b, (disc + l) + h)
    BY <2>1, RunsJoin
  <2> QED BY <1>11, <1>13, <2>1, <2>2
<1>15. ((F \o buffer) \o InHand) \o queue = Run(b, disc + l + h + q)
  <2>1. b \in Nat /\ q \in Nat /\ disc + l + h \in Nat /\ b + (disc + l + h) = b + disc + l + h
    BY <1>3, <1>4
  <2>2. Run(b, disc + l + h) \o Run(b + (disc + l + h), q) = Run(b, (disc + l + h) + q)
    BY <2>1, RunsJoin
  <2> QED BY <1>12, <1>14, <2>1, <2>2
<1> DEFINE n == disc + l + h + q
<1>16. Stream = Run(b, n)
  BY <1>15 DEF Stream, F
<1>17. n \in Nat /\ n >= disc
  BY <1>3, <1>4
<1>18. puts = b + n
  BY <1>9
<1> HIDE DEF n
<1>19. Len(Stream) = n /\ puts - n = b
  BY <1>4, <1>16, <1>17, <1>18, RunTyped
<1>20. n < puts => n >= MaxFiles * MaxLines
  BY <1>3, <1>4, <1>8, <1>17, <1>18
<1>21. Stream = [i \in 1..n |-> puts - n + i]
  BY <1>16, <1>19 DEF Run
<1> QED BY <1>19, <1>20, <1>21 DEF Gapless

LEMMA StreamInvIntact == TypeCorrect /\ OrderInv /\ StreamInv => StreamIntact
<1> SUFFICES ASSUME TypeCorrect, OrderInv, StreamInv, ~stop, ~died PROVE Gapless
  BY DEF StreamIntact
<1>1. NoDrain /\ cons # "ended" /\ pc[Closer] \in {"idle", "wait", "mark"}
  BY DEF StreamInv, Running
<1>2. Undrained /\ ~Pilled
  BY <1>1 DEF Undrained, Pilled, OrderInv, FilesInTurn
<1> QED BY <1>2, UndrainedGapless DEF StreamInv

LEMMA StreamInvKept == TypeCorrect /\ OrderInv /\ StreamInv => CleanCloseKeeps
<1> SUFFICES ASSUME TypeCorrect, OrderInv, StreamInv, pc[Closer] = "closed", clean, Alone, Len(buffer) < MaxLines
             PROVE  Gapless /\ queue = <<>>
  BY DEF CleanCloseKeeps
<1>1. NoDrain
  BY DEF StreamInv, NotYet, Alone, NoDrain, TypeCorrect, TypeOK
<1>2. cons = "ended"
  BY NumbersTyped DEF OrderInv, JoinedLast, AfterJoin
<1>3. Undrained /\ ~Pilled /\ queue = <<>>
  BY <1>1, <1>2 DEF Undrained, Pilled, StreamInv, ClosingAt
<1> QED BY <1>3, UndrainedGapless DEF StreamInv

\* Until a drain begins or the disk fails, the files, the buffer and the queue hold
\* the lines that write accepted last, in order and without a gap, for every number
\* of writers and every size of the queue, the files and the rotation.
THEOREM StreamIsIntact == Spec => []StreamIntact
<1>1. Spec => [](TypeCorrect /\ OrderInv /\ StreamInv)
  BY TypeStarts, TypeSteps, OrderStarts, OrderSteps, StreamStarts, StreamSteps, PTL DEF Spec
<1> QED BY <1>1, StreamInvIntact, PTL

\* A clean close that is alone, and in which no rotation failed, leaves no line in
\* the queue and loses none that the rotation does not overwrite.
THEOREM CleanCloseIsKept == Spec => []CleanCloseKeeps
<1>1. Spec => [](TypeCorrect /\ OrderInv /\ StreamInv)
  BY TypeStarts, TypeSteps, OrderStarts, OrderSteps, StreamStarts, StreamSteps, PTL DEF Spec
<1> QED BY <1>1, StreamInvKept, PTL

=============================================================================

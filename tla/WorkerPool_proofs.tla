-------------------------- MODULE WorkerPool_proofs --------------------------
(***************************************************************************)
(* Proofs about WorkerPool, for every number of pools, tasks and places.   *)
(***************************************************************************)
EXTENDS WorkerPool, FiniteSetTheorems, SequenceTheorems, TLAPS

\* The tasks of m that threads of their own start, and the threads that are about
\* to put a worker into its table.
Late(m) == {t \in later : runner[t] = m}
Inserting(m) == {c \in Threads : pc[c] = "insert" /\ runner[Holds(c)] = m}

\* Who is about to insert has a task: the client's, or that of the thread.
HasTask == \A c \in Threads : pc[c] = "insert" => Holds(c) \in Tasks /\ (c = Client \/ c \in later)

\* Threads on their way to a table count as if they were in it.
Counted ==
    \A m \in Managers :
        Cardinality(workers[m]) + Cardinality(Inserting(m)) <= limit[m] + Cardinality(Late(m))

IInv == TypeOK /\ HasTask /\ Counted /\ SilentOnlyWhenFull

-----------------------------------------------------------------------------
LEMMA OneMore ==
  ASSUME NEW S, NEW x, IsFiniteSet(S)
  PROVE  /\ IsFiniteSet(S \cup {x})
         /\ Cardinality(S \cup {x}) <= Cardinality(S) + 1
         /\ Cardinality(S) <= Cardinality(S \cup {x})
<1>1. Cardinality(S) \in Nat
  BY FS_CardinalityType
<1>2. /\ IsFiniteSet(S \cup {x})
      /\ Cardinality(S \cup {x}) = IF x \in S THEN Cardinality(S) ELSE Cardinality(S) + 1
  BY FS_AddElement
<1> QED BY <1>1, <1>2

\* Every set that is counted is finite.
LEMMA Finite ==
  ASSUME TypeOK
  PROVE  /\ Tasks = 1..Len(runner) /\ Len(runner) \in Nat
         /\ Managers = 1..Len(limit) /\ Len(limit) \in Nat
         /\ \A S \in SUBSET Tasks : IsFiniteSet(S) /\ Cardinality(S) \in Nat
         /\ \A S \in SUBSET Threads : IsFiniteSet(S) /\ Cardinality(S) \in Nat
<1>1. /\ Tasks = 1..Len(runner) /\ Len(runner) \in Nat
      /\ Managers = 1..Len(limit) /\ Len(limit) \in Nat
  BY LenProperties DEF TypeOK, Tasks, Managers
<1>2. IsFiniteSet(Tasks) /\ IsFiniteSet(Threads)
  BY <1>1, FS_Interval, WorkerPoolAssumption DEF Threads, Client
<1> QED BY <1>1, <1>2, FS_Subset, FS_CardinalityType

LEMMA InitInv == Init => IInv
<1> SUFFICES ASSUME Init PROVE IInv
  OBVIOUS
<1> USE WorkerPoolAssumption DEF Init, Managers, Tasks, Threads, Client
<1>1. TypeOK
  BY DEF TypeOK
<1>2. HasTask /\ Counted /\ SilentOnlyWhenFull
  BY DEF HasTask, Counted, SilentOnlyWhenFull
<1> QED BY <1>1, <1>2 DEF IInv

-----------------------------------------------------------------------------
\* add_pool: a new, empty table with room in it.
LEMMA AddPoolInv == ASSUME IInv, NEW asked \in Asked, AddPool(asked) PROVE IInv'
<1> DEFINE n == Len(limit) + 1
<1>0. TypeOK /\ HasTask /\ Counted /\ SilentOnlyWhenFull
  BY DEF IInv
<1>1. /\ Tasks' = Tasks /\ Managers = 1..Len(limit) /\ Managers' = 1..n /\ Len(limit) \in Nat
      /\ limit' \in Seq(Nat) /\ limit'[n] = DefaultParallel
      /\ \A m \in Managers : limit'[m] = limit[m]
  <2>1. Managers = 1..Len(limit) /\ Len(limit) \in Nat /\ limit \in Seq(Nat)
    BY <1>0, Finite DEF TypeOK
  <2>2. limit' = Append(limit, DefaultParallel) /\ DefaultParallel \in Nat
    BY WorkerPoolAssumption DEF AddPool
  <2>3. /\ limit' \in Seq(Nat) /\ Len(limit') = n /\ limit'[n] = DefaultParallel
        /\ \A m \in 1..Len(limit) : limit'[m] = limit[m]
    BY <2>1, <2>2, AppendProperties
  <2>4. Managers' = 1..n
    BY <2>3, LenProperties DEF Managers
  <2>5. Tasks' = Tasks
    BY DEF AddPool, tasks, Tasks
  <2> QED BY <2>1, <2>3, <2>4, <2>5
<1>3. /\ workers' \in [Managers' -> SUBSET Tasks] /\ workers'[n] = {}
      /\ \A m \in Managers : workers'[m] = workers[m]
  <2> DEFINE S == SUBSET Tasks
             e == {}
             k == Len(limit)
  <2>1. workers \in [1..k -> S] /\ e \in S /\ k \in Nat
    BY <1>0, <1>1 DEF TypeOK
  <2>2. workers' = Append(workers, e)
    BY DEF AddPool
  <2>3. Managers' = 1..k + 1 /\ Managers = 1..k /\ n = k + 1
    BY <1>1
  <2> HIDE DEF S, e, k, n
  <2>4. workers \in Seq(S) /\ Len(workers) = k
    BY <2>1
  <2>5. /\ workers' \in Seq(S) /\ Len(workers') = k + 1 /\ workers'[k + 1] = e
        /\ \A m \in 1..k : workers'[m] = workers[m]
    BY <2>1, <2>2, <2>4, AppendProperties
  <2>6. workers' \in [1..k + 1 -> S]
    BY <2>5, LenProperties
  <2> QED BY <2>3, <2>5, <2>6 DEF S, e
<1>4. /\ pending' \in [Managers' -> Seq(Tasks)] /\ pending'[n] = <<>>
      /\ \A m \in Managers : pending'[m] = pending[m]
  <2> DEFINE S == Seq(Tasks)
             e == <<>>
             k == Len(limit)
  <2>1. pending \in [1..k -> S] /\ e \in S /\ k \in Nat
    BY <1>0, <1>1 DEF TypeOK
  <2>2. pending' = Append(pending, e)
    BY DEF AddPool
  <2>3. Managers' = 1..k + 1 /\ Managers = 1..k /\ n = k + 1
    BY <1>1
  <2> HIDE DEF S, e, k, n
  <2>4. pending \in Seq(S) /\ Len(pending) = k
    BY <2>1
  <2>5. /\ pending' \in Seq(S) /\ Len(pending') = k + 1 /\ pending'[k + 1] = e
        /\ \A m \in 1..k : pending'[m] = pending[m]
    BY <2>1, <2>2, <2>4, AppendProperties
  <2>6. pending' \in [1..k + 1 -> S]
    BY <2>5, LenProperties
  <2> QED BY <2>3, <2>5, <2>6 DEF S, e
<1>5. UNCHANGED <<runner, later, running, pc, hand>> /\ \A c : Holds(c)' = Holds(c)
  BY DEF AddPool, tasks, Holds
<1>6. TypeOK'
  <2>1. runner' \in Seq(Managers')
    BY <1>0, <1>1, <1>5, SeqMonotonic DEF TypeOK
  <2> QED BY <1>0, <1>1, <1>3, <1>4, <1>5, <2>1 DEF TypeOK
<1>7. HasTask'
  BY <1>0, <1>1, <1>5 DEF HasTask
<1>8. Counted'
  <2> SUFFICES ASSUME NEW m \in Managers'
               PROVE  Cardinality(workers'[m]) + Cardinality(Inserting(m)')
                        <= limit'[m] + Cardinality(Late(m)')
    BY DEF Counted
  <2>1. Inserting(m)' = Inserting(m) /\ Late(m)' = Late(m)
    BY <1>5 DEF Inserting, Late
  <2>2. CASE m \in Managers
    BY <1>0, <1>1, <1>3, <2>1, <2>2 DEF Counted
  <2>3. CASE m = n
    <3>1. Inserting(m) = {}
      BY <1>0, <1>1, <2>3, Finite, ElementOfSeq DEF Inserting, HasTask, TypeOK
    <3>2. Cardinality(Late(m)) \in Nat
      BY <1>0, Finite DEF Late, TypeOK
    <3>3. Cardinality(workers'[m]) = 0 /\ Cardinality(Inserting(m)') = 0
      BY <1>3, <2>1, <2>3, <3>1, FS_EmptySet
    <3>4. limit'[m] \in Nat
      BY <1>1, <2>3, WorkerPoolAssumption
    <3> QED BY <2>1, <3>2, <3>3, <3>4
  <2> QED BY <1>1, <2>2, <2>3
<1>9. SilentOnlyWhenFull'
  <2>1. \A t \in running' : Contains(pending'[runner'[t]], t)
    BY <1>0, <1>1, <1>4, <1>5, Finite, ElementOfSeq DEF SilentOnlyWhenFull, TypeOK
  <2>2. \A m \in Managers' : pending'[m] # <<>> => Full(m)'
    <3> SUFFICES ASSUME NEW m \in Managers', pending'[m] # <<>>
                 PROVE  Cardinality(workers'[m]) >= limit'[m]
      BY DEF Full
    <3>1. m \in Managers
      BY <1>1, <1>4
    <3> QED BY <1>0, <1>1, <1>3, <1>4, <3>1 DEF SilentOnlyWhenFull, Full
  <2> QED BY <2>1, <2>2 DEF SilentOnlyWhenFull, Full
<1> QED BY <1>6, <1>7, <1>8, <1>9 DEF IInv

\* Hydration: a task more, which can only raise what a manager may count.
LEMMA HydrateInv == ASSUME IInv, NEW isLater \in BOOLEAN, Hydrate(isLater) PROVE IInv'
<1> DEFINE n == Len(runner) + 1
<1>0. TypeOK /\ HasTask /\ Counted /\ SilentOnlyWhenFull
  BY DEF IInv
<1>1. Len(limit) \in Managers
  <2>1. Len(limit) # 0
    BY <1>0 DEF Hydrate, TypeOK
  <2> QED BY <1>0, <2>1, Finite
<1>2. /\ Tasks = 1..Len(runner) /\ Tasks' = 1..n /\ Len(runner) \in Nat /\ Len(runner') = n
      /\ runner' \in Seq(Managers)
      /\ \A t \in Tasks : runner'[t] = runner[t]
  BY <1>0, <1>1, Finite, AppendProperties, LenProperties DEF Hydrate, TypeOK, Tasks
<1>3. UNCHANGED <<limit, workers, pending, running, pc, hand>> /\ \A c : Holds(c)' = Holds(c)
  BY DEF Hydrate, managers, Holds
<1>4. Tasks \subseteq Tasks' /\ Managers' = Managers /\ later \subseteq later' /\ later' \subseteq Tasks'
  <2>1. Tasks \subseteq Tasks' /\ n \in Tasks'
    BY <1>2
  <2>2. later' = later \/ later' = later \cup {n}
    BY DEF Hydrate
  <2>3. later \subseteq Tasks /\ Managers' = Managers
    BY <1>0, <1>3 DEF TypeOK, Managers
  <2> QED BY <2>1, <2>2, <2>3
<1>5. TypeOK'
  <2>1. pending' \in [Managers' -> Seq(Tasks')]
    BY <1>0, <1>3, <1>4, SeqMonotonic DEF TypeOK
  <2>2. Len(runner') <= MaxTasks
    BY <1>2, WorkerPoolAssumption DEF Hydrate
  <2>3. hand' \in 0..Len(runner')
    BY <1>0, <1>2, <1>3 DEF TypeOK
  <2> QED BY <1>0, <1>2, <1>3, <1>4, <2>1, <2>2, <2>3 DEF TypeOK
<1>6. HasTask'
  BY <1>0, <1>3, <1>4 DEF HasTask
<1>7. Counted'
  <2> SUFFICES ASSUME NEW m \in Managers
               PROVE  Cardinality(workers[m]) + Cardinality(Inserting(m)')
                        <= limit[m] + Cardinality(Late(m)')
    BY <1>3, <1>4 DEF Counted
  <2>1. Inserting(m)' = Inserting(m)
    BY <1>0, <1>2, <1>3 DEF Inserting, HasTask
  <2>2. Late(m) \subseteq Late(m)'
    BY <1>0, <1>2, <1>4 DEF Late, TypeOK
  <2>3. IsFiniteSet(Late(m)') /\ Cardinality(Late(m)') \in Nat
    <3>1. Late(m)' \in SUBSET Tasks'
      BY <1>4 DEF Late
    <3>2. IsFiniteSet(Tasks')
      BY <1>2, FS_Interval
    <3> QED BY <3>1, <3>2, FS_Subset, FS_CardinalityType
  <2>4. Cardinality(Late(m)) <= Cardinality(Late(m)')
    BY <2>2, <2>3, FS_Subset
  <2>5. /\ Cardinality(Late(m)) \in Nat /\ Cardinality(workers[m]) \in Nat
        /\ Cardinality(Inserting(m)) \in Nat /\ limit[m] \in Nat
    BY <1>0, Finite, ElementOfSeq DEF Late, Inserting, TypeOK
  <2> QED BY <1>0, <2>1, <2>3, <2>4, <2>5 DEF Counted
<1>8. SilentOnlyWhenFull'
  <2>1. \A t \in running' : Contains(pending'[runner'[t]], t)
    BY <1>0, <1>2, <1>3 DEF SilentOnlyWhenFull, TypeOK
  <2>2. \A m \in Managers' : pending'[m] # <<>> => Full(m)'
    BY <1>0, <1>3, <1>4 DEF SilentOnlyWhenFull, Full
  <2> QED BY <2>1, <2>2 DEF SilentOnlyWhenFull, Full
<1> QED BY <1>5, <1>6, <1>7, <1>8 DEF IInv

-----------------------------------------------------------------------------
\* add_worker, in the client's thread (where it comes with the transition of the
\* pipeline) or in that of the task: it finds the table full, or counts as if it
\* had its place.
LEMMA AddWorkerInv ==
  ASSUME IInv, NEW c \in Threads, NEW t \in Tasks, NEW w \in {"idle", "ended"},
         pc[c] # "insert", AddWorker(c, t, w), UNCHANGED <<limit, workers, tasks>>,
         \/ c = Client /\ hand' = t
         \/ c = t /\ c # Client /\ c \in later /\ hand' = hand,
         running' = IF c = Client /\ Full(runner[t]) THEN running \cup {t} ELSE running
  PROVE  IInv'
<1> DEFINE m == runner[t]
<1>0. TypeOK /\ HasTask /\ Counted /\ SilentOnlyWhenFull
  BY DEF IInv
<1>1. m \in Managers
  BY <1>0, Finite, ElementOfSeq DEF TypeOK
<1>2. /\ UNCHANGED <<limit, workers, runner, later>>
      /\ Tasks' = Tasks /\ Managers' = Managers
      /\ \A x : Late(x)' = Late(x)
  BY DEF tasks, Tasks, Managers, Late
<1>3. Holds(c)' = t /\ \A d \in Threads \ {c} : Holds(d)' = Holds(d)
  BY DEF Holds
<1>4. hand' \in 0..Len(runner')
  BY <1>0, <1>2, Finite DEF TypeOK
<1>5. running' \subseteq Tasks'
  BY <1>0, <1>2 DEF TypeOK
<1>6. CASE Full(m)
  <2>1. /\ pending' = [pending EXCEPT ![m] = Append(@, t)]
        /\ pc' = [pc EXCEPT ![c] = w]
    BY <1>6 DEF AddWorker
  <2>2. pending[m] \in Seq(Tasks) /\ pending'[m] = Append(pending[m], t)
    BY <1>0, <1>1, <2>1 DEF TypeOK
  <2>3. /\ pending'[m] \in Seq(Tasks) /\ Len(pending'[m]) = Len(pending[m]) + 1
        /\ \A i \in 1..Len(pending[m]) : pending'[m][i] = pending[m][i]
        /\ pending'[m][Len(pending[m]) + 1] = t
        /\ Len(pending[m]) \in Nat
    BY <2>2, AppendProperties, LenProperties
  <2>4. \A x \in Managers \ {m} : pending'[x] = pending[x]
    BY <1>0, <2>1 DEF TypeOK
  <2>5. pending' \in [Managers' -> Seq(Tasks')]
    BY <1>0, <1>1, <1>2, <2>1, <2>2, <2>3 DEF TypeOK
  <2>6. TypeOK'
    BY <1>0, <1>2, <1>4, <1>5, <2>1, <2>5 DEF TypeOK
  <2>7. \A d \in Threads : pc'[d] = "insert" <=> pc[d] = "insert"
    BY <1>0, <2>1 DEF TypeOK
  <2>8. HasTask'
    BY <1>0, <1>2, <1>3, <2>7 DEF HasTask
  <2>9. \A x : Inserting(x)' = Inserting(x)
    BY <1>2, <1>3, <2>7 DEF Inserting
  <2>10. Counted'
    BY <1>0, <1>2, <2>9 DEF Counted
  <2>11. \A u \in running' : Contains(pending'[runner'[u]], u)
    <3> SUFFICES ASSUME NEW u \in running' PROVE Contains(pending'[runner[u]], u)
      BY <1>2
    <3>1. CASE u = t
      BY <2>3, <3>1 DEF Contains
    <3>2. CASE u # t
      <4>1. u \in running /\ runner[u] \in Managers /\ Contains(pending[runner[u]], u)
        BY <1>0, <3>2, Finite, ElementOfSeq DEF TypeOK, SilentOnlyWhenFull
      <4>2. CASE runner[u] = m
        BY <2>3, <4>1, <4>2 DEF Contains
      <4>3. CASE runner[u] # m
        BY <2>4, <4>1, <4>3 DEF Contains
      <4> QED BY <4>2, <4>3
    <3> QED BY <3>1, <3>2
  <2>12. \A x \in Managers' : pending'[x] # <<>> => Full(x)'
    BY <1>0, <1>2, <1>6, <2>4 DEF SilentOnlyWhenFull, Full
  <2> QED BY <2>6, <2>8, <2>10, <2>11, <2>12 DEF IInv, SilentOnlyWhenFull, Full
<1>7. CASE ~Full(m)
  <2>1. pc' = [pc EXCEPT ![c] = "insert"] /\ pending' = pending /\ running' = running
    BY <1>7 DEF AddWorker
  <2>2. TypeOK'
    BY <1>0, <1>2, <1>4, <1>5, <2>1 DEF TypeOK
  <2>3. pc'[c] = "insert" /\ \A d \in Threads \ {c} : pc'[d] = pc[d]
    BY <1>0, <2>1 DEF TypeOK
  <2>4. HasTask'
    BY <1>0, <1>2, <1>3, <2>3 DEF HasTask
  <2>5. Counted'
    <3> SUFFICES ASSUME NEW x \in Managers
                 PROVE  Cardinality(workers[x]) + Cardinality(Inserting(x)')
                          <= limit[x] + Cardinality(Late(x))
      BY <1>2 DEF Counted
    <3>1. CASE x # m
      <4>1. Inserting(x)' = Inserting(x)
        BY <1>2, <1>3, <2>3, <3>1 DEF Inserting
      <4> QED BY <1>0, <4>1 DEF Counted
    <3>2. CASE x = m
      <4>1. Inserting(m)' \subseteq Late(m) \cup {Client}
        <5> SUFFICES ASSUME NEW d \in Inserting(m)', d # Client PROVE d \in Late(m)
          OBVIOUS
        <5>1. d \in Threads /\ pc'[d] = "insert" /\ runner[Holds(d)'] = m
          BY <1>2 DEF Inserting
        <5>2. d \in later
          BY <1>2, <2>4, <5>1 DEF HasTask
        <5>3. Holds(d)' = d
          BY DEF Holds
        <5> QED BY <5>1, <5>2, <5>3 DEF Late
      <4>2. IsFiniteSet(Late(m)) /\ Cardinality(Late(m)) \in Nat
        BY <1>0, Finite DEF TypeOK, Late
      <4>3. /\ IsFiniteSet(Late(m) \cup {Client})
            /\ Cardinality(Late(m) \cup {Client}) <= Cardinality(Late(m)) + 1
        BY <4>2, OneMore
      <4>4. /\ Cardinality(Inserting(m)') <= Cardinality(Late(m) \cup {Client})
            /\ Cardinality(Inserting(m)') \in Nat /\ Cardinality(Late(m) \cup {Client}) \in Nat
        BY <4>1, <4>3, FS_Subset, FS_CardinalityType
      <4>5. Cardinality(workers[m]) \in Nat /\ limit[m] \in Nat
        BY <1>0, <1>1, Finite, ElementOfSeq DEF TypeOK
      <4>6. Cardinality(workers[m]) < limit[m]
        BY <1>7, <4>5 DEF Full
      <4>7. Cardinality(workers[m]) + Cardinality(Inserting(m)') <= limit[m] + Cardinality(Late(m))
        BY <4>2, <4>3, <4>4, <4>5, <4>6
      <4> QED BY <1>2, <3>2, <4>7
    <3> QED BY <3>1, <3>2
  <2>6. SilentOnlyWhenFull'
    BY <1>0, <1>2, <2>1 DEF SilentOnlyWhenFull, Full
  <2> QED BY <2>2, <2>4, <2>5, <2>6 DEF IInv
<1> QED BY <1>6, <1>7

-----------------------------------------------------------------------------
\* reset_worker_instance: what was on its way has arrived.
LEMMA InsertWorkerInv ==
  ASSUME IInv, NEW c \in Threads, InsertWorker(c)
  PROVE  IInv'
<1> DEFINE t == Holds(c)
           m == runner[t]
<1>0. TypeOK /\ HasTask /\ Counted /\ SilentOnlyWhenFull
  BY DEF IInv
<1>1. t \in Tasks /\ m \in Managers
  BY <1>0, Finite, ElementOfSeq DEF TypeOK, HasTask, InsertWorker
<1>2. /\ UNCHANGED <<limit, pending, runner, later, running, hand>>
      /\ Tasks' = Tasks /\ Managers' = Managers
      /\ \A x : Late(x)' = Late(x) /\ Holds(x)' = Holds(x)
  BY DEF InsertWorker, tasks, Tasks, Managers, Late, Holds
<1>3. /\ workers' \in [Managers -> SUBSET Tasks] /\ workers'[m] = workers[m] \cup {t}
      /\ \A x \in Managers \ {m} : workers'[x] = workers[x]
  BY <1>0, <1>1 DEF InsertWorker, TypeOK
<1>4. /\ pc' \in [Threads -> {"idle", "insert", "ended"}] /\ pc[c] = "insert" /\ pc'[c] # "insert"
      /\ \A d \in Threads \ {c} : pc'[d] = pc[d]
  BY <1>0 DEF InsertWorker, TypeOK
<1>5. TypeOK'
  BY <1>0, <1>2, <1>3, <1>4 DEF TypeOK
<1>6. HasTask'
  BY <1>0, <1>2, <1>4 DEF HasTask
<1>7. \A x \in Managers :
        IsFiniteSet(workers[x]) /\ Cardinality(workers[x]) \in Nat /\ limit[x] \in Nat
  BY <1>0, Finite, ElementOfSeq DEF TypeOK
<1>8. /\ Cardinality(workers'[m]) <= Cardinality(workers[m]) + 1
      /\ Cardinality(workers[m]) <= Cardinality(workers'[m])
      /\ Cardinality(workers'[m]) \in Nat
  BY <1>1, <1>3, <1>7, OneMore, FS_CardinalityType
<1>9. Counted'
  <2> SUFFICES ASSUME NEW x \in Managers
               PROVE  Cardinality(workers'[x]) + Cardinality(Inserting(x)')
                        <= limit[x] + Cardinality(Late(x))
    BY <1>2 DEF Counted
  <2>1. CASE x # m
    <3>1. Inserting(x)' = Inserting(x)
      BY <1>2, <1>4, <2>1 DEF Inserting
    <3> QED BY <1>0, <1>3, <2>1, <3>1 DEF Counted
  <2>2. CASE x = m
    <3>1. Inserting(m)' = Inserting(m) \ {c} /\ c \in Inserting(m)
      BY <1>2, <1>4 DEF Inserting
    <3>2. IsFiniteSet(Inserting(m)) /\ Cardinality(Inserting(m)) \in Nat
      BY <1>0, Finite DEF Inserting
    <3>3. Cardinality(Inserting(m)') = Cardinality(Inserting(m)) - 1
      BY <3>1, <3>2, FS_RemoveElement
    <3>4. Cardinality(Late(m)) \in Nat
      BY <1>0, Finite DEF TypeOK, Late
    <3>5. Cardinality(workers[m]) + Cardinality(Inserting(m)) <= limit[m] + Cardinality(Late(m))
      BY <1>0, <1>1 DEF Counted
    <3>6. Cardinality(workers'[m]) + Cardinality(Inserting(m)') <= limit[m] + Cardinality(Late(m))
      BY <1>1, <1>7, <1>8, <3>2, <3>3, <3>4, <3>5
    <3> QED BY <1>2, <2>2, <3>6
  <2> QED BY <2>1, <2>2
<1>10. SilentOnlyWhenFull'
  <2>1. \A x \in Managers' : pending'[x] # <<>> => Full(x)'
    <3> SUFFICES ASSUME NEW x \in Managers, pending[x] # <<>>
                 PROVE  Cardinality(workers'[x]) >= limit[x]
      BY <1>2 DEF Full
    <3>1. Cardinality(workers[x]) >= limit[x]
      BY <1>0 DEF SilentOnlyWhenFull, Full
    <3>2. CASE x = m
      BY <1>1, <1>7, <1>8, <3>1, <3>2
    <3> QED BY <1>3, <3>1, <3>2
  <2> QED BY <1>0, <1>2, <2>1 DEF SilentOnlyWhenFull, Full
<1> QED BY <1>5, <1>6, <1>9, <1>10 DEF IInv

LEMMA NextInv == ASSUME IInv, [Next]_vars PROVE IInv'
<1>1. CASE Next
  <2>1. ASSUME NEW asked \in Asked, AddPool(asked) PROVE IInv'
    BY <2>1, AddPoolInv
  <2>2. ASSUME NEW isLater \in BOOLEAN, Hydrate(isLater) PROVE IInv'
    BY <2>2, HydrateInv
  <2>3. ASSUME NEW t \in Tasks, Start(t) PROVE IInv'
    <3>1. Client \in Threads
      BY WorkerPoolAssumption DEF Client, Threads
    <3>2. AddWorker(Client, t, "idle") /\ pc[Client] # "insert" /\ hand' = t
      BY <2>3 DEF Start
    <3>3. running' = IF Client = Client /\ Full(runner[t]) THEN running \cup {t} ELSE running
      BY <2>3 DEF Start
    <3>4. UNCHANGED <<limit, workers, tasks>>
      BY <2>3 DEF Start
    <3> QED BY <3>1, <3>2, <3>3, <3>4, AddWorkerInv
  <2>4. ASSUME NEW t \in Tasks, NextTask(t) PROVE IInv'
    <3>1. t \in Threads /\ t # Client
      <4>1. TypeOK /\ Len(runner) <= MaxTasks
        BY DEF IInv, TypeOK
      <4> QED BY <4>1, Finite, WorkerPoolAssumption DEF Client, Threads
    <3>2. AddWorker(t, t, "ended") /\ pc[t] # "insert" /\ t \in later /\ hand' = hand
      BY <2>4 DEF NextTask
    <3>3. running' = IF t = Client /\ Full(runner[t]) THEN running \cup {t} ELSE running
      BY <2>4, <3>1 DEF NextTask
    <3>4. UNCHANGED <<limit, workers, tasks>>
      BY <2>4 DEF NextTask
    <3> QED BY <3>1, <3>2, <3>3, <3>4, AddWorkerInv
  <2>5. ASSUME NEW c \in Threads, InsertWorker(c) PROVE IInv'
    BY <2>5, InsertWorkerInv
  <2> QED BY <1>1, <2>1, <2>2, <2>3, <2>4, <2>5 DEF Next
<1>2. CASE UNCHANGED vars
  <2>1. /\ UNCHANGED <<limit, workers, pending, runner, later, running, pc, hand>>
        /\ Tasks' = Tasks /\ Managers' = Managers
        /\ \A x : Late(x)' = Late(x) /\ Holds(x)' = Holds(x)
    BY <1>2 DEF vars, managers, tasks, Tasks, Managers, Late, Holds
  <2>2. TypeOK' /\ HasTask'
    BY <2>1 DEF IInv, TypeOK, HasTask
  <2>3. \A x : Inserting(x)' = Inserting(x)
    BY <2>1 DEF Inserting
  <2>4. Counted' /\ SilentOnlyWhenFull'
    BY <2>1, <2>3 DEF IInv, Counted, SilentOnlyWhenFull, Full
  <2> QED BY <2>2, <2>4 DEF IInv
<1> QED BY <1>1, <1>2

LEMMA InvBounds == IInv => PoolBound
<1> SUFFICES ASSUME IInv, NEW m \in Managers
             PROVE  Cardinality(workers[m]) <= limit[m] + Cardinality(Late(m))
  BY DEF PoolBound, Late
<1>1. /\ Cardinality(workers[m]) \in Nat /\ Cardinality(Inserting(m)) \in Nat
      /\ Cardinality(Late(m)) \in Nat /\ limit[m] \in Nat
  BY Finite, ElementOfSeq DEF IInv, TypeOK, Inserting, Late
<1> QED BY <1>1 DEF IInv, Counted

LEMMA Invariant == Spec => []IInv
<1>1. Init => IInv
  BY InitInv
<1>2. IInv /\ [Next]_vars => IInv'
  BY NextInv
<1> QED BY <1>1, <1>2, PTL DEF Spec

\* A manager that any number of threads call without a lock holds at most its
\* limit of workers and one for each task that has a thread of its own.
THEOREM Bounded == Spec => []PoolBound
<1>1. IInv => PoolBound
  BY InvBounds
<1> QED BY <1>1, Invariant, PTL

\* add_worker says nothing only when the table is full: each pipeline that is
\* RUNNING behind a pool task waits in a queue that nobody works on.
THEOREM Silent == Spec => []SilentOnlyWhenFull
<1>1. IInv => SilentOnlyWhenFull
  BY DEF IInv
<1> QED BY <1>1, Invariant, PTL

=============================================================================

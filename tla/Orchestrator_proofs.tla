------------------------ MODULE Orchestrator_proofs ------------------------
(***************************************************************************)
(* Theorems about Orchestrator, for every number of pipelines and tasks,   *)
(* every assignment of event pairs to managers, every set of tasks with a  *)
(* backend, every set of commands and every choice of the calls that raise.*)
(***************************************************************************)
EXTENDS Orchestrator, TLAPS

-----------------------------------------------------------------------------
(***************************************************************************)
(* Tasks, their neighbours, and the order of a pipeline.                   *)
(***************************************************************************)

\* A task is the pair of its pipeline and its position.
LEMMA TaskIsPair ==
    ASSUME NEW t \in Tasks
    PROVE  /\ t[1] \in Pipelines
           /\ t[2] \in 1..NTasks[t[1]]
           /\ t = <<t[1], t[2]>>
           /\ NTasks[t[1]] \in Nat
BY OrchestratorAssumption DEF Tasks, Pipelines

\* Membership, for pairs that are put together from a pipeline and a position.
LEMMA PairIsTask ==
    ASSUME NEW p \in Pipelines, NEW i \in 1..NTasks[p]
    PROVE  <<p, i>> \in Tasks
BY OrchestratorAssumption DEF Tasks, Pipelines

\* The task before t, when there is one.
LEMMA PrevIsTask ==
    ASSUME NEW t \in Tasks, t[2] # 1
    PROVE  /\ Prev(t) \in Tasks
           /\ Prev(t)[1] = t[1]
           /\ Prev(t)[2] = t[2] - 1
           /\ Succ(Prev(t)) = t
           /\ ~IsLast(Prev(t))
<1>1. t[1] \in Pipelines /\ t[2] - 1 \in 1..NTasks[t[1]] /\ t[2] \in Int
  BY TaskIsPair
<1>2. <<t[1], t[2] - 1>> \in Tasks
  BY <1>1, PairIsTask
<1>3. t = <<t[1], t[2]>> /\ t[2] \in 1..NTasks[t[1]] /\ NTasks[t[1]] \in Nat
  BY TaskIsPair
<1>4. QED
  BY <1>1, <1>2, <1>3 DEF Prev, Succ, IsLast

\* The task behind t, when there is one.
LEMMA SuccIsTask ==
    ASSUME NEW t \in Tasks, ~IsLast(t)
    PROVE  /\ Succ(t) \in Tasks
           /\ Succ(t)[1] = t[1]
           /\ Succ(t)[2] = t[2] + 1
           /\ Prev(Succ(t)) = t
           /\ Succ(t)[2] # 1
<1>1. t[1] \in Pipelines /\ t[2] \in 1..NTasks[t[1]] /\ NTasks[t[1]] \in Nat /\ t = <<t[1], t[2]>>
  BY TaskIsPair
<1>2. t[2] + 1 \in 1..NTasks[t[1]]
  BY <1>1 DEF IsLast
<1>3. <<t[1], t[2] + 1>> \in Tasks
  BY <1>1, <1>2, PairIsTask
<1>4. QED
  BY <1>1, <1>3 DEF Prev, Succ

\* Two tasks at the same place of the same pipeline are the same task.
LEMMA SamePlace ==
    ASSUME NEW t \in Tasks, NEW u \in Tasks, t[1] = u[1], t[2] = u[2]
    PROVE  t = u
BY TaskIsPair

-----------------------------------------------------------------------------
(***************************************************************************)
(* Type correctness.                                                       *)
(***************************************************************************)

LEMMA InitType == Init => TypeOK
<1> SUFFICES ASSUME Init PROVE TypeOK
  OBVIOUS
<1> USE DEF Init
<1>1. session \in Statuses /\ pcycle \in [Pipelines -> Statuses] /\ tcycle \in [Tasks -> Statuses]
  BY DEF Statuses
<1>2. proc \in [Tasks -> {"none", "alive", "terminated", "ok", "failed"}]
  OBVIOUS
<1>3. attached \subseteq Tasks /\ done \subseteq Pairs /\ init \subseteq Pairs /\ refused \subseteq Commands
  OBVIOUS
<1>4. adder \in [Tasks -> AdderAt] /\ comp \in [Tasks -> CompAt] /\ main \in MainAt
  BY DEF AdderAt, CompAt, MainAt
<1>5. target \in Pipelines
  BY OrchestratorAssumption DEF Pipelines
<1>9. all \in BOOLEAN
  OBVIOUS
<1>8. stopped \in Tasks \cup {<<>>} /\ (main \in {"check", "cancel", "set"} => stopped \in Tasks)
  OBVIOUS
<1>6. cancels \in [Tasks -> Nat] /\ finals \in [Tasks -> Nat]
  OBVIOUS
<1>7. QED
  BY <1>1, <1>2, <1>3, <1>4, <1>5, <1>6, <1>8, <1>9 DEF TypeOK

\* Every step of a thread that adds a worker keeps the types.
LEMMA AddingType ==
    ASSUME TypeOK, NEW t \in Tasks, Adding(t)
    PROVE  TypeOK'
<1> USE DEF TypeOK, cycles, managers, client, calls
<1>1. ASSUME NEW raised, AddReturns(t, raised)
      PROVE  /\ adder' \in [Tasks -> AdderAt]
             /\ comp' \in [Tasks -> CompAt]
             /\ main' = main \/ main' \in {"idle", "run"}
  BY <1>1 DEF AddReturns, AdderAt, CompAt
<1>7. ASSUME main' = main \/ main' \in {"idle", "run"}, stopped' = stopped
      PROVE  main' \in MainAt /\ (main' \in {"check", "cancel", "set"} => stopped' \in Tasks)
  BY <1>7 DEF MainAt
<1>2. CASE AddCheck(t)
  <2>1. attached' \subseteq Tasks
    BY <1>2 DEF AddCheck
  <2>2. adder' \in [Tasks -> AdderAt] /\ comp' \in [Tasks -> CompAt]
    BY <1>1, <1>2 DEF AddCheck, AdderAt
  <2>3. main' = main \/ main' \in {"idle", "run"}
    BY <1>1, <1>2 DEF AddCheck
  <2>4. QED
    BY <1>2, <1>7, <2>1, <2>2, <2>3 DEF AddCheck
<1>3. CASE Spawn(t)
  <2>1. proc' \in [Tasks -> {"none", "alive", "terminated", "ok", "failed"}]
    BY <1>3 DEF Spawn
  <2>2. adder' \in [Tasks -> AdderAt] /\ comp' \in [Tasks -> CompAt]
    BY <1>1, <1>3 DEF Spawn, AdderAt
  <2>3. main' = main \/ main' \in {"idle", "run"}
    BY <1>1, <1>3 DEF Spawn
  <2>4. QED
    BY <1>3, <1>7, <2>1, <2>2, <2>3 DEF Spawn
<1>4. CASE OnTaskStart(t)
  <2>1. tcycle' \in [Tasks -> Statuses]
    BY <1>4 DEF OnTaskStart, Statuses
  <2>2. adder' \in [Tasks -> AdderAt] /\ comp' \in [Tasks -> CompAt]
    BY <1>1, <1>4 DEF OnTaskStart, AdderAt, CompAt
  <2>3. main' = main \/ main' \in {"idle", "run"}
    BY <1>1, <1>4 DEF OnTaskStart
  <2>4. QED
    BY <1>4, <1>7, <2>1, <2>2, <2>3 DEF OnTaskStart
<1>5. CASE SetInit(t)
  <2>1. init' \subseteq Pairs
    BY <1>5 DEF SetInit, Pairs
  <2>2. adder' \in [Tasks -> AdderAt] /\ comp' \in [Tasks -> CompAt]
    BY <1>1, <1>5 DEF SetInit
  <2>3. main' = main \/ main' \in {"idle", "run"}
    BY <1>1, <1>5 DEF SetInit
  <2>4. QED
    BY <1>5, <1>7, <2>1, <2>2, <2>3 DEF SetInit
<1>6. QED
  BY <1>2, <1>3, <1>4, <1>5 DEF Adding

\* What the thread does next is a place of the completion thread.
LEMMA ThenType ==
    ASSUME NEW t, NEW at
    PROVE  Then(t, at) \in CompAt
BY DEF Then, AfterSuccess, AfterFailure, CompAt

\* Every step of a completion thread keeps the types.
LEMMA CompletingType ==
    ASSUME TypeOK, NEW t \in Tasks, Completing(t)
    PROVE  TypeOK'
<1> USE DEF TypeOK, cycles, managers, client, calls
<1>1. ASSUME NEW at, NEW raised, Continue(t, at, raised)
      PROVE  comp' \in [Tasks -> CompAt]
  BY <1>1, ThenType DEF Continue, CompAt
<1>2. CASE Completed(t)
  BY <1>2 DEF Completed, CompAt
<1>3. CASE CleanupCheck(t)
  BY <1>3 DEF CleanupCheck, CompAt
<1>4. CASE CleanupCancel(t)
  BY <1>4 DEF CleanupCancel, CompAt
<1>5. CASE CleanupSet(t)
  BY <1>1, <1>5 DEF CleanupSet, Pairs
<1>6. CASE OnFinally(t)
  <2>1. comp' \in [Tasks -> CompAt]
    BY <1>1, <1>6 DEF OnFinally
  <2>2. finals' \in [Tasks -> Nat]
    BY <1>6 DEF OnFinally
  <2>3. QED
    BY <1>6, <2>1, <2>2 DEF OnFinally
<1>7. CASE SettleTask(t)
  <2>1. comp' \in [Tasks -> CompAt]
    BY <1>1, <1>7 DEF SettleTask
  <2>2. tcycle' \in [Tasks -> Statuses]
    BY <1>7 DEF SettleTask, Statuses
  <2>3. QED
    BY <1>7, <2>1, <2>2 DEF SettleTask
<1>8. CASE SettlePipeline(t)
  <2>1. comp' \in [Tasks -> CompAt]
    BY <1>8 DEF SettlePipeline, CompAt
  <2>2. pcycle' \in [Pipelines -> Statuses]
    BY <1>8 DEF SettlePipeline, Statuses
  <2>3. QED
    BY <1>8, <2>1, <2>2 DEF SettlePipeline
<1>9. CASE NextTask(t)
  BY <1>9 DEF NextTask, CompAt, AdderAt
<1>10. CASE CancelRest(t)
  <2>1. comp' \in [Tasks -> CompAt]
    BY <1>10 DEF CancelRest, CompAt
  <2>2. tcycle' \in [Tasks -> Statuses]
    BY <1>10 DEF CancelRest, Statuses
  <2>3. QED
    BY <1>10, <2>1, <2>2 DEF CancelRest
<1>11. CASE Report(t)
  BY <1>11 DEF Report, CompAt
<1>12. CASE Close(t)
  BY <1>12 DEF Close, CompAt, Pairs
<1>13. QED
  BY <1>2, <1>3, <1>4, <1>5, <1>6, <1>7, <1>8, <1>9, <1>10, <1>11, <1>12 DEF Completing

\* Every step of the client's thread inside a command keeps the types.
LEMMA ResumeType ==
    ASSUME TypeOK, Resume
    PROVE  TypeOK'
<1> USE DEF TypeOK, cycles, managers, client, calls
<1>1. CASE FirstTask
  BY <1>1 DEF FirstTask, MainAt, AdderAt
<1>2. CASE RunPipeline
  <2>1. pcycle' \in [Pipelines -> Statuses]
    BY <1>2 DEF RunPipeline, Statuses
  <2>2. main' \in MainAt
    BY <1>2 DEF RunPipeline, Begin, MainAt
  <2>3. target' \in Pipelines
    BY <1>2, OrchestratorAssumption DEF RunPipeline, Begin, Pipelines
  <2>4. all' \in BOOLEAN
    BY <1>2 DEF RunPipeline, Begin
  <2>5. ~(main' \in {"check", "cancel", "set"}) /\ stopped' = stopped
    BY <1>2 DEF RunPipeline, Begin
  <2>6. QED
    BY <1>2, <2>1, <2>2, <2>3, <2>4, <2>5 DEF RunPipeline
<1>3. CASE StopCheck
  BY <1>3 DEF StopCheck, MainAt
<1>5. CASE StopCancel
  <2>1. main' \in MainAt
    BY <1>5 DEF StopCancel, MainAt
  <2>2. stopped' \in Tasks \cup {<<>>}
    BY <1>5 DEF StopCancel
  <2>3. cancels' \in [Tasks -> Nat]
    BY <1>5 DEF StopCancel
  <2>4. main' \in {"check", "cancel", "set"} => stopped' \in Tasks
    BY <1>5 DEF StopCancel
  <2>5. QED
    BY <1>5, <2>1, <2>2, <2>3, <2>4 DEF StopCancel
<1>6. CASE StopSet
  BY <1>6 DEF StopSet, MainAt, Pairs
<1>7. QED
  BY <1>1, <1>2, <1>3, <1>5, <1>6 DEF Resume

\* Every command the client issues keeps the types.
LEMMA CommandType ==
    ASSUME TypeOK, Command
    PROVE  TypeOK'
<1> USE DEF TypeOK, cycles, managers, client, calls
<1>1. CASE Execute
  BY <1>1 DEF Execute, Statuses
<1>2. CASE Start
  <2>1. target' \in Pipelines
    BY <1>2, OrchestratorAssumption DEF Start, Begin, Pipelines
  <2>2. all' \in BOOLEAN
    BY <1>2 DEF Start, Begin
  <2>3. QED
    BY <1>2, <2>1, <2>2 DEF Start, Begin, Statuses, MainAt
<1>3. ASSUME NEW p \in Pipelines, StartPipeline(p)
      PROVE  TypeOK'
  <2>1. all' \in BOOLEAN
    BY <1>3 DEF StartPipeline, Begin
  <2>2. QED
    BY <1>3, <2>1 DEF StartPipeline, Begin, MainAt
<1>4. ASSUME NEW t \in Tasks, StopTask(t)
      PROVE  TypeOK'
  <2>1. proc' \in [Tasks -> {"none", "alive", "terminated", "ok", "failed"}]
    BY <1>4 DEF StopTask
  <2>2. QED
    BY <1>4, <2>1 DEF StopTask, MainAt
<1>5. ASSUME NEW c \in Commands, Refuse(c)
      PROVE  TypeOK'
  BY <1>5 DEF Refuse
<1>6. QED
  BY <1>1, <1>2, <1>3, <1>4, <1>5 DEF Command

LEMMA NextType == TypeOK /\ [Next]_vars => TypeOK'
<1> SUFFICES ASSUME TypeOK, [Next]_vars PROVE TypeOK'
  OBVIOUS
<1>1. ASSUME NEW t \in Tasks, Exit(t)
      PROVE  TypeOK'
  BY <1>1 DEF Exit, TypeOK, cycles, managers, client, calls
<1>2. CASE UNCHANGED vars
  BY <1>2 DEF vars, TypeOK, cycles, managers, client, calls
<1>3. QED
  BY <1>1, <1>2, AddingType, CompletingType, ResumeType, CommandType DEF Next

\* The types of every reachable state, for every instance.
THEOREM TypeCorrect == Spec => []TypeOK
<1>1. Init => TypeOK
  BY InitType
<1>2. TypeOK /\ [Next]_vars => TypeOK'
  BY NextType
<1>3. QED
  BY <1>1, <1>2, PTL DEF Spec

-----------------------------------------------------------------------------
(***************************************************************************)
(* The inductive invariant: the calls of add_worker in progress.           *)
(***************************************************************************)

\* Two tasks with the same task before them are the same task.
LEMMA PrevInjective ==
    ASSUME NEW t \in Tasks, NEW u \in Tasks, t[2] # 1, u[2] # 1, Prev(t) = Prev(u)
    PROVE  t = u
<1>1. t[1] = u[1] /\ t[2] - 1 = u[2] - 1
  BY PrevIsTask
<1>2. t[2] \in Int /\ u[2] \in Int
  BY TaskIsPair
<1>3. QED
  BY <1>1, <1>2, SamePlace

\* A return from add_worker ends one call, and leaves the caller of every
\* other call where it was.
LEMMA ReturnsEffect ==
    ASSUME TypeOK, AdderInv, UNCHANGED target,
           NEW t \in Tasks, adder[t] # "off", NEW raised, AddReturns(t, raised)
    PROVE  /\ adder'[t] = "off"
           /\ \A u \in Tasks : u # t => adder'[u] = adder[u]
           /\ \A u \in Tasks : \/ comp'[u] = comp[u]
                               \/ comp[u] = "next" /\ comp'[u] \in {"report", "close"}
           /\ \A u \in Tasks : u # t /\ adder[u] # "off" /\ u[2] = 1 => main' = main
           /\ \A u \in Tasks : u # t /\ adder[u] # "off" /\ u[2] # 1
                                  => comp'[Prev(u)] = comp[Prev(u)]
<1> USE DEF TypeOK
<1>1. adder'[t] = "off" /\ \A u \in Tasks : u # t => adder'[u] = adder[u]
  BY DEF AddReturns
<1>2. CASE t[2] = 1
  <2>1. comp' = comp
    BY <1>2 DEF AddReturns
  <2>2. ASSUME NEW u \in Tasks, u # t, adder[u] # "off", u[2] = 1
        PROVE  FALSE
    <3>1. t[1] = target /\ u[1] = target
      BY <1>2, <2>2 DEF AdderInv, CallerWaits
    <3>2. QED
      BY <1>2, <2>2, <3>1, SamePlace
  <2>3. QED
    BY <1>1, <2>1, <2>2
<1>3. CASE t[2] # 1
  <2>1. main' = main
    BY <1>3 DEF AddReturns
  <2>2. Prev(t) \in Tasks /\ comp[Prev(t)] = "next"
    BY <1>3, PrevIsTask DEF AdderInv, CallerWaits
  <2>3. \A u \in Tasks : u # Prev(t) => comp'[u] = comp[u]
    BY <1>3 DEF AddReturns
  <2>4. comp'[Prev(t)] \in {"report", "close"}
    BY <1>3, <2>2 DEF AddReturns
  <2>5. ASSUME NEW u \in Tasks, u # t, adder[u] # "off", u[2] # 1
        PROVE  comp'[Prev(u)] = comp[Prev(u)]
    <3>1. Prev(u) # Prev(t) /\ Prev(u) \in Tasks
      BY <1>3, <2>5, PrevInjective, PrevIsTask
    <3>2. QED
      BY <2>3, <3>1
  <2>6. QED
    BY <1>1, <2>1, <2>2, <2>3, <2>4, <2>5
<1>4. QED
  BY <1>2, <1>3

\* The callers wait while a worker is added.
LEMMA AddingCallers ==
    ASSUME TypeOK, AdderInv, NEW t \in Tasks, Adding(t), NEW u \in Tasks
    PROVE  CallerWaits(u)'
<1> USE DEF TypeOK, managers, cycles, calls
<1>1. adder[t] # "off" /\ UNCHANGED target
  BY DEF Adding, AddCheck, Spawn, OnTaskStart, SetInit
<1>2. CallerWaits(u) /\ CallerWaits(t) /\ AddedOnce(t)
  BY DEF AdderInv
<1>3. ASSUME NEW raised, AddReturns(t, raised)
      PROVE  CallerWaits(u)'
  <2>1. CASE u = t
    BY <1>1, <1>3, <2>1, ReturnsEffect DEF CallerWaits
  <2>2. CASE u # t
    BY <1>1, <1>2, <1>3, <2>2, ReturnsEffect DEF CallerWaits, Prev
  <2>3. QED
    BY <2>1, <2>2
<1>4. ASSUME UNCHANGED <<main, comp>>, \A v \in Tasks : adder'[v] # "off" => adder[v] # "off"
      PROVE  CallerWaits(u)'
  BY <1>1, <1>2, <1>4 DEF CallerWaits, Prev
<1>5. CASE AddCheck(t)
  BY <1>1, <1>3, <1>4, <1>5 DEF AddCheck
<1>6. CASE Spawn(t)
  BY <1>1, <1>3, <1>4, <1>6 DEF Spawn
<1>7. ASSUME OnTaskStart(t), ~ \E raised : AddReturns(t, raised)
      PROVE  CallerWaits(u)'
  <2>1. comp' = [comp EXCEPT ![t] = "wait"] /\ adder' = [adder EXCEPT ![t] = "running"] /\ UNCHANGED main
    BY <1>7 DEF OnTaskStart
  <2>2. comp[t] = "off"
    BY <1>2, <1>7 DEF OnTaskStart, AddedOnce
  <2>3. adder[u] # "off" /\ u[2] # 1 => Prev(u) # t /\ Prev(u) \in Tasks
    BY <1>2, <2>2, PrevIsTask DEF CallerWaits
  <2>4. QED
    BY <1>1, <1>2, <2>1, <2>3 DEF CallerWaits, Prev
<1>8. CASE SetInit(t)
  BY <1>3, <1>8 DEF SetInit
<1>9. QED
  BY <1>3, <1>5, <1>6, <1>7, <1>8 DEF Adding

\* While a worker is added no worker with a completion thread is.
LEMMA AddingOnce ==
    ASSUME TypeOK, AdderInv, NEW t \in Tasks, Adding(t), NEW u \in Tasks
    PROVE  AddedOnce(u)'
<1> USE DEF TypeOK, managers, cycles, calls
<1>1. AddedOnce(u) /\ AddedOnce(t) /\ CallerWaits(u)
  BY DEF AdderInv
<1>2. ASSUME NEW raised, AddReturns(t, raised), adder[t] # "off", UNCHANGED <<target, done, proc>>,
             init \subseteq init', adder[t] = "running" => PairOf[t] \in init'
      PROVE  AddedOnce(u)'
  <2>1. comp'[u] = comp[u] \/ (comp[u] = "next" /\ comp'[u] \in {"report", "close"})
    BY <1>2, ReturnsEffect
  <2>2. adder'[u] = "off" \/ (u # t /\ adder'[u] = adder[u])
    BY <1>2, ReturnsEffect
  <2>3. comp'[u] # "off" => Blocked(u)' \/ adder'[u] = "running"
    <3>1. comp'[u] # "off" => Blocked(u) \/ adder[u] = "running"
      BY <1>1, <2>1 DEF AddedOnce
    <3>2. Blocked(u) => Blocked(u)'
      BY <1>2 DEF Blocked
    <3>3. u = t /\ adder[u] = "running" => Blocked(u)'
      BY <1>2 DEF Blocked
    <3>4. u # t => adder'[u] = adder[u]
      BY <1>2, ReturnsEffect
    <3>5. QED
      BY <3>1, <3>2, <3>3, <3>4
  <2>4. QED
    BY <1>1, <1>2, <2>1, <2>2, <2>3 DEF AddedOnce
<1>3. ASSUME UNCHANGED <<comp, done, init>>, \A v \in Tasks : v # t => adder'[v] = adder[v] /\ proc'[v] = proc[v],
             \/ adder[t] = "called" /\ ~Blocked(t) /\ adder'[t] = "attached"
             \/ adder[t] = "attached" /\ adder'[t] = "spawned" /\ proc'[t] = "alive"
      PROVE  AddedOnce(u)'
  BY <1>1, <1>3 DEF AddedOnce, Blocked
<1>4. CASE AddCheck(t)
  <2>1. CASE Blocked(t)
    BY <1>2, <1>4, <2>1 DEF AddCheck
  <2>2. CASE ~Blocked(t)
    BY <1>3, <1>4, <2>2 DEF AddCheck
  <2>3. QED
    BY <2>1, <2>2
<1>5. CASE Spawn(t)
  BY <1>2, <1>3, <1>5 DEF Spawn
<1>6. ASSUME OnTaskStart(t), ~ \E raised : AddReturns(t, raised)
      PROVE  AddedOnce(u)'
  <2>1. /\ comp' = [comp EXCEPT ![t] = "wait"] /\ adder' = [adder EXCEPT ![t] = "running"]
        /\ UNCHANGED <<proc, done, init>>
    BY <1>6 DEF OnTaskStart
  <2>2. QED
    BY <1>1, <1>6, <2>1 DEF AddedOnce, Blocked
<1>7. ASSUME OnTaskStart(t), NEW raised, AddReturns(t, raised)
      PROVE  AddedOnce(u)'
  BY <1>2, <1>7 DEF OnTaskStart
<1>8. CASE SetInit(t)
  BY <1>2, <1>8 DEF SetInit
<1>9. QED
  BY <1>4, <1>5, <1>6, <1>7, <1>8 DEF Adding

\* A completion thread changes one of its own places; the only call it makes
\* of add_worker is for the task behind its own.
LEMMA CompletingAdder ==
    ASSUME TypeOK, AdderInv, NEW t \in Tasks, Completing(t), NEW u \in Tasks
    PROVE  CallerWaits(u)' /\ AddedOnce(u)'
<1> USE DEF TypeOK, managers, cycles, calls, client
<1>1. AddedOnce(u) /\ CallerWaits(u) /\ CallerWaits(t)
  BY DEF AdderInv
<1>2. ASSUME UNCHANGED <<adder, main, target, proc, init>>, done \subseteq done',
             comp[t] \notin {"off", "next"}, \A v \in Tasks : v # t => comp'[v] = comp[v], comp'[t] # "off"
      PROVE  CallerWaits(u)' /\ AddedOnce(u)'
  <2>1. adder[u] # "off" /\ u[2] # 1 => Prev(u) # t /\ Prev(u) \in Tasks
    BY <1>1, <1>2, PrevIsTask DEF CallerWaits
  <2>2. CallerWaits(u)'
    BY <1>1, <1>2, <2>1 DEF CallerWaits, Prev
  <2>3. Blocked(u) => Blocked(u)'
    BY <1>2 DEF Blocked
  <2>4. AddedOnce(u)'
    BY <1>1, <1>2, <2>3 DEF AddedOnce
  <2>5. QED
    BY <2>2, <2>4
<1>3. \A at, raised : Continue(t, at, raised) =>
        /\ \A v \in Tasks : v # t => comp'[v] = comp[v]
        /\ comp'[t] # "off"
  BY DEF Continue, Then, AfterSuccess, AfterFailure
<1>4. CASE Completed(t)
  BY <1>2, <1>4 DEF Completed
<1>5. CASE CleanupCheck(t)
  BY <1>2, <1>5 DEF CleanupCheck
<1>6. CASE CleanupCancel(t)
  BY <1>2, <1>6 DEF CleanupCancel
<1>7. CASE CleanupSet(t)
  BY <1>2, <1>3, <1>7 DEF CleanupSet
<1>8. CASE OnFinally(t)
  BY <1>2, <1>3, <1>8 DEF OnFinally
<1>9. CASE SettleTask(t)
  BY <1>2, <1>3, <1>9 DEF SettleTask
<1>10. CASE SettlePipeline(t)
  BY <1>2, <1>10 DEF SettlePipeline
<1>11. CASE CancelRest(t)
  BY <1>2, <1>11 DEF CancelRest
<1>12. CASE Report(t)
  BY <1>2, <1>12 DEF Report
<1>13. CASE Close(t)
  BY <1>2, <1>13 DEF Close
<1>14. CASE NextTask(t)
  <2>1. /\ Succ(t) \in Tasks /\ Succ(t)[2] # 1 /\ Prev(Succ(t)) = t
    BY <1>14, SuccIsTask DEF NextTask, GoesOn
  <2>2. adder[Succ(t)] = "off"
    BY <1>14, <2>1 DEF NextTask, AdderInv, CallerWaits
  <2>3. comp'[t] = "next" /\ \A v \in Tasks : v # t => comp'[v] = comp[v]
    BY <1>14 DEF NextTask
  <2>4. adder'[Succ(t)] = "called" /\ \A v \in Tasks : v # Succ(t) => adder'[v] = adder[v]
    BY <1>14, <2>1 DEF NextTask
  <2>5. UNCHANGED <<main, target, proc, done, init>> /\ comp[t] = "pipeline"
    BY <1>14 DEF NextTask
  <2>6. CASE u = Succ(t)
    <3>1. AddedOnce(u)'
      BY <1>1, <2>2, <2>3, <2>4, <2>5, <2>6 DEF AddedOnce, Blocked
    <3>2. CallerWaits(u)'
      BY <2>1, <2>3, <2>4, <2>6 DEF CallerWaits, Prev
    <3>3. QED
      BY <3>1, <3>2
  <2>7. CASE u # Succ(t)
    <3>1. adder[u] # "off" /\ u[2] # 1 => Prev(u) # t /\ Prev(u) \in Tasks
      BY <1>1, <2>5, PrevIsTask DEF CallerWaits
    <3>2. CallerWaits(u)'
      BY <1>1, <2>3, <2>4, <2>5, <2>7, <3>1 DEF CallerWaits, Prev
    <3>3. AddedOnce(u)'
      BY <1>1, <2>3, <2>4, <2>5, <2>7 DEF AddedOnce, Blocked
    <3>4. QED
      BY <3>2, <3>3
  <2>8. QED
    BY <2>6, <2>7
<1>15. QED
  BY <1>4, <1>5, <1>6, <1>7, <1>8, <1>9, <1>10, <1>11, <1>12, <1>13, <1>14 DEF Completing

\* A step that adds no worker and moves no completion thread keeps what is
\* known of the calls, unless it moves a client's thread that is in one.
LEMMA FrameAdder ==
    ASSUME TypeOK, AdderInv, UNCHANGED <<adder, comp, init>>, done \subseteq done',
           main # "adding" \/ UNCHANGED <<main, target>>,
           \A v \in Tasks : proc[v] # "none" => proc'[v] # "none"
    PROVE  AdderInv'
<1> SUFFICES ASSUME NEW u \in Tasks PROVE CallerWaits(u)' /\ AddedOnce(u)'
  BY DEF AdderInv
<1>1. CallerWaits(u) /\ AddedOnce(u)
  BY DEF AdderInv
<1>2. CallerWaits(u)'
  BY <1>1 DEF CallerWaits, Prev
<1>3. Blocked(u) => Blocked(u)'
  BY DEF Blocked
<1>4. AddedOnce(u)'
  BY <1>1, <1>3 DEF AddedOnce
<1>5. QED
  BY <1>2, <1>4

\* The client's thread is not in a call of add_worker when it takes a step.
LEMMA ResumeAdder ==
    ASSUME TypeOK, AdderInv, Resume
    PROVE  AdderInv'
<1> USE DEF managers, cycles, calls, client
<1>1. CASE FirstTask
  <2> DEFINE f == <<target, 1>>
  <2>1. CASE NTasks[target] = 0
    BY <1>1, <2>1, FrameAdder DEF FirstTask
  <2>2. CASE NTasks[target] # 0
    <3>1. f \in Tasks /\ f[1] = target /\ f[2] = 1
      <4>1. target \in Pipelines /\ NTasks[target] \in Nat /\ 1 \in 1..NTasks[target]
        BY <2>2, OrchestratorAssumption DEF TypeOK
      <4>2. QED
        BY <4>1, PairIsTask
    <3>2. \A u \in Tasks : adder[u] # "off" => u[2] # 1
      BY <1>1 DEF AdderInv, CallerWaits, FirstTask
    <3>3. adder'[f] = "called" /\ \A u \in Tasks : u # f => adder'[u] = adder[u]
      BY <1>1, <2>2, <3>1 DEF FirstTask, TypeOK
    <3>4. main' = "adding" /\ UNCHANGED <<target, comp, proc, done, init>>
      BY <1>1, <2>2 DEF FirstTask
    <3>5. ASSUME NEW u \in Tasks PROVE CallerWaits(u)' /\ AddedOnce(u)'
      <4>1. CallerWaits(u) /\ AddedOnce(u)
        BY DEF AdderInv
      <4>2. CASE u = f
        <5>1. adder[u] = "off"
          BY <3>1, <3>2, <4>2
        <5>2. CallerWaits(u)'
          BY <3>1, <3>3, <3>4, <4>2 DEF CallerWaits
        <5>3. AddedOnce(u)'
          BY <3>3, <3>4, <4>1, <4>2, <5>1 DEF AddedOnce, Blocked
        <5>4. QED
          BY <5>2, <5>3
      <4>3. CASE u # f
        <5>1. CallerWaits(u)'
          BY <3>2, <3>3, <3>4, <4>1, <4>3 DEF CallerWaits, Prev
        <5>2. AddedOnce(u)'
          BY <3>3, <3>4, <4>1, <4>3 DEF AddedOnce, Blocked
        <5>3. QED
          BY <5>1, <5>2
      <4>4. QED
        BY <4>2, <4>3
    <3>6. QED
      BY <3>5 DEF AdderInv
  <2>3. QED
    BY <2>1, <2>2
<1>2. CASE RunPipeline
  BY <1>2, FrameAdder DEF RunPipeline
<1>3. CASE StopCheck
  BY <1>3, FrameAdder DEF StopCheck
<1>4. CASE StopCancel
  BY <1>4, FrameAdder DEF StopCancel
<1>5. CASE StopSet
  BY <1>5, FrameAdder DEF StopSet
<1>6. QED
  BY <1>1, <1>2, <1>3, <1>4, <1>5 DEF Resume

LEMMA CommandAdder ==
    ASSUME TypeOK, AdderInv, Command
    PROVE  AdderInv'
<1> USE DEF managers, cycles, calls, client
<1>1. CASE Execute
  BY <1>1, FrameAdder DEF Execute
<1>2. CASE Start
  BY <1>2, FrameAdder DEF Start
<1>3. ASSUME NEW p \in Pipelines, StartPipeline(p) PROVE AdderInv'
  BY <1>3, FrameAdder DEF StartPipeline
<1>4. ASSUME NEW t \in Tasks, StopTask(t) PROVE AdderInv'
  <2>1. \A v \in Tasks : proc[v] # "none" => proc'[v] # "none"
    BY <1>4 DEF StopTask, TypeOK
  <2>2. QED
    BY <1>4, <2>1, FrameAdder DEF StopTask
<1>5. ASSUME NEW c \in Commands, Refuse(c) PROVE AdderInv'
  BY <1>5, FrameAdder DEF Refuse
<1>6. QED
  BY <1>1, <1>2, <1>3, <1>4, <1>5 DEF Command

\* The calls of add_worker keep their callers and their order.
LEMMA NextAdder == TypeOK /\ AdderInv /\ [Next]_vars => AdderInv'
<1> SUFFICES ASSUME TypeOK, AdderInv, [Next]_vars PROVE AdderInv'
  OBVIOUS
<1>1. ASSUME NEW t \in Tasks, Exit(t) PROVE AdderInv'
  <2>1. \A v \in Tasks : proc[v] # "none" => proc'[v] # "none"
    BY <1>1 DEF Exit, TypeOK
  <2>2. QED
    BY <1>1, <2>1, FrameAdder DEF Exit, managers, client
<1>2. ASSUME NEW t \in Tasks, Adding(t) PROVE AdderInv'
  BY <1>2, AddingCallers, AddingOnce DEF AdderInv
<1>3. ASSUME NEW t \in Tasks, Completing(t) PROVE AdderInv'
  BY <1>3, CompletingAdder DEF AdderInv
<1>4. CASE UNCHANGED vars
  BY <1>4, FrameAdder DEF vars, managers, client
<1>5. QED
  BY <1>1, <1>2, <1>3, <1>4, ResumeAdder, CommandAdder DEF Next

-----------------------------------------------------------------------------
(***************************************************************************)
(* The inductive invariant: places, processes, states and verdicts.        *)
(***************************************************************************)

\* What the steps of every thread keep, besides TypeOK and AdderInv.
Facts == CompInv /\ InOrder /\ StatusMatchesExit /\ VerdictMatchesTasks /\ FinallyOnce

\* A step that moves one completion thread, and changes no process and no
\* state, has to establish what that thread claims at its new place.
LEMMA PlaceStep ==
    ASSUME Facts, NEW t \in Tasks, UNCHANGED <<proc, tcycle, pcycle>>,
           \A v \in Tasks : v # t => comp'[v] = comp[v] /\ finals'[v] = finals[v],
           TaskAt(t)', PipelineAt(t)', FinallyAt(t)',
           finals'[t] <= 1 /\ (finals'[t] = 1 => Exited(t))
    PROVE  Facts'
<1>1. InOrder' /\ StatusMatchesExit' /\ VerdictMatchesTasks'
  BY DEF Facts, InOrder, StatusMatchesExit, VerdictMatchesTasks
<1>2. FinallyOnce'
  BY DEF Facts, FinallyOnce, Exited
<1>3. ASSUME NEW v \in Tasks PROVE TaskAt(v)' /\ PipelineAt(v)' /\ FinallyAt(v)'
  <2>1. CASE v = t
    BY <2>1
  <2>2. CASE v # t
    <3>1. TaskAt(v) /\ PipelineAt(v) /\ FinallyAt(v)
      BY DEF Facts, CompInv
    <3>2. comp'[v] = comp[v] /\ finals'[v] = finals[v]
      BY <2>2
    <3>3. TaskAt(v)'
      BY <3>1, <3>2 DEF TaskAt, Exited, Succeeded, IsLast
    <3>4. PipelineAt(v)'
      BY <3>1, <3>2 DEF PipelineAt, Succeeded
    <3>5. FinallyAt(v)'
      BY <3>1, <3>2 DEF FinallyAt, Succeeded
    <3>6. QED
      BY <3>3, <3>4, <3>5
  <2>3. QED
    BY <2>1, <2>2
<1>4. QED
  BY <1>1, <1>2, <1>3 DEF Facts, CompInv

\* A step that touches none of this.
LEMMA FrameFacts ==
    ASSUME Facts, UNCHANGED <<proc, tcycle, pcycle, comp, finals>>
    PROVE  Facts'
<1>1. InOrder' /\ StatusMatchesExit' /\ VerdictMatchesTasks'
  BY DEF Facts, InOrder, StatusMatchesExit, VerdictMatchesTasks
<1>2. FinallyOnce'
  BY DEF Facts, FinallyOnce, Exited
<1>3. CompInv'
  BY DEF Facts, CompInv, TaskAt, PipelineAt, FinallyAt, Exited, Succeeded, IsLast
<1>4. QED
  BY <1>1, <1>2, <1>3 DEF Facts

\* A return from add_worker ends the waiting of the caller.
LEMMA ReturnsFacts ==
    ASSUME TypeOK, Facts, AdderInv, NEW t \in Tasks, NEW raised, AddReturns(t, raised),
           adder[t] # "off", UNCHANGED <<proc, tcycle, pcycle, finals>>
    PROVE  Facts'
<1>1. CASE t[2] = 1
  BY <1>1, FrameFacts DEF AddReturns
<1>2. CASE t[2] # 1
  <2> DEFINE c == Prev(t)
  <2>1. c \in Tasks /\ comp[c] = "next"
    BY <1>2, PrevIsTask DEF AdderInv, CallerWaits
  <2>2. comp'[c] \in {"report", "close"} /\ \A v \in Tasks : v # c => comp'[v] = comp[v]
    BY <1>2, <2>1 DEF AddReturns, TypeOK
  <2>3. TaskAt(c) /\ FinallyAt(c) /\ finals[c] <= 1 /\ (finals[c] = 1 => Exited(c))
    BY <2>1 DEF Facts, CompInv, FinallyOnce
  <2>4. TaskAt(c)'
    BY <2>1, <2>2, <2>3 DEF TaskAt, Exited, Succeeded
  <2>5. PipelineAt(c)'
    BY <2>2 DEF PipelineAt
  <2>6. FinallyAt(c)'
    BY <2>2 DEF FinallyAt
  <2>7. QED
    BY <2>1, <2>2, <2>3, <2>4, <2>5, <2>6, PlaceStep
<1>3. QED
  BY <1>1, <1>2

\* While the worker of t is added, all tasks before t have succeeded and t is
\* not cancelled.
LEMMA BeforeAdded ==
    ASSUME TypeOK, Facts, AdderInv, NEW t \in Tasks, adder[t] # "off"
    PROVE  /\ \A u \in Before(t) : tcycle[u] = "success" /\ proc[u] = "ok"
           /\ tcycle[t] # "canceled"
<1>1. \A u \in Before(t) : u \in Tasks /\ u[1] = t[1] /\ u[2] < t[2] /\ u[2] \in Nat \ {0}
  BY TaskIsPair DEF Before, Of
<1>2. t[2] \in Nat \ {0}
  BY TaskIsPair
<1>3. \A u \in Before(t) : tcycle[u] = "success" /\ proc[u] = "ok"
  <2>1. CASE t[2] = 1
    BY <1>1, <2>1
  <2>2. CASE t[2] # 1
    <3> DEFINE c == Prev(t)
    <3>1. c \in Tasks /\ c[1] = t[1] /\ c[2] = t[2] - 1 /\ comp[c] = "next"
      BY <2>2, PrevIsTask DEF AdderInv, CallerWaits
    <3>2. tcycle[c] = "success" /\ proc[c] = "ok"
      BY <3>1 DEF Facts, CompInv, TaskAt, Succeeded
    <3>3. ASSUME NEW u \in Before(t) PROVE tcycle[u] = "success" /\ proc[u] = "ok"
      <4>1. CASE u[2] = c[2]
        <5>1. u = c
          BY <1>1, <3>1, <4>1, SamePlace
        <5>2. QED
          BY <3>2, <5>1
      <4>2. CASE u[2] # c[2]
        <5>1. u \in Before(c)
          BY <1>1, <1>2, <3>1, <4>2 DEF Before, Of
        <5>2. QED
          BY <3>1, <3>2, <5>1 DEF Facts, InOrder
      <4>3. QED
        BY <4>1, <4>2
    <3>4. QED
      BY <3>3
  <2>3. QED
    BY <2>1, <2>2
<1>4. tcycle[t] # "canceled"
  BY <1>3 DEF Facts, VerdictMatchesTasks
<1>5. QED
  BY <1>3, <1>4

\* The process of t starts: it is the first that is not behind a success.
LEMMA SpawnFacts ==
    ASSUME TypeOK, Facts, AdderInv, NEW t \in Tasks, adder[t] = "attached",
           proc' = [proc EXCEPT ![t] = "alive"], UNCHANGED <<tcycle, pcycle, comp, finals>>
    PROVE  Facts'
<1>1. proc'[t] = "alive" /\ \A v \in Tasks : v # t => proc'[v] = proc[v]
  BY DEF TypeOK
<1>2. comp[t] = "off" /\ tcycle[t] \notin {"success", "failed"} /\ finals[t] = 0
  BY DEF AdderInv, AddedOnce, Facts, CompInv, TaskAt, FinallyAt
<1>3. tcycle[t] # "canceled" /\ \A u \in Before(t) : tcycle[u] = "success" /\ proc[u] = "ok"
  BY BeforeAdded
<1>4. InOrder'
  <2> SUFFICES ASSUME NEW v \in Tasks, proc'[v] # "none", NEW u \in Before(v)
               PROVE  tcycle[u] = "success" /\ proc'[u] = "ok"
    BY DEF InOrder, Before, Of
  <2>1. u \in Tasks
    BY DEF Before, Of
  <2>2. tcycle[u] = "success" /\ proc[u] = "ok"
    BY <1>1, <1>3 DEF Facts, InOrder
  <2>3. QED
    BY <1>1, <1>2, <2>1, <2>2
<1>5. StatusMatchesExit'
  BY <1>1, <1>2, <1>3 DEF Facts, StatusMatchesExit
<1>6. VerdictMatchesTasks'
  BY DEF Facts, VerdictMatchesTasks
<1>7. FinallyOnce'
  BY <1>1, <1>2 DEF Facts, FinallyOnce, Exited
<1>8. ASSUME NEW v \in Tasks PROVE TaskAt(v)' /\ PipelineAt(v)' /\ FinallyAt(v)'
  <2>1. TaskAt(v) /\ PipelineAt(v) /\ FinallyAt(v)
    BY DEF Facts, CompInv
  <2>2. CASE v = t
    BY <1>1, <1>2, <2>1, <2>2 DEF TaskAt, PipelineAt, FinallyAt
  <2>3. CASE v # t
    BY <1>1, <2>1, <2>3 DEF TaskAt, PipelineAt, FinallyAt, Exited, Succeeded, IsLast
  <2>4. QED
    BY <2>2, <2>3
<1>9. QED
  BY <1>4, <1>5, <1>6, <1>7, <1>8 DEF Facts, CompInv

\* A change of tcycle[t] alone, from a state that is not final, keeps what is
\* said of outcomes.
LEMMA StatusOutcome ==
    ASSUME TypeOK, Facts, NEW t \in Tasks, NEW s \in Statuses,
           tcycle[t] \in {"pending", "running"}, s # "canceled",
           tcycle' = [tcycle EXCEPT ![t] = s], UNCHANGED <<proc, pcycle, finals>>,
           s = "success" => proc[t] = "ok", s = "failed" => proc[t] = "failed"
    PROVE  InOrder' /\ StatusMatchesExit' /\ VerdictMatchesTasks' /\ FinallyOnce'
<1>1. tcycle'[t] = s /\ \A v \in Tasks : v # t => tcycle'[v] = tcycle[v]
  BY DEF TypeOK
<1>2. InOrder'
  BY <1>1 DEF Facts, InOrder, Before, Of
<1>3. StatusMatchesExit'
  BY <1>1 DEF Facts, StatusMatchesExit
<1>4. VerdictMatchesTasks'
  <2>1. ASSUME NEW p \in Pipelines
        PROVE  /\ pcycle[p] = "success" => \A u \in Of(p) : tcycle'[u] = "success"
               /\ pcycle[p] = "failed" => \E u \in Of(p) : tcycle'[u] = "failed"
               /\ pcycle[p] # "canceled"
    <3>1. pcycle[p] = "success" => \A u \in Of(p) : tcycle'[u] = "success"
      BY <1>1 DEF Facts, VerdictMatchesTasks, Of
    <3>2. pcycle[p] = "failed" => \E u \in Of(p) : tcycle'[u] = "failed"
      BY <1>1 DEF Facts, VerdictMatchesTasks, Of
    <3>3. QED
      BY <3>1, <3>2 DEF Facts, VerdictMatchesTasks
  <2>2. ASSUME NEW v \in Tasks, tcycle'[v] = "canceled"
        PROVE  pcycle[v[1]] = "failed" /\ \E u \in Before(v) : tcycle'[u] = "failed"
    BY <1>1, <2>2 DEF Facts, VerdictMatchesTasks, Before, Of
  <2>3. QED
    BY <2>1, <2>2 DEF VerdictMatchesTasks, Of, Before
<1>5. FinallyOnce'
  BY DEF Facts, FinallyOnce, Exited
<1>6. QED
  BY <1>2, <1>3, <1>4, <1>5

\* The same with what the threads claim: only that of t may move.
LEMMA StatusStep ==
    ASSUME TypeOK, Facts, NEW t \in Tasks, NEW s \in Statuses,
           tcycle[t] \in {"pending", "running"}, s # "canceled",
           tcycle' = [tcycle EXCEPT ![t] = s], UNCHANGED <<proc, pcycle, finals>>,
           s = "success" => proc[t] = "ok", s = "failed" => proc[t] = "failed",
           \A v \in Tasks : v # t => comp'[v] = comp[v],
           TaskAt(t)', PipelineAt(t)', FinallyAt(t)'
    PROVE  Facts'
<1>1. \A v \in Tasks : v # t => tcycle'[v] = tcycle[v]
  BY DEF TypeOK
<1>2. InOrder' /\ StatusMatchesExit' /\ VerdictMatchesTasks' /\ FinallyOnce'
  BY StatusOutcome
<1>3. ASSUME NEW v \in Tasks PROVE TaskAt(v)' /\ PipelineAt(v)' /\ FinallyAt(v)'
  <2>1. TaskAt(v) /\ PipelineAt(v) /\ FinallyAt(v)
    BY DEF Facts, CompInv
  <2>2. CASE v = t
    BY <2>2
  <2>3. CASE v # t
    BY <1>1, <2>1, <2>3 DEF TaskAt, PipelineAt, FinallyAt, Exited, Succeeded, IsLast
  <2>4. QED
    BY <2>2, <2>3
<1>4. QED
  BY <1>2, <1>3 DEF Facts, CompInv

\* Every step of a thread that adds a worker.
LEMMA AddingFacts ==
    ASSUME TypeOK, Facts, AdderInv, NEW t \in Tasks, Adding(t)
    PROVE  Facts'
<1> USE DEF managers, cycles, calls
<1>1. CASE AddCheck(t)
  BY <1>1, ReturnsFacts, FrameFacts DEF AddCheck
<1>2. CASE Spawn(t)
  BY <1>2, ReturnsFacts, SpawnFacts DEF Spawn
<1>3. CASE SetInit(t)
  BY <1>3, ReturnsFacts DEF SetInit
<1>4. CASE OnTaskStart(t)
  <2>1. CASE ~Legal(tcycle[t], "running")
    BY <1>4, <2>1, ReturnsFacts DEF OnTaskStart
  <2>2. CASE Legal(tcycle[t], "running")
    <3>1. tcycle[t] = "pending" /\ tcycle' = [tcycle EXCEPT ![t] = "running"]
      BY <1>4, <2>2 DEF OnTaskStart, Legal, Transitions, Final
    <3>2. UNCHANGED <<proc, pcycle, finals>> /\ adder[t] = "spawned"
      BY <1>4 DEF OnTaskStart
    <3>3. comp[t] = "off" /\ proc[t] # "none" /\ finals[t] = 0
      BY <3>2 DEF AdderInv, AddedOnce, Facts, CompInv, FinallyAt
    <3>4. "running" \in Statuses /\ tcycle'[t] = "running"
      BY <3>1 DEF Statuses, TypeOK
    <3>5. CASE comp' = [comp EXCEPT ![t] = "wait"]
      <4>1. comp'[t] = "wait" /\ \A v \in Tasks : v # t => comp'[v] = comp[v]
        BY <3>5 DEF TypeOK
      <4>2. TaskAt(t)' /\ PipelineAt(t)' /\ FinallyAt(t)'
        BY <3>2, <3>3, <3>4, <4>1 DEF TaskAt, PipelineAt, FinallyAt
      <4>3. QED
        BY <3>1, <3>2, <3>4, <4>1, <4>2, StatusStep
    <3>6. ASSUME NEW raised, AddReturns(t, raised) PROVE Facts'
      <4>1. CASE t[2] = 1
        <5>1. UNCHANGED comp
          BY <3>6, <4>1 DEF AddReturns
        <5>2. TaskAt(t)' /\ PipelineAt(t)' /\ FinallyAt(t)'
          BY <3>2, <3>3, <3>4, <5>1 DEF TaskAt, PipelineAt, FinallyAt
        <5>3. QED
          BY <3>1, <3>2, <3>4, <5>1, <5>2, StatusStep
      <4>2. CASE t[2] # 1
        <5> DEFINE c == Prev(t)
        <5>1. c \in Tasks /\ comp[c] = "next" /\ c # t
          BY <3>2, <3>3, <4>2, PrevIsTask DEF AdderInv, CallerWaits
        <5>2. comp'[c] \in {"report", "close"} /\ \A v \in Tasks : v # c => comp'[v] = comp[v]
          BY <3>6, <4>2, <5>1 DEF AddReturns, TypeOK
        <5>3. tcycle'[c] = tcycle[c] /\ \A v \in Tasks : v # t => tcycle'[v] = tcycle[v]
          BY <3>1, <5>1 DEF TypeOK
        <5>4. \A v \in Tasks : TaskAt(v) /\ PipelineAt(v) /\ FinallyAt(v)
          BY DEF Facts, CompInv
        <5>5. TaskAt(t)' /\ PipelineAt(t)' /\ FinallyAt(t)'
          BY <3>2, <3>3, <3>4, <5>1, <5>2 DEF TaskAt, PipelineAt, FinallyAt
        <5>6. TaskAt(c)' /\ PipelineAt(c)' /\ FinallyAt(c)'
          BY <3>2, <5>1, <5>2, <5>3, <5>4 DEF TaskAt, PipelineAt, FinallyAt, Exited, Succeeded
        <5>7. \A v \in Tasks : v # t /\ v # c => TaskAt(v)' /\ PipelineAt(v)' /\ FinallyAt(v)'
          BY <3>2, <5>2, <5>3, <5>4 DEF TaskAt, PipelineAt, FinallyAt, Exited, Succeeded, IsLast
        <5>8. CompInv'
          BY <5>5, <5>6, <5>7 DEF CompInv
        <5>9. InOrder' /\ StatusMatchesExit' /\ VerdictMatchesTasks' /\ FinallyOnce'
          BY <3>1, <3>2, <3>4, StatusOutcome
        <5>10. QED
          BY <5>8, <5>9 DEF Facts
      <4>3. QED
        BY <4>1, <4>2
    <3>7. QED
      BY <1>4, <2>2, <3>5, <3>6 DEF OnTaskStart
  <2>3. QED
    BY <2>1, <2>2
<1>5. QED
  BY <1>1, <1>2, <1>3, <1>4 DEF Adding

\* A process that runs gets a signal or ends: no state depends on it yet.
LEMMA ProcessFacts ==
    ASSUME TypeOK, Facts, NEW t \in Tasks, proc[t] \in {"alive", "terminated"},
           NEW x \in {"terminated", "ok", "failed"}, proc' = [proc EXCEPT ![t] = x],
           UNCHANGED <<tcycle, pcycle, comp, finals>>
    PROVE  Facts'
<1>1. proc'[t] = x /\ \A v \in Tasks : v # t => proc'[v] = proc[v]
  BY DEF TypeOK
<1>2. comp[t] \in {"off", "wait"} /\ finals[t] = 0
  BY DEF Facts, CompInv, TaskAt, FinallyAt, Exited, TypeOK
<1>3. tcycle[t] \notin {"success", "failed", "canceled"}
  BY DEF Facts, StatusMatchesExit
<1>4. InOrder'
  <2> SUFFICES ASSUME NEW v \in Tasks, proc'[v] # "none", NEW u \in Before(v)
               PROVE  tcycle[u] = "success" /\ proc'[u] = "ok"
    BY DEF InOrder, Before, Of
  <2>1. u \in Tasks /\ proc[v] # "none"
    BY <1>1 DEF Before, Of
  <2>2. tcycle[u] = "success" /\ proc[u] = "ok"
    BY <2>1 DEF Facts, InOrder
  <2>3. QED
    BY <1>1, <1>3, <2>1, <2>2
<1>5. StatusMatchesExit'
  BY <1>1, <1>3 DEF Facts, StatusMatchesExit
<1>6. VerdictMatchesTasks'
  BY DEF Facts, VerdictMatchesTasks
<1>7. FinallyOnce'
  BY <1>1, <1>2 DEF Facts, FinallyOnce, Exited
<1>8. ASSUME NEW v \in Tasks PROVE TaskAt(v)' /\ PipelineAt(v)' /\ FinallyAt(v)'
  <2>1. TaskAt(v) /\ PipelineAt(v) /\ FinallyAt(v)
    BY DEF Facts, CompInv
  <2>2. CASE v = t
    BY <1>1, <1>2, <2>1, <2>2 DEF TaskAt, PipelineAt, FinallyAt
  <2>3. CASE v # t
    BY <1>1, <2>1, <2>3 DEF TaskAt, PipelineAt, FinallyAt, Exited, Succeeded, IsLast
  <2>4. QED
    BY <2>2, <2>3
<1>9. QED
  BY <1>4, <1>5, <1>6, <1>7, <1>8 DEF Facts, CompInv

\* A pipeline that is not final yet moves: to RUNNING, or to a verdict its
\* tasks bear out.
LEMMA VerdictStep ==
    ASSUME TypeOK, Facts, NEW p \in Pipelines, NEW s \in {"running", "success", "failed"},
           pcycle[p] \in {"pending", "running"}, pcycle' = [pcycle EXCEPT ![p] = s],
           UNCHANGED <<proc, tcycle, finals>>,
           s = "success" => \A u \in Of(p) : tcycle[u] = "success",
           s = "failed" => \E u \in Of(p) : tcycle[u] = "failed",
           \A v \in Tasks : comp'[v] = comp[v] \/ (TaskAt(v)' /\ PipelineAt(v)' /\ FinallyAt(v)')
    PROVE  Facts'
<1>1. pcycle'[p] = s /\ \A q \in Pipelines : q # p => pcycle'[q] = pcycle[q]
  BY DEF TypeOK
<1>2. \A v \in Tasks : v[1] \in Pipelines
  BY TaskIsPair
<1>3. InOrder' /\ StatusMatchesExit'
  BY DEF Facts, InOrder, StatusMatchesExit
<1>4. VerdictMatchesTasks'
  <2>1. ASSUME NEW q \in Pipelines
        PROVE  /\ pcycle'[q] = "success" => \A u \in Of(q) : tcycle[u] = "success"
               /\ pcycle'[q] = "failed" => \E u \in Of(q) : tcycle[u] = "failed"
               /\ pcycle'[q] # "canceled"
    BY <1>1 DEF Facts, VerdictMatchesTasks
  <2>2. ASSUME NEW v \in Tasks, tcycle[v] = "canceled"
        PROVE  pcycle'[v[1]] = "failed" /\ \E u \in Before(v) : tcycle[u] = "failed"
    <3>1. pcycle[v[1]] = "failed" /\ \E u \in Before(v) : tcycle[u] = "failed"
      BY <2>2 DEF Facts, VerdictMatchesTasks
    <3>2. QED
      BY <1>1, <1>2, <3>1
  <2>3. QED
    BY <2>1, <2>2 DEF VerdictMatchesTasks, Of, Before
<1>5. FinallyOnce'
  BY DEF Facts, FinallyOnce, Exited
<1>6. ASSUME NEW v \in Tasks PROVE TaskAt(v)' /\ PipelineAt(v)' /\ FinallyAt(v)'
  <2>1. TaskAt(v) /\ PipelineAt(v) /\ FinallyAt(v)
    BY DEF Facts, CompInv
  <2>2. CASE comp'[v] = comp[v]
    <3>1. TaskAt(v)'
      BY <2>1, <2>2 DEF TaskAt, Exited, Succeeded, IsLast
    <3>2. PipelineAt(v)'
      BY <1>1, <1>2, <2>1, <2>2 DEF PipelineAt, Succeeded
    <3>3. FinallyAt(v)'
      BY <2>1, <2>2 DEF FinallyAt, Succeeded
    <3>4. QED
      BY <3>1, <3>2, <3>3
  <2>3. QED
    BY <2>2
<1>7. QED
  BY <1>3, <1>4, <1>5, <1>6 DEF Facts, CompInv

\* Places a thread reaches without changing anything else.
LEMMA MoveFacts ==
    ASSUME TypeOK, Facts, NEW t \in Tasks, NEW x, comp' = [comp EXCEPT ![t] = x],
           UNCHANGED <<proc, tcycle, pcycle, finals>>,
           TaskAt(t)', PipelineAt(t)', FinallyAt(t)'
    PROVE  Facts'
<1>1. \A v \in Tasks : v # t => comp'[v] = comp[v] /\ finals'[v] = finals[v]
  BY DEF TypeOK
<1>2. finals'[t] <= 1 /\ (finals'[t] = 1 => Exited(t))
  BY DEF Facts, FinallyOnce
<1>3. QED
  BY <1>1, <1>2, PlaceStep

\* The steps of a completion thread that change no state of a cycle.
LEMMA PlacesFacts ==
    ASSUME TypeOK, Facts, NEW t \in Tasks,
           \/ Completed(t) \/ CleanupCheck(t) \/ CleanupCancel(t) \/ CleanupSet(t)
           \/ OnFinally(t) \/ NextTask(t) \/ Report(t) \/ Close(t)
    PROVE  Facts'
<1> USE DEF managers, cycles, calls
<1>1. TaskAt(t) /\ PipelineAt(t) /\ FinallyAt(t)
  BY DEF Facts, CompInv
<1>2. finals[t] \in Nat /\ finals[t] <= 1 /\ (finals[t] = 1 => Exited(t))
  BY DEF Facts, FinallyOnce, TypeOK
<1>3. CASE Completed(t)
  <2>1. tcycle[t] \in {"running", "success", "failed"} /\ proc[t] \in {"ok", "failed"} /\ finals[t] = 0
    BY <1>1, <1>3 DEF Completed, TaskAt, FinallyAt
  <2> DEFINE x == IF PairOf[t] \in done THEN "close" ELSE IF Succeeded(t) THEN "check" ELSE "task"
  <2>2. comp' = [comp EXCEPT ![t] = x] /\ UNCHANGED <<proc, tcycle, pcycle, finals>>
    BY <1>3 DEF Completed
  <2>3. comp'[t] = x /\ x \in {"close", "check", "task"} /\ (x = "check" => Succeeded(t))
        /\ (x = "task" => ~Succeeded(t))
    BY <2>2 DEF TypeOK
  <2> HIDE DEF x
  <2>4. TaskAt(t)' /\ PipelineAt(t)' /\ FinallyAt(t)'
    BY <2>1, <2>2, <2>3 DEF TaskAt, PipelineAt, FinallyAt, Exited, Succeeded
  <2>5. QED
    BY <2>2, <2>4, MoveFacts
<1>4. CASE CleanupCheck(t)
  <2> DEFINE x == IF PairOf[t] \in done THEN "set" ELSE "cancel"
  <2>1. comp[t] = "check" /\ comp' = [comp EXCEPT ![t] = x] /\ UNCHANGED <<proc, tcycle, pcycle, finals>>
    BY <1>4 DEF CleanupCheck
  <2>2. comp'[t] = x /\ x \in {"set", "cancel"}
    BY <2>1 DEF TypeOK
  <2> HIDE DEF x
  <2>3. TaskAt(t)' /\ PipelineAt(t)' /\ FinallyAt(t)'
    BY <1>1, <2>1, <2>2 DEF TaskAt, PipelineAt, FinallyAt, Exited, Succeeded
  <2>4. QED
    BY <2>1, <2>3, MoveFacts
<1>5. CASE CleanupCancel(t)
  <2>1. comp[t] = "cancel" /\ UNCHANGED <<proc, tcycle, pcycle, finals>>
    BY <1>5 DEF CleanupCancel
  <2>2. PICK x \in {"report", "set"} : comp' = [comp EXCEPT ![t] = x]
    BY <1>5 DEF CleanupCancel
  <2>3. comp'[t] = x
    BY <2>2 DEF TypeOK
  <2>4. TaskAt(t)' /\ PipelineAt(t)' /\ FinallyAt(t)'
    BY <1>1, <2>1, <2>3 DEF TaskAt, PipelineAt, FinallyAt, Exited, Succeeded
  <2>5. QED
    BY <2>1, <2>2, <2>4, MoveFacts
<1>6. CASE CleanupSet(t)
  <2>1. comp[t] = "set" /\ UNCHANGED <<proc, tcycle, pcycle, finals>>
    BY <1>6 DEF CleanupSet
  <2>2. PICK x : comp' = [comp EXCEPT ![t] = x] /\ x = (IF Succeeded(t) THEN "finally" ELSE "rest")
    BY <1>6 DEF CleanupSet, Continue, Then, AfterSuccess, AfterFailure
  <2>3. comp'[t] = x
    BY <2>2 DEF TypeOK
  <2>4. TaskAt(t)' /\ PipelineAt(t)' /\ FinallyAt(t)'
    BY <1>1, <2>1, <2>2, <2>3 DEF TaskAt, PipelineAt, FinallyAt, Exited, Succeeded
  <2>5. QED
    BY <2>1, <2>2, <2>4, MoveFacts
<1>7. CASE OnFinally(t)
  <2>1. comp[t] = "finally" /\ UNCHANGED <<proc, tcycle, pcycle>> /\ finals' = [finals EXCEPT ![t] = @ + 1]
    BY <1>7 DEF OnFinally
  <2>2. PICK x : /\ comp' = [comp EXCEPT ![t] = x]
                 /\ x = "report" \/ x = (IF Succeeded(t) THEN "task" ELSE "check")
    BY <1>7 DEF OnFinally, Continue, Then, AfterSuccess, AfterFailure
  <2>3. comp'[t] = x /\ \A v \in Tasks : v # t => comp'[v] = comp[v] /\ finals'[v] = finals[v]
    BY <2>1, <2>2 DEF TypeOK
  <2>4. Exited(t) /\ finals[t] = 0
    BY <1>1, <2>1 DEF TaskAt, FinallyAt
  <2>5. finals'[t] = 1
    BY <2>1, <2>4 DEF TypeOK
  <2>6. TaskAt(t)' /\ PipelineAt(t)'
    BY <1>1, <2>1, <2>2, <2>3 DEF TaskAt, PipelineAt, Exited, Succeeded
  <2>7. FinallyAt(t)'
    BY <2>1, <2>2, <2>3 DEF FinallyAt, Succeeded
  <2>8. QED
    BY <2>1, <2>3, <2>4, <2>5, <2>6, <2>7, PlaceStep
<1>8. CASE NextTask(t)
  <2>1. comp[t] = "pipeline" /\ GoesOn(t) /\ comp' = [comp EXCEPT ![t] = "next"]
        /\ UNCHANGED <<proc, tcycle, pcycle, finals>>
    BY <1>8 DEF NextTask
  <2>2. comp'[t] = "next"
    BY <2>1 DEF TypeOK
  <2>3. TaskAt(t)' /\ PipelineAt(t)' /\ FinallyAt(t)'
    BY <1>1, <2>1, <2>2 DEF TaskAt, PipelineAt, FinallyAt, Exited, Succeeded, GoesOn, IsLast
  <2>4. QED
    BY <2>1, <2>3, MoveFacts
<1>9. ASSUME NEW x \in {"ended", "close"}, comp[t] \in {"report", "close"},
             comp' = [comp EXCEPT ![t] = x], UNCHANGED <<proc, tcycle, pcycle, finals>>
      PROVE  Facts'
  <2>1. comp'[t] = x
    BY <1>9 DEF TypeOK
  <2>2. TaskAt(t)' /\ PipelineAt(t)' /\ FinallyAt(t)'
    BY <1>1, <1>9, <2>1 DEF TaskAt, PipelineAt, FinallyAt, Exited, Succeeded
  <2>3. QED
    BY <1>9, <2>2, MoveFacts
<1>10. CASE Report(t)
  <2>1. PICK x \in {"ended", "close"} : comp' = [comp EXCEPT ![t] = x]
    BY <1>10 DEF Report
  <2>2. QED
    BY <1>9, <1>10, <2>1 DEF Report
<1>11. CASE Close(t)
  BY <1>9, <1>11 DEF Close
<1>12. QED
  BY <1>3, <1>4, <1>5, <1>6, <1>7, <1>8, <1>10, <1>11

\* The outcome of t is recorded when its process has ended.
LEMMA SettleTaskFacts ==
    ASSUME TypeOK, Facts, NEW t \in Tasks, SettleTask(t)
    PROVE  Facts'
<1> DEFINE new == IF Succeeded(t) THEN "success" ELSE "failed"
<1>1. TaskAt(t) /\ FinallyAt(t) /\ comp[t] = "task" /\ UNCHANGED <<proc, pcycle, finals>>
  BY DEF Facts, CompInv, SettleTask, managers, calls
<1>2. Exited(t) /\ (~Succeeded(t) => finals[t] = 0 /\ proc[t] = "failed")
  BY <1>1 DEF TaskAt, FinallyAt, Exited, Succeeded
<1>3. CASE LegalAfterCleanup(tcycle[t], new, t \in Backed)
  <2>1. tcycle[t] = "running" /\ new \in {"success", "failed"}
    BY <1>1, <1>3 DEF LegalAfterCleanup, Legal, Transitions, TaskAt
  <2>2. tcycle' = [tcycle EXCEPT ![t] = new]
    BY <1>3 DEF SettleTask
  <2>3. PICK x \in {"report", "pipeline"} : comp' = [comp EXCEPT ![t] = x]
    BY <1>3 DEF SettleTask, Continue, Then, AfterSuccess, AfterFailure
  <2>4. comp'[t] = x /\ tcycle'[t] = new /\ \A v \in Tasks : v # t => comp'[v] = comp[v]
    BY <2>2, <2>3 DEF TypeOK
  <2>5. TaskAt(t)' /\ PipelineAt(t)' /\ FinallyAt(t)'
    BY <1>1, <1>2, <2>1, <2>4 DEF TaskAt, PipelineAt, FinallyAt, Exited, Succeeded
  <2>6. new \in Statuses /\ (new = "success" => proc[t] = "ok") /\ (new = "failed" => proc[t] = "failed")
    BY <1>2, <2>1 DEF Statuses, Succeeded
  <2>7. QED
    BY <1>1, <2>1, <2>2, <2>4, <2>5, <2>6, StatusStep
<1>4. CASE ~LegalAfterCleanup(tcycle[t], new, t \in Backed)
  <2>1. comp' = [comp EXCEPT ![t] = "report"] /\ UNCHANGED <<tcycle>>
    BY <1>4 DEF SettleTask, Continue
  <2>2. comp'[t] = "report"
    BY <2>1 DEF TypeOK
  <2>3. TaskAt(t)' /\ PipelineAt(t)' /\ FinallyAt(t)'
    BY <1>1, <2>1, <2>2 DEF TaskAt, PipelineAt, FinallyAt, Exited, Succeeded
  <2>4. QED
    BY <1>1, <2>1, <2>3, MoveFacts
<1>5. QED
  BY <1>3, <1>4

\* The verdict follows from the state of t: when t is the last task all others
\* come before it, and a cancelled task behind t means the pipeline has failed.
LEMMA SettlePipelineFacts ==
    ASSUME TypeOK, Facts, NEW t \in Tasks, SettlePipeline(t)
    PROVE  Facts'
<1> DEFINE p == t[1]
<1> DEFINE new == IF ~Succeeded(t) THEN "failed"
                  ELSE IF IsLast(t) THEN "success" ELSE "canceled"
<1>1. comp[t] = "pipeline" /\ ~GoesOn(t) /\ UNCHANGED <<proc, tcycle, finals>> /\ p \in Pipelines
  BY TaskIsPair DEF SettlePipeline, managers, calls
<1>2. TaskAt(t) /\ FinallyAt(t)
  BY DEF Facts, CompInv
<1>3. /\ Exited(t) /\ tcycle[t] \in {"running", "success", "failed"}
      /\ Succeeded(t) => tcycle[t] = "success"
      /\ ~Succeeded(t) => tcycle[t] = "failed" /\ finals[t] = 0
  BY <1>1, <1>2 DEF TaskAt, FinallyAt
<1>4. CASE Legal(pcycle[p], new)
  <2>1. pcycle[p] \in {"pending", "running"}
    BY <1>4 DEF Legal, Transitions
  <2>2. new # "canceled"
    <3> SUFFICES ASSUME new = "canceled" PROVE FALSE
      OBVIOUS
    <3>1. Succeeded(t) /\ ~IsLast(t)
      OBVIOUS
    <3>2. tcycle[Succ(t)] = "canceled"
      BY <1>1, <3>1 DEF GoesOn
    <3>3. Succ(t) \in Tasks /\ Succ(t)[1] = p
      BY <3>1, SuccIsTask
    <3>4. pcycle[p] = "failed"
      BY <3>2, <3>3 DEF Facts, VerdictMatchesTasks
    <3>5. QED
      BY <2>1, <3>4
  <2>3. new \in {"success", "failed"}
    BY <2>2
  <2>4. ASSUME new = "success" PROVE \A u \in Of(p) : tcycle[u] = "success"
    <3>1. Succeeded(t) /\ IsLast(t)
      BY <2>2, <2>4
    <3>2. ASSUME NEW u \in Of(p), u # t PROVE u \in Before(t)
      <4>1. u \in Tasks /\ u[1] = p
        BY DEF Of
      <4>2. u[2] \in 1..NTasks[p] /\ NTasks[p] \in Nat /\ t[2] = NTasks[p]
        BY <1>1, <3>1, <4>1, TaskIsPair, OrchestratorAssumption DEF IsLast
      <4>3. u[2] # t[2]
        BY <3>2, <4>1, SamePlace
      <4>4. QED
        BY <3>2, <4>2, <4>3 DEF Before
    <3>3. \A u \in Before(t) : tcycle[u] = "success"
      BY <3>1 DEF Facts, InOrder, Succeeded
    <3>4. QED
      BY <1>3, <3>1, <3>2, <3>3
  <2>5. ASSUME new = "failed" PROVE \E u \in Of(p) : tcycle[u] = "failed"
    <3>1. tcycle[t] = "failed" /\ t \in Of(p)
      BY <1>3, <2>5 DEF Of
    <3>2. QED
      BY <3>1
  <2>6. pcycle' = [pcycle EXCEPT ![p] = new]
    BY <1>4 DEF SettlePipeline
  <2>7. PICK x : /\ comp' = [comp EXCEPT ![t] = x]
                 /\ x \in {"report", "close"} \/ (x = "finally" /\ new = "failed")
    BY <1>4 DEF SettlePipeline
  <2>8. comp'[t] = x /\ pcycle'[p] = new /\ \A v \in Tasks : v # t => comp'[v] = comp[v]
    BY <1>1, <2>6, <2>7 DEF TypeOK
  <2>9. x = "finally" => ~Succeeded(t) /\ pcycle'[p] = "failed"
    BY <2>7, <2>8
  <2>10. x \in {"report", "close", "finally"}
    BY <2>7
  <2> HIDE DEF new
  <2>11. TaskAt(t)' /\ PipelineAt(t)' /\ FinallyAt(t)'
    BY <1>1, <1>2, <1>3, <2>8, <2>9, <2>10 DEF TaskAt, PipelineAt, FinallyAt, Exited, Succeeded
  <2>12. \A v \in Tasks : comp'[v] = comp[v] \/ (TaskAt(v)' /\ PipelineAt(v)' /\ FinallyAt(v)')
    BY <2>8, <2>11
  <2>13. new \in {"running", "success", "failed"}
    BY <2>3
  <2>14. QED
    BY <1>1, <2>1, <2>4, <2>5, <2>6, <2>12, <2>13, VerdictStep
<1>5. CASE ~Legal(pcycle[p], new)
  <2>1. comp' = [comp EXCEPT ![t] = "report"] /\ UNCHANGED pcycle
    BY <1>5 DEF SettlePipeline
  <2>2. comp'[t] = "report"
    BY <2>1 DEF TypeOK
  <2>3. TaskAt(t)' /\ PipelineAt(t)' /\ FinallyAt(t)'
    BY <1>1, <1>2, <2>2 DEF TaskAt, PipelineAt, FinallyAt, Exited, Succeeded
  <2>4. QED
    BY <1>1, <2>1, <2>3, MoveFacts
<1>6. QED
  BY <1>4, <1>5

\* No task behind a failed one has a process, so none is settled yet.
LEMMA CancelRestFacts ==
    ASSUME TypeOK, Facts, NEW t \in Tasks, CancelRest(t)
    PROVE  Facts'
<1> DEFINE behind(k) == {t[1]} \X ((t[2] + 1)..k)
<1>1. comp[t] = "rest" /\ UNCHANGED <<proc, pcycle, finals>>
  BY DEF CancelRest, managers, calls
<1>2. PICK k \in t[2]..NTasks[t[1]] :
        /\ \A u \in behind(k) : LegalAfterCleanup(tcycle[u], "canceled", u \in Backed)
        /\ tcycle' = [u \in Tasks |-> IF u \in behind(k) THEN "canceled" ELSE tcycle[u]]
        /\ \E x \in {"close", "report"} : comp' = [comp EXCEPT ![t] = x]
  BY DEF CancelRest
<1>3. TaskAt(t) /\ PipelineAt(t) /\ FinallyAt(t)
  BY DEF Facts, CompInv
<1>4. ~Succeeded(t) /\ Exited(t) /\ tcycle[t] = "failed" /\ pcycle[t[1]] = "failed"
  BY <1>1, <1>3 DEF TaskAt, PipelineAt
<1>5. ASSUME NEW u \in Tasks, u \in behind(k)
      PROVE  /\ t \in Before(u) /\ u[1] = t[1] /\ proc[u] = "none" /\ comp[u] = "off"
             /\ tcycle[u] \in {"pending", "running"}
  <2>1. u[1] = t[1] /\ u[2] \in (t[2] + 1)..k
    BY <1>5
  <2>2. t[2] \in Nat /\ k \in Int /\ t[2] < u[2]
    BY <2>1, TaskIsPair, OrchestratorAssumption
  <2>3. t \in Before(u)
    BY <2>1, <2>2 DEF Before, Of
  <2>4. proc[u] = "none"
    BY <1>4, <2>3 DEF Facts, InOrder
  <2>5. comp[u] = "off"
    BY <2>4 DEF Facts, CompInv, TaskAt
  <2>6. tcycle[u] \in {"pending", "running"}
    BY <1>2, <1>5 DEF LegalAfterCleanup, Legal, Transitions
  <2>7. QED
    BY <2>1, <2>3, <2>4, <2>5, <2>6
<1>6. \A u \in Tasks : IF u \in behind(k) THEN tcycle'[u] = "canceled" ELSE tcycle'[u] = tcycle[u]
  BY <1>2
<1> HIDE DEF behind
<1>7. \A u \in Tasks : tcycle[u] \notin {"pending", "running"} => tcycle'[u] = tcycle[u]
  BY <1>5, <1>6
<1>8. \A u \in Tasks : tcycle'[u] \in {"success", "failed"} => tcycle'[u] = tcycle[u]
  BY <1>6
<1>9. \A v \in Tasks : \A u \in Before(v) : u \in Tasks
  BY DEF Before, Of
<1>10. InOrder'
  BY <1>1, <1>7, <1>9 DEF Facts, InOrder, Before, Of
<1>11. StatusMatchesExit'
  <2> SUFFICES ASSUME NEW v \in Tasks
               PROVE  /\ tcycle'[v] = "success" => proc[v] = "ok"
                      /\ tcycle'[v] = "failed" => proc[v] = "failed"
                      /\ tcycle'[v] = "canceled" => proc[v] = "none"
    BY <1>1 DEF StatusMatchesExit
  <2>1. CASE v \in behind(k)
    BY <1>5, <1>6, <2>1
  <2>2. CASE v \notin behind(k)
    BY <1>6, <2>2 DEF Facts, StatusMatchesExit
  <2>3. QED
    BY <2>1, <2>2
<1>12. VerdictMatchesTasks'
  <2>1. ASSUME NEW q \in Pipelines
        PROVE  /\ pcycle[q] = "success" => \A u \in Of(q) : tcycle'[u] = "success"
               /\ pcycle[q] = "failed" => \E u \in Of(q) : tcycle'[u] = "failed"
               /\ pcycle[q] # "canceled"
    <3>1. \A u \in Of(q) : u \in Tasks
      BY DEF Of
    <3>2. pcycle[q] = "success" => \A u \in Of(q) : tcycle'[u] = "success"
      BY <1>7, <3>1 DEF Facts, VerdictMatchesTasks
    <3>3. pcycle[q] = "failed" => \E u \in Of(q) : tcycle'[u] = "failed"
      BY <1>7, <3>1 DEF Facts, VerdictMatchesTasks
    <3>4. QED
      BY <3>2, <3>3 DEF Facts, VerdictMatchesTasks
  <2>2. ASSUME NEW v \in Tasks, tcycle'[v] = "canceled"
        PROVE  pcycle[v[1]] = "failed" /\ \E u \in Before(v) : tcycle'[u] = "failed"
    <3>1. CASE v \in behind(k)
      <4>1. t \in Before(v) /\ v[1] = t[1]
        BY <1>5, <3>1
      <4>2. tcycle'[t] = "failed"
        BY <1>4, <1>7
      <4>3. QED
        BY <1>4, <4>1, <4>2
    <3>2. CASE v \notin behind(k)
      <4>1. tcycle[v] = "canceled"
        BY <1>6, <2>2, <3>2
      <4>2. pcycle[v[1]] = "failed" /\ \E u \in Before(v) : tcycle[u] = "failed"
        BY <4>1 DEF Facts, VerdictMatchesTasks
      <4>3. QED
        BY <1>7, <1>9, <4>2
    <3>3. QED
      BY <3>1, <3>2
  <2>3. QED
    BY <1>1, <2>1, <2>2 DEF VerdictMatchesTasks, Of, Before
<1>13. FinallyOnce'
  BY <1>1 DEF Facts, FinallyOnce, Exited
<1>14. PICK x \in {"close", "report"} : comp' = [comp EXCEPT ![t] = x]
  BY <1>2
<1>15. comp'[t] = x /\ \A v \in Tasks : v # t => comp'[v] = comp[v]
  BY <1>14 DEF TypeOK
<1>16. ASSUME NEW v \in Tasks PROVE TaskAt(v)' /\ PipelineAt(v)' /\ FinallyAt(v)'
  <2>1. TaskAt(v) /\ PipelineAt(v) /\ FinallyAt(v)
    BY DEF Facts, CompInv
  <2>2. CASE v = t
    <3>1. tcycle'[t] = "failed"
      BY <1>4, <1>7
    <3>2. QED
      BY <1>1, <1>4, <1>15, <2>1, <2>2, <3>1 DEF TaskAt, PipelineAt, FinallyAt, Exited, Succeeded
  <2>3. CASE v # t /\ v \in behind(k)
    <3>1. comp'[v] = "off" /\ tcycle'[v] = "canceled" /\ finals[v] = 0
      BY <1>5, <1>6, <1>15, <2>1, <2>3 DEF FinallyAt
    <3>2. QED
      BY <1>1, <3>1 DEF TaskAt, PipelineAt, FinallyAt
  <2>4. CASE v # t /\ v \notin behind(k)
    <3>1. comp'[v] = comp[v] /\ tcycle'[v] = tcycle[v]
      BY <1>6, <1>15, <2>4
    <3>2. QED
      BY <1>1, <2>1, <3>1 DEF TaskAt, PipelineAt, FinallyAt, Exited, Succeeded, IsLast
  <2>5. QED
    BY <2>2, <2>3, <2>4
<1>17. QED
  BY <1>10, <1>11, <1>12, <1>13, <1>16 DEF Facts, CompInv

\* The steps of the client's thread inside a command.
LEMMA ResumeFacts ==
    ASSUME TypeOK, Facts, Resume
    PROVE  Facts'
<1> USE DEF managers, cycles, calls
<1>1. CASE FirstTask
  BY <1>1, FrameFacts DEF FirstTask
<1>2. CASE RunPipeline
  <2>1. CASE ~Legal(pcycle[target], "running")
    BY <1>2, <2>1, FrameFacts DEF RunPipeline
  <2>2. CASE Legal(pcycle[target], "running")
    <3>1. pcycle[target] = "pending" /\ target \in Pipelines
      BY <2>2 DEF Legal, Transitions, Final, TypeOK
    <3>2. pcycle' = [pcycle EXCEPT ![target] = "running"] /\ UNCHANGED <<proc, tcycle, finals, comp>>
      BY <1>2, <2>2 DEF RunPipeline
    <3>3. QED
      BY <3>1, <3>2, VerdictStep
  <2>3. QED
    BY <2>1, <2>2
<1>3. CASE StopCheck
  BY <1>3, FrameFacts DEF StopCheck
<1>4. CASE StopCancel
  BY <1>4, FrameFacts DEF StopCancel
<1>5. CASE StopSet
  BY <1>5, FrameFacts DEF StopSet
<1>6. QED
  BY <1>1, <1>2, <1>3, <1>4, <1>5 DEF Resume

\* The commands: only stop_task reaches a process.
LEMMA CommandFacts ==
    ASSUME TypeOK, Facts, Command
    PROVE  Facts'
<1> USE DEF managers, cycles, calls, client
<1>1. CASE Execute
  BY <1>1, FrameFacts DEF Execute
<1>2. CASE Start
  BY <1>2, FrameFacts DEF Start
<1>3. ASSUME NEW p \in Pipelines, StartPipeline(p) PROVE Facts'
  BY <1>3, FrameFacts DEF StartPipeline
<1>4. ASSUME NEW t \in Tasks, StopTask(t) PROVE Facts'
  <2>1. UNCHANGED <<tcycle, pcycle, comp, finals>>
    BY <1>4 DEF StopTask
  <2>2. CASE proc[t] = "alive"
    <3>1. proc' = [proc EXCEPT ![t] = "terminated"]
      BY <1>4, <2>2 DEF StopTask
    <3>2. QED
      BY <2>1, <2>2, <3>1, ProcessFacts
  <2>3. CASE proc[t] # "alive"
    <3>1. proc' = proc
      BY <1>4, <2>3 DEF StopTask, TypeOK
    <3>2. QED
      BY <2>1, <3>1, FrameFacts
  <2>4. QED
    BY <2>2, <2>3
<1>5. ASSUME NEW c \in Commands, Refuse(c) PROVE Facts'
  BY <1>5, FrameFacts DEF Refuse
<1>6. QED
  BY <1>1, <1>2, <1>3, <1>4, <1>5 DEF Command

\* Every step keeps the facts, given who waits for whom.
LEMMA NextFacts == TypeOK /\ AdderInv /\ Facts /\ [Next]_vars => Facts'
<1> SUFFICES ASSUME TypeOK, AdderInv, Facts, [Next]_vars PROVE Facts'
  OBVIOUS
<1>1. ASSUME NEW t \in Tasks, Exit(t) PROVE Facts'
  <2>1. PICK x \in {"ok", "failed"} : proc' = [proc EXCEPT ![t] = x]
    BY <1>1 DEF Exit
  <2>2. proc[t] \in {"alive", "terminated"} /\ UNCHANGED <<tcycle, pcycle, comp, finals>>
    BY <1>1 DEF Exit, cycles, calls
  <2>3. QED
    BY <2>1, <2>2, ProcessFacts
<1>2. ASSUME NEW t \in Tasks, Adding(t) PROVE Facts'
  BY <1>2, AddingFacts
<1>3. ASSUME NEW t \in Tasks, Completing(t) PROVE Facts'
  BY <1>3, PlacesFacts, SettleTaskFacts, SettlePipelineFacts, CancelRestFacts DEF Completing
<1>4. CASE UNCHANGED vars
  BY <1>4, FrameFacts DEF vars, cycles, calls
<1>5. QED
  BY <1>1, <1>2, <1>3, <1>4, ResumeFacts, CommandFacts DEF Next

\* Before start() nothing has happened that the invariant is about.
LEMMA InitIInv == Init => IInv
<1> SUFFICES ASSUME Init PROVE IInv
  OBVIOUS
<1>1. TypeOK
  BY InitType
<1>2. \A t \in Tasks : /\ adder[t] = "off" /\ comp[t] = "off" /\ proc[t] = "none"
                       /\ tcycle[t] = "pending" /\ finals[t] = 0
  BY DEF Init
<1>3. \A p \in Pipelines : pcycle[p] = "pending"
  BY DEF Init
<1>4. AdderInv
  BY <1>2 DEF AdderInv, CallerWaits, AddedOnce
<1>5. CompInv
  BY <1>2 DEF CompInv, TaskAt, PipelineAt, FinallyAt
<1>6. InOrder /\ StatusMatchesExit /\ VerdictMatchesTasks /\ FinallyOnce
  BY <1>2, <1>3 DEF InOrder, StatusMatchesExit, VerdictMatchesTasks, FinallyOnce
<1>7. QED
  BY <1>1, <1>4, <1>5, <1>6 DEF IInv

LEMMA NextIInv == IInv /\ [Next]_vars => IInv'
BY NextType, NextAdder, NextFacts DEF IInv, Facts

\* The inductive invariant: what a completion thread, the call of add_worker
\* it may be waiting for and the states of the cycles say of one another.
THEOREM Invariant == Spec => []IInv
BY InitIInv, NextIInv, PTL DEF Spec

\* Tasks of a pipeline run in order: _next_task is reached from the success of
\* the task before, whatever the other threads do and whichever calls raise.
THEOREM OrderKept == Spec => []InOrder
<1>1. IInv => InOrder
  BY DEF IInv
<1>2. QED
  BY <1>1, Invariant, PTL

\* The recorded state of a task is the one its process bears out.
THEOREM OutcomeTrue == Spec => []StatusMatchesExit
<1>1. IInv => StatusMatchesExit
  BY DEF IInv
<1>2. QED
  BY <1>1, Invariant, PTL

\* The verdict of a pipeline is the one its tasks bear out.
THEOREM VerdictTrue == Spec => []VerdictMatchesTasks
<1>1. IInv => VerdictMatchesTasks
  BY DEF IInv
<1>2. QED
  BY <1>1, Invariant, PTL

\* The client's on_finally runs at most once for a task, behind its process.
THEOREM FinallyTrue == Spec => []FinallyOnce
<1>1. IInv => FinallyOnce
  BY DEF IInv
<1>2. QED
  BY <1>1, Invariant, PTL

\* Where a process can be started the pipeline has no verdict: a success would
\* have settled t, and a failed task is neither before t nor behind it.
LEMMA NoVerdictYet ==
    ASSUME IInv, NEW t \in Tasks, adder[t] \in {"attached", "spawned"}
    PROVE  pcycle[t[1]] \notin Final /\ \A u \in Before(t) : tcycle[u] = "success"
<1> USE DEF IInv
<1>1. t[1] \in Pipelines /\ t \in Of(t[1]) /\ Facts
  BY TaskIsPair DEF Of, Facts
<1>2. tcycle[t] \notin {"success", "failed"}
  BY DEF AdderInv, AddedOnce, CompInv, TaskAt
<1>3. \A u \in Before(t) : tcycle[u] = "success"
  BY <1>1, BeforeAdded
<1>4. ASSUME NEW u \in Of(t[1]), tcycle[u] = "failed" PROVE FALSE
  <2>1. u \in Tasks /\ u[1] = t[1] /\ u # t
    BY <1>2, <1>4 DEF Of
  <2>2. u[2] \in Nat /\ t[2] \in Nat /\ u[2] # t[2]
    <3>1. u[2] \in Nat /\ t[2] \in Nat
      BY <2>1, TaskIsPair
    <3>2. u[2] # t[2]
      BY <2>1, SamePlace
    <3>3. QED
      BY <3>1, <3>2
  <2>3. u \notin Before(t)
    BY <1>3, <1>4
  <2>4. t \in Before(u)
    BY <1>1, <2>1, <2>2, <2>3 DEF Before, Of
  <2>5. proc[u] = "failed"
    BY <1>4, <2>1 DEF StatusMatchesExit
  <2>6. tcycle[t] = "success"
    BY <2>1, <2>4, <2>5 DEF InOrder
  <2>7. QED
    BY <1>2, <2>6
<1>5. pcycle[t[1]] # "success"
  BY <1>1, <1>2 DEF VerdictMatchesTasks
<1>6. pcycle[t[1]] # "failed" /\ pcycle[t[1]] # "canceled"
  BY <1>1, <1>4 DEF VerdictMatchesTasks
<1>7. QED
  BY <1>3, <1>5, <1>6 DEF Final

\* A pipeline with a verdict gets no new process, whichever command, callback
\* or completion thread is at work.
THEOREM VerdictIsLast == Spec => NothingStartsAfterVerdict
<1> DEFINE A == \A t \in Tasks :
                  pcycle[t[1]] \in Final /\ proc'[t] = "alive" => proc[t] = "alive"
<1>1. IInv /\ [Next]_vars => [A]_vars
  <2> SUFFICES ASSUME IInv, [Next]_vars, NEW t \in Tasks,
                      pcycle[t[1]] \in Final, proc'[t] = "alive", proc[t] # "alive"
               PROVE  FALSE
    OBVIOUS
  <2> USE DEF managers, cycles, calls, client
  <2>1. TypeOK
    BY DEF IInv
  <2>2. ASSUME NEW u \in Tasks, Exit(u) PROVE FALSE
    BY <2>1, <2>2 DEF Exit, TypeOK
  <2>3. ASSUME NEW u \in Tasks, Adding(u) PROVE FALSE
    <3>1. CASE Spawn(u)
      <4>1. adder[u] = "attached" /\ u = t
        BY <2>1, <3>1 DEF Spawn, TypeOK
      <4>2. QED
        BY <4>1, NoVerdictYet
    <3>2. CASE ~Spawn(u)
      BY <2>3, <3>2 DEF Adding, AddCheck, OnTaskStart, SetInit
    <3>3. QED
      BY <3>1, <3>2
  <2>4. ASSUME NEW u \in Tasks, Completing(u) PROVE FALSE
    BY <2>4 DEF Completing, Completed, CleanupCheck, CleanupCancel, CleanupSet, OnFinally,
                SettleTask, SettlePipeline, NextTask, CancelRest, Report, Close
  <2>5. CASE Resume
    BY <2>5 DEF Resume, FirstTask, RunPipeline, StopCheck, StopCancel, StopSet
  <2>6. CASE Command
    BY <2>1, <2>6 DEF Command, Execute, Start, StartPipeline, StopTask, Refuse, TypeOK
  <2>7. CASE UNCHANGED vars
    BY <2>7 DEF vars
  <2>8. QED
    BY <2>2, <2>3, <2>4, <2>5, <2>6, <2>7 DEF Next
<1>2. QED
  BY <1>1, Invariant, PTL DEF Spec, NothingStartsAfterVerdict
-----------------------------------------------------------------------------
(***************************************************************************)
(* The refinement of SequentialPipeline: every step of a thread is one of  *)
(* its steps, or leaves tasks and verdicts alone.                          *)
(***************************************************************************)

\* A task that runs, or that an exception of on_start left RUNNING, has a process.
RunningHasProcess == \A t \in Tasks : tcycle[t] = "running" => proc[t] # "none"

\* No step takes the process of a RUNNING task away.
LEMMA RunningStep == IInv /\ RunningHasProcess /\ [Next]_vars => RunningHasProcess'
<1> SUFFICES ASSUME IInv, RunningHasProcess, [Next]_vars, NEW u \in Tasks,
                    tcycle'[u] = "running"
             PROVE  proc'[u] # "none"
  BY DEF RunningHasProcess
<1> USE DEF managers, cycles, calls, client
<1>0. TypeOK /\ (tcycle[u] = "running" => proc[u] # "none")
  BY DEF IInv, RunningHasProcess
<1>1. ASSUME NEW t \in Tasks, Exit(t) PROVE proc'[u] # "none"
  BY <1>0, <1>1 DEF Exit, TypeOK
<1>2. ASSUME NEW t \in Tasks, Adding(t) PROVE proc'[u] # "none"
  <2>1. CASE Spawn(t)
    BY <1>0, <2>1 DEF Spawn, TypeOK
  <2>2. CASE OnTaskStart(t)
    <3>1. proc[t] # "none"
      BY <2>2 DEF OnTaskStart, IInv, AdderInv, AddedOnce
    <3>2. QED
      BY <1>0, <2>2, <3>1 DEF OnTaskStart, TypeOK
  <2>3. CASE AddCheck(t) \/ SetInit(t)
    BY <1>0, <2>3 DEF AddCheck, SetInit
  <2>4. QED
    BY <1>2, <2>1, <2>2, <2>3 DEF Adding
<1>3. ASSUME NEW t \in Tasks, Completing(t) PROVE proc'[u] # "none"
  <2>1. CASE SettleTask(t)
    BY <1>0, <2>1 DEF SettleTask, TypeOK
  <2>2. CASE CancelRest(t)
    BY <1>0, <2>2 DEF CancelRest
  <2>3. CASE ~SettleTask(t) /\ ~CancelRest(t)
    BY <1>0, <1>3, <2>3 DEF Completing, Completed, CleanupCheck, CleanupCancel, CleanupSet, OnFinally,
                SettlePipeline, NextTask, Report, Close
  <2>4. QED
    BY <2>1, <2>2, <2>3
<1>4. CASE Resume
  BY <1>0, <1>4 DEF Resume, FirstTask, RunPipeline, StopCheck, StopCancel, StopSet
<1>5. CASE Command
  BY <1>0, <1>5 DEF Command, Execute, Start, StartPipeline, StopTask, Refuse, TypeOK
<1>6. CASE UNCHANGED vars
  BY <1>0, <1>6 DEF vars
<1>7. QED
  BY <1>1, <1>2, <1>3, <1>4, <1>5, <1>6 DEF Next

\* The operators of SequentialPipeline are those of Orchestrator.
LEMMA SameTasks ==
    /\ Sequential!Pipelines = Pipelines /\ Sequential!Tasks = Tasks
    /\ Sequential!Final = Final
    /\ \A p : Sequential!Of(p) = Of(p)
    /\ \A t : Sequential!Before(t) = Before(t)
BY DEF Sequential!Pipelines, Sequential!Tasks, Sequential!Final, Sequential!Of, Sequential!Before,
       Pipelines, Tasks, Final, Of, Before

\* on_start begins its task in turn.
LEMMA OnTaskStartMaps ==
    ASSUME IInv, NEW t \in Tasks, OnTaskStart(t)
    PROVE  Sequential!Next \/ UNCHANGED <<tcycle, pcycle>>
<1> USE DEF cycles
<1>1. CASE tcycle' = tcycle
  BY <1>1 DEF OnTaskStart
<1>2. CASE tcycle' # tcycle
  <2>1. Legal(tcycle[t], "running") /\ tcycle' = [tcycle EXCEPT ![t] = "running"] /\ pcycle' = pcycle
    BY <1>2 DEF OnTaskStart
  <2>2. tcycle[t] = "pending" /\ adder[t] = "spawned"
    BY <2>1 DEF Legal, Transitions, Final, OnTaskStart
  <2>3. Sequential!Begin(t)
    BY <2>1, <2>2, NoVerdictYet, SameTasks DEF Sequential!Begin
  <2>4. QED
    BY <2>3, SameTasks DEF Sequential!Next
<1>3. QED
  BY <1>1, <1>2

\* The transition behind a process ends its task.
LEMMA SettleTaskMaps ==
    ASSUME IInv, NEW t \in Tasks, SettleTask(t)
    PROVE  Sequential!Next \/ UNCHANGED <<tcycle, pcycle>>
<1> DEFINE new == IF Succeeded(t) THEN "success" ELSE "failed"
<1>1. CASE ~LegalAfterCleanup(tcycle[t], new, t \in Backed)
  BY <1>1 DEF SettleTask
<1>2. CASE LegalAfterCleanup(tcycle[t], new, t \in Backed)
  <2>1. tcycle' = [tcycle EXCEPT ![t] = new] /\ pcycle' = pcycle
    BY <1>2 DEF SettleTask
  <2>2. tcycle[t] = "running"
    BY <1>2 DEF LegalAfterCleanup, Legal, Transitions, Final
  <2>3. Sequential!End(t)
    BY <2>1, <2>2 DEF Sequential!End
  <2>4. QED
    BY <2>3, SameTasks DEF Sequential!Next
<1>3. QED
  BY <1>1, <1>2

\* The verdict that the tasks bear out is the one SequentialPipeline allows.
LEMMA SettlePipelineMaps ==
    ASSUME IInv, IInv', NEW t \in Tasks, SettlePipeline(t)
    PROVE  Sequential!Next \/ UNCHANGED <<tcycle, pcycle>>
<1> DEFINE p == t[1]
<1> DEFINE new == IF ~Succeeded(t) THEN "failed"
                  ELSE IF IsLast(t) THEN "success" ELSE "canceled"
<1>1. tcycle' = tcycle /\ p \in Pipelines
  BY TaskIsPair DEF SettlePipeline
<1>2. CASE ~Legal(pcycle[p], new)
  BY <1>1, <1>2 DEF SettlePipeline
<1>3. CASE Legal(pcycle[p], new)
  <2>1. pcycle' = [pcycle EXCEPT ![p] = new]
    BY <1>3 DEF SettlePipeline
  <2>2. pcycle'[p] = new
    BY <1>1, <2>1 DEF IInv, TypeOK
  <2>3. new # "canceled"
    BY <1>1, <2>2 DEF IInv, VerdictMatchesTasks
  <2>4. pcycle[p] = "running"
    BY <1>3, <2>3 DEF Legal, Transitions
  <2>5. CASE new = "success"
    <3>1. \A u \in Of(p) : tcycle[u] = "success"
      BY <1>1, <2>2, <2>5 DEF IInv, VerdictMatchesTasks, Of
    <3>2. Sequential!Succeed(p)
      BY <1>1, <2>1, <2>4, <2>5, <3>1, SameTasks DEF Sequential!Succeed
    <3>3. QED
      BY <1>1, <3>2, SameTasks DEF Sequential!Next
  <2>6. CASE new = "failed"
    <3>1. \E u \in Of(p) : tcycle[u] = "failed"
      BY <1>1, <2>2, <2>6 DEF IInv, VerdictMatchesTasks, Of
    <3>2. Sequential!Fail(p)
      BY <1>1, <2>1, <2>4, <2>6, <3>1, SameTasks DEF Sequential!Fail
    <3>3. QED
      BY <1>1, <3>2, SameTasks DEF Sequential!Next
  <2>7. QED
    BY <2>3, <2>5, <2>6
<1>4. QED
  BY <1>2, <1>3

\* start_pipeline launches its pipeline, before or behind the first task.
LEMMA RunPipelineMaps ==
    ASSUME IInv, RunPipeline
    PROVE  Sequential!Next \/ UNCHANGED <<tcycle, pcycle>>
<1>1. tcycle' = tcycle /\ target \in Pipelines
  BY DEF RunPipeline, IInv, TypeOK
<1>2. CASE ~Legal(pcycle[target], "running")
  BY <1>1, <1>2 DEF RunPipeline
<1>3. CASE Legal(pcycle[target], "running")
  <2>1. pcycle' = [pcycle EXCEPT ![target] = "running"]
    BY <1>3 DEF RunPipeline
  <2>2. pcycle[target] = "pending"
    BY <1>3 DEF Legal, Transitions, Final
  <2>3. Sequential!Launch(target)
    BY <1>1, <2>1, <2>2 DEF Sequential!Launch
  <2>4. QED
    BY <1>1, <2>3, SameTasks DEF Sequential!Next
<1>4. QED
  BY <1>2, <1>3

\* What is cancelled behind a failure is pending: behind it nothing has a process.
LEMMA CancelRestMaps ==
    ASSUME IInv, RunningHasProcess, NEW t \in Tasks, CancelRest(t)
    PROVE  Sequential!Next
<1> DEFINE p == t[1]
<1> DEFINE behind(k) == {p} \X ((t[2] + 1)..k)
<1>1. pcycle' = pcycle /\ comp[t] = "rest"
  BY DEF CancelRest
<1>2. PICK k \in t[2]..NTasks[p] :
        /\ \A u \in behind(k) : LegalAfterCleanup(tcycle[u], "canceled", u \in Backed)
        /\ tcycle' = [u \in Tasks |-> IF u \in behind(k) THEN "canceled" ELSE tcycle[u]]
  BY DEF CancelRest
<1>3. p \in Pipelines /\ t[2] \in 1..NTasks[p] /\ NTasks[p] \in Nat
  BY TaskIsPair
<1>4. pcycle[p] = "failed" /\ tcycle[t] = "failed"
  BY <1>1 DEF IInv, CompInv, TaskAt, PipelineAt
<1>5. ASSUME NEW u \in behind(k) PROVE u \in Of(p) /\ tcycle[u] = "pending"
  <2>1. PICK i \in (t[2] + 1)..k : u = <<p, i>>
    BY <1>5
  <2>2. i \in 1..NTasks[p] /\ t[2] < i
    BY <1>2, <1>3, <2>1
  <2>3. u \in Tasks /\ u[1] = p /\ u[2] = i
    BY <1>3, <2>1, <2>2, PairIsTask
  <2>4. t \in Before(u)
    BY <2>2, <2>3 DEF Before, Of
  <2>5. proc[u] = "none"
    BY <1>4, <2>3, <2>4 DEF IInv, InOrder
  <2>6. tcycle[u] # "running"
    BY <2>3, <2>5 DEF RunningHasProcess
  <2>7. tcycle[u] = "pending"
    BY <1>2, <1>5, <2>6 DEF LegalAfterCleanup, Legal, Transitions
  <2>8. QED
    BY <2>3, <2>7 DEF Of
<1>6. behind(k) \in SUBSET {u \in Of(p) : tcycle[u] = "pending"}
  BY <1>5
<1>7. Sequential!Abandon(p)
  BY <1>1, <1>2, <1>4, <1>6, SameTasks DEF Sequential!Abandon
<1>8. QED
  BY <1>3, <1>7, SameTasks DEF Sequential!Next

\* Every step maps to a step of SequentialPipeline, or to a stutter.
LEMMA StepMaps ==
    ASSUME IInv, IInv', RunningHasProcess, [Next]_vars
    PROVE  Sequential!Next \/ UNCHANGED <<tcycle, pcycle>>
<1> USE DEF managers, cycles, calls, client
<1>1. ASSUME NEW t \in Tasks, Exit(t) PROVE UNCHANGED <<tcycle, pcycle>>
  BY <1>1 DEF Exit
<1>2. ASSUME NEW t \in Tasks, Adding(t) PROVE Sequential!Next \/ UNCHANGED <<tcycle, pcycle>>
  BY <1>2, OnTaskStartMaps DEF Adding, AddCheck, Spawn, SetInit
<1>3. ASSUME NEW t \in Tasks, Completing(t) PROVE Sequential!Next \/ UNCHANGED <<tcycle, pcycle>>
  <2>1. CASE SettleTask(t) \/ SettlePipeline(t) \/ CancelRest(t)
    BY <2>1, SettleTaskMaps, SettlePipelineMaps, CancelRestMaps
  <2>2. CASE ~(SettleTask(t) \/ SettlePipeline(t) \/ CancelRest(t))
    BY <1>3, <2>2 DEF Completing, Completed, CleanupCheck, CleanupCancel, CleanupSet, OnFinally,
                      NextTask, Report, Close
  <2>3. QED
    BY <2>1, <2>2
<1>4. CASE Resume
  BY <1>4, RunPipelineMaps DEF Resume, FirstTask, StopCheck, StopCancel, StopSet
<1>5. CASE Command
  BY <1>5 DEF Command, Execute, Start, StartPipeline, StopTask, Refuse
<1>6. CASE UNCHANGED vars
  BY <1>6 DEF vars
<1>7. QED
  BY <1>1, <1>2, <1>3, <1>4, <1>5, <1>6 DEF Next

\* The threads, whatever they interleave and whichever calls raise, implement
\* SequentialPipeline.
THEOREM Refines == Spec => RefinesSequential
<1>1. Init => Sequential!Init
  BY SameTasks DEF Init, Sequential!Init
<1>2. Init => RunningHasProcess
  BY DEF Init, RunningHasProcess
<1>3. IInv /\ IInv' /\ RunningHasProcess /\ [Next]_vars => [Sequential!Next]_(Sequential!vars)
  BY StepMaps DEF Sequential!vars
<1>4. QED
  BY <1>1, <1>2, <1>3, Invariant, RunningStep, PTL DEF Spec, RefinesSequential, Sequential!Spec

-----------------------------------------------------------------------------
(***************************************************************************)
(* One of the managers that share their events gets a completion thread.   *)
(***************************************************************************)

\* Events that two managers share are shared by the managers of the tasks
\* before them: true when all managers have the class's own _done and _init,
\* and true when each has its own.
SharedFromTheStart ==
    \A t, u \in Tasks : t # u /\ PairOf[t] = PairOf[u] /\ t[2] # 1 => PairOf[Prev(t)] = PairOf[t]

\* add_worker is past its test for t, or has started t's completion thread.
Started(t) == adder[t] \in {"attached", "spawned", "running"} \/ comp[t] # "off"

\* The events let one of the managers that share them through.
OneStarted ==
    \A t, u \in Tasks : t # u /\ PairOf[t] = PairOf[u] => ~Started(t) \/ ~Started(u)

\* cleanup has set _done before a completion thread goes on to the next task.
DoneAt ==
    \A t \in Tasks :
        comp[t] \in {"finally", "task", "pipeline", "next"} /\ Succeeded(t) => PairOf[t] \in done

ShotInv == IInv /\ OneStarted /\ DoneAt

-----------------------------------------------------------------------------
\* The class attributes of SubProcessManager, one pair for all tasks.
LEMMA ClassAttributesShared == (\A t, u \in Tasks : PairOf[t] = PairOf[u]) => SharedFromTheStart
BY PrevIsTask DEF SharedFromTheStart

\* Events of its own for every manager.
LEMMA OwnEventsShared == (\A t, u \in Tasks : PairOf[t] = PairOf[u] => t = u) => SharedFromTheStart
BY DEF SharedFromTheStart

\* A worker that is added behind another has its events set, when it shares
\* them: the thread that adds it has set those of the task before.
LEMMA BehindIsBlocked ==
    ASSUME SharedFromTheStart, ShotInv, NEW t \in Tasks, NEW u \in Tasks, t # u,
           PairOf[t] = PairOf[u], adder[t] # "off", t[2] # 1
    PROVE  PairOf[t] \in done
<1>1. Prev(t) \in Tasks /\ comp[Prev(t)] = "next"
  BY PrevIsTask DEF ShotInv, IInv, AdderInv, CallerWaits
<1>2. Succeeded(Prev(t))
  BY <1>1 DEF ShotInv, IInv, CompInv, TaskAt
<1>3. PairOf[Prev(t)] \in done
  BY <1>1, <1>2 DEF ShotInv, DoneAt
<1> QED BY <1>3 DEF SharedFromTheStart

\* Where add_worker passes its test no other manager of the pair has started:
\* one with a thread has set an event, or both calls are of the client's thread.
LEMMA PassesAlone ==
    ASSUME SharedFromTheStart, ShotInv, NEW t \in Tasks, adder[t] # "off", ~Blocked(t),
           NEW u \in Tasks, t # u, PairOf[t] = PairOf[u]
    PROVE  ~Started(u)
<1> SUFFICES ASSUME Started(u) PROVE FALSE
  OBVIOUS
<1>1. AddedOnce(u) /\ CallerWaits(t) /\ CallerWaits(u)
  BY DEF ShotInv, IInv, AdderInv
<1>2. ~Blocked(u)
  BY DEF Blocked
<1>3. adder[u] # "off"
  BY <1>1, <1>2 DEF Started, AddedOnce
<1>4. t[2] = 1 /\ u[2] = 1
  BY <1>2, <1>3, BehindIsBlocked DEF Blocked
<1>5. t[1] = u[1]
  BY <1>1, <1>3, <1>4 DEF CallerWaits
<1> QED BY <1>4, <1>5, SamePlace

\* A step that passes the test for no worker lets no other manager through.
LEMMA StartedFrame ==
    ASSUME OneStarted, \A u \in Tasks : Started(u)' => Started(u)
    PROVE  OneStarted'
BY DEF OneStarted

\* Events stay set, and the process of a thread that is past it has exited.
LEMMA DoneFrame ==
    ASSUME ShotInv, done \subseteq done', NEW u \in Tasks,
           comp'[u] \in {"finally", "task", "pipeline", "next"} =>
               comp[u] \in {"finally", "task", "pipeline", "next"} /\ proc'[u] = proc[u]
    PROVE  comp'[u] \in {"finally", "task", "pipeline", "next"} /\ Succeeded(u)' => PairOf[u] \in done'
BY DEF ShotInv, DoneAt, Succeeded

\* The calls of add_worker.
LEMMA AddingShot ==
    ASSUME SharedFromTheStart, ShotInv, NEW t \in Tasks, Adding(t)
    PROVE  OneStarted' /\ DoneAt'
<1> USE DEF managers, cycles, calls, client
<1>1. TypeOK /\ AdderInv /\ OneStarted /\ adder[t] # "off" /\ UNCHANGED <<target, done>>
  BY DEF ShotInv, IInv, Adding, AddCheck, Spawn, OnTaskStart, SetInit
<1>2. AddedOnce(t)
  BY <1>1 DEF AdderInv
<1>3. ASSUME NEW raised, AddReturns(t, raised)
      PROVE  /\ \A u \in Tasks : Started(u)' => Started(u)
             /\ \A u \in Tasks : comp'[u] = comp[u] \/ comp'[u] \in {"report", "close"}
  <2>1. ASSUME NEW u \in Tasks, Started(u)' PROVE Started(u)
    <3>1. adder'[u] = "off" \/ adder'[u] = adder[u]
      BY <1>1, <1>3, ReturnsEffect
    <3>2. comp'[u] = comp[u] \/ comp[u] = "next"
      BY <1>1, <1>3, ReturnsEffect
    <3> QED BY <2>1, <3>1, <3>2 DEF Started
  <2> QED BY <1>1, <1>3, <2>1, ReturnsEffect
<1>4. /\ \A u \in Tasks : comp'[u] = comp[u] \/ comp'[u] \in {"report", "close", "wait"}
      /\ \A u \in Tasks : proc'[u] = proc[u] \/ comp'[u] = "off"
  <2>1. CASE AddCheck(t) \/ SetInit(t)
    BY <1>3, <2>1 DEF AddCheck, SetInit
  <2>2. CASE Spawn(t)
    <3>1. \A u \in Tasks : proc'[u] = proc[u] \/ (u = t /\ comp' = comp)
      BY <1>1, <2>2 DEF Spawn, TypeOK
    <3>2. comp[t] = "off"
      BY <1>2, <2>2 DEF Spawn, AddedOnce
    <3> QED BY <1>3, <2>2, <3>1, <3>2 DEF Spawn
  <2>3. CASE OnTaskStart(t)
    <3>1. proc' = proc
      BY <2>3 DEF OnTaskStart
    <3>2. CASE comp' = [comp EXCEPT ![t] = "wait"]
      <4>1. comp \in [Tasks -> CompAt]
        BY <1>1 DEF TypeOK
      <4> QED BY <3>1, <3>2, <4>1
    <3>3. CASE \E raised : AddReturns(t, raised)
      BY <1>3, <3>1, <3>3
    <3> QED BY <2>3, <3>2, <3>3 DEF OnTaskStart
  <2> QED BY <2>1, <2>2, <2>3 DEF Adding
<1>5. DoneAt'
  <2> SUFFICES ASSUME NEW u \in Tasks
               PROVE  comp'[u] \in {"finally", "task", "pipeline", "next"} /\ Succeeded(u)'
                          => PairOf[u] \in done'
    BY DEF DoneAt
  <2> QED BY <1>1, <1>4, DoneFrame
<1>6. ASSUME AddCheck(t), ~Blocked(t) PROVE OneStarted'
  <2>1. UNCHANGED comp /\ \A u \in Tasks : u # t => adder'[u] = adder[u]
    BY <1>1, <1>6 DEF AddCheck, TypeOK
  <2>2. \A u \in Tasks : u # t => Started(u)' = Started(u)
    BY <2>1 DEF Started
  <2>3. \A u \in Tasks : u # t /\ PairOf[u] = PairOf[t] => ~Started(u)
    BY <1>1, <1>6, PassesAlone
  <2> QED BY <1>1, <2>2, <2>3 DEF OneStarted
<1>7. CASE AddCheck(t) /\ Blocked(t)
  BY <1>1, <1>3, <1>5, <1>7, StartedFrame DEF AddCheck
<1>8. CASE SetInit(t)
  BY <1>1, <1>3, <1>5, <1>8, StartedFrame DEF SetInit
<1>9. CASE Spawn(t)
  <2>1. CASE adder' = [adder EXCEPT ![t] = "spawned"] /\ UNCHANGED comp
    <3>1. \A u \in Tasks : Started(u)' => Started(u)
      BY <1>1, <1>9, <2>1 DEF Spawn, Started, TypeOK
    <3> QED BY <1>1, <1>5, <3>1, StartedFrame
  <2> QED BY <1>1, <1>3, <1>5, <1>9, <2>1, StartedFrame DEF Spawn
<1>10. CASE OnTaskStart(t)
  <2>1. CASE adder' = [adder EXCEPT ![t] = "running"] /\ comp' = [comp EXCEPT ![t] = "wait"]
    <3>1. \A u \in Tasks : Started(u)' => Started(u)
      BY <1>1, <1>10, <2>1 DEF OnTaskStart, Started, TypeOK
    <3> QED BY <1>1, <1>5, <3>1, StartedFrame
  <2> QED BY <1>1, <1>3, <1>5, <1>10, <2>1, StartedFrame DEF OnTaskStart
<1> QED BY <1>5, <1>6, <1>7, <1>8, <1>9, <1>10 DEF Adding

\* The steps of a completion thread, which sets _done before it goes on.
LEMMA CompletingShot ==
    ASSUME ShotInv, NEW t \in Tasks, Completing(t)
    PROVE  OneStarted' /\ DoneAt'
<1> USE DEF managers, cycles, calls, client
<1>1. TypeOK /\ OneStarted /\ DoneAt /\ comp[t] # "off" /\ UNCHANGED proc /\ done \subseteq done'
  BY DEF ShotInv, IInv, Completing, Completed, CleanupCheck, CleanupCancel, CleanupSet, OnFinally,
         SettleTask, SettlePipeline, NextTask, CancelRest, Report, Close
<1>2. \A u \in Tasks : u # t => comp'[u] = comp[u]
  BY <1>1 DEF TypeOK, Continue, Completing, Completed, CleanupCheck, CleanupCancel, CleanupSet,
              OnFinally, SettleTask, SettlePipeline, NextTask, CancelRest, Report, Close
<1>3. \A u \in Tasks : adder'[u] = adder[u] \/ adder'[u] = "called"
  BY <1>1 DEF TypeOK, Completing, Completed, CleanupCheck, CleanupCancel, CleanupSet,
              OnFinally, SettleTask, SettlePipeline, NextTask, CancelRest, Report, Close
<1>4. \A u \in Tasks : Started(u)' => Started(u)
  BY <1>1, <1>2, <1>3 DEF Started
<1>5. comp'[t] \in {"finally", "task", "pipeline", "next"} /\ Succeeded(t)' => PairOf[t] \in done'
  <2> SUFFICES ASSUME comp'[t] \in {"finally", "task", "pipeline", "next"}, Succeeded(t)
               PROVE  PairOf[t] \in done'
    BY <1>1 DEF Succeeded
  <2>1. CASE Completed(t)
    BY <1>1, <2>1 DEF Completed, TypeOK
  <2>2. CASE CleanupCheck(t) \/ CleanupCancel(t) \/ CancelRest(t) \/ Report(t) \/ Close(t)
    BY <1>1, <2>2 DEF CleanupCheck, CleanupCancel, CancelRest, Report, Close, TypeOK
  <2>3. CASE CleanupSet(t)
    BY <2>3 DEF CleanupSet
  <2>4. CASE OnFinally(t) \/ SettleTask(t) \/ SettlePipeline(t) \/ NextTask(t)
    <3>1. comp[t] \in {"finally", "task", "pipeline"}
      BY <2>4 DEF OnFinally, SettleTask, SettlePipeline, NextTask
    <3> QED BY <1>1, <3>1 DEF DoneAt
  <2> QED BY <2>1, <2>2, <2>3, <2>4 DEF Completing
<1>6. DoneAt'
  <2> SUFFICES ASSUME NEW u \in Tasks
               PROVE  comp'[u] \in {"finally", "task", "pipeline", "next"} /\ Succeeded(u)'
                          => PairOf[u] \in done'
    BY DEF DoneAt
  <2>1. CASE u = t
    BY <1>5, <2>1
  <2>2. CASE u # t
    BY <1>1, <1>2, <2>2, DoneFrame
  <2> QED BY <2>1, <2>2
<1> QED BY <1>1, <1>4, <1>6, StartedFrame

\* Every step keeps the pairs to one manager each.
LEMMA NextShot == SharedFromTheStart /\ ShotInv /\ [Next]_vars => ShotInv'
<1> SUFFICES ASSUME SharedFromTheStart, ShotInv, [Next]_vars PROVE OneStarted' /\ DoneAt'
  BY NextIInv DEF ShotInv
<1> USE DEF managers, cycles, calls, client
<1>1. TypeOK /\ OneStarted
  BY DEF ShotInv, IInv
<1>2. ASSUME UNCHANGED comp, done \subseteq done',
             \A u \in Tasks : adder'[u] = adder[u] \/ adder'[u] = "called",
             \A u \in Tasks : proc'[u] = proc[u] \/ proc[u] \notin {"ok", "failed"}
      PROVE  OneStarted' /\ DoneAt'
  <2>1. \A u \in Tasks : Started(u)' => Started(u)
    BY <1>2 DEF Started
  <2>2. ASSUME NEW u \in Tasks, comp[u] \in {"finally", "task", "pipeline", "next"}
        PROVE  proc'[u] = proc[u]
    BY <1>2, <2>2 DEF ShotInv, IInv, CompInv, TaskAt, Exited
  <2>3. DoneAt'
    <3> SUFFICES ASSUME NEW u \in Tasks
                 PROVE  comp'[u] \in {"finally", "task", "pipeline", "next"} /\ Succeeded(u)'
                            => PairOf[u] \in done'
      BY DEF DoneAt
    <3> QED BY <1>2, <2>2, DoneFrame
  <2> QED BY <1>1, <2>1, <2>3, StartedFrame
<1>3. ASSUME NEW t \in Tasks, Exit(t) PROVE OneStarted' /\ DoneAt'
  BY <1>1, <1>2, <1>3 DEF Exit, TypeOK
<1>4. CASE Resume
  <2>1. \A u \in Tasks : adder'[u] = adder[u] \/ adder'[u] = "called"
    BY <1>1, <1>4 DEF Resume, FirstTask, RunPipeline, StopCheck, StopCancel, StopSet, TypeOK
  <2> QED
    BY <1>2, <1>4, <2>1 DEF Resume, FirstTask, RunPipeline, StopCheck, StopCancel, StopSet
<1>5. CASE Command
  <2>1. \A u \in Tasks : proc'[u] = proc[u] \/ proc[u] \notin {"ok", "failed"}
    BY <1>1, <1>5 DEF Command, Execute, Start, StartPipeline, StopTask, Refuse, TypeOK
  <2> QED BY <1>2, <1>5, <2>1 DEF Command, Execute, Start, StartPipeline, StopTask, Refuse
<1>6. CASE UNCHANGED vars
  BY <1>2, <1>6 DEF vars
<1> QED BY <1>3, <1>4, <1>5, <1>6, AddingShot, CompletingShot DEF Next

\* Of the managers that share their events at most one ever gets a completion
\* thread, for the class attributes of SubProcessManager and for any events that
\* the tasks of a pipeline share from its first task on.
THEOREM StartedOnce == ASSUME SharedFromTheStart PROVE Spec => []OneShot
<1>1. Init => ShotInv
  <2> SUFFICES ASSUME Init PROVE ShotInv
    OBVIOUS
  <2>1. \A t \in Tasks : adder[t] = "off" /\ comp[t] = "off"
    BY DEF Init
  <2> QED BY <2>1, InitIInv DEF ShotInv, OneStarted, Started, DoneAt
<1>2. ShotInv /\ [Next]_vars => ShotInv'
  BY NextShot
<1>3. ShotInv => OneShot
  BY DEF ShotInv, OneStarted, Started, OneShot
<1> QED BY <1>1, <1>2, <1>3, PTL DEF Spec

=============================================================================

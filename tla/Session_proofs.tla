---------------------------- MODULE Session_proofs ----------------------------
(***************************************************************************)
(* What Session promises, for all callers, plans, pipelines and tasks, and *)
(* however often SessionControl is called: the types, whole pipelines, a   *)
(* registry that follows the names, a loop of start that reaches all, and  *)
(* sessions that tell their plan.                                          *)
(***************************************************************************)
EXTENDS Session, SequenceTheorems, TLAPS

(***************************************************************************)
(* Types.                                                                  *)
(***************************************************************************)
Orchs == [provider : Nat, pipelines : Seq(Runtime)]
Sessions == [state : {"PENDING", "RUNNING"}, orch : Nat, plan : Seq(Ids)]
Refs == [provider : 1..Len(pools), orch : 1..Len(orchs), session : 1..Len(sessions),
         plan : Seq(Ids)]
Jobs == [orch : 1..Len(orchs), session : 1..Len(sessions), plan : Seq(Ids),
         rest : Seq(Ids), tasks : Seq(Tasks), n : Nat]
Replies == {"none", "executed", "started", "done", "raised", "AttributeError", "TypeError"}

ControlType == pools \in Seq(SUBSET Pools) /\ orchs \in Seq(Orchs) /\ sessions \in Seq(Sessions)
               /\ ref \in Refs
TaskType == name \in [Tasks -> Nat] /\ context \in [Tasks -> Nat] /\ failed \subseteq Tasks
CallType == /\ at \in [Callers -> Places] /\ job \in [Callers -> Jobs]
            /\ reply \in [Callers -> Replies] /\ calls \in 0..MaxCalls /\ crossed \in BOOLEAN

LEMMA TypeParts == TypeOK <=> ControlType /\ TaskType /\ CallType
BY DEF TypeOK, ControlType, TaskType, CallType, Orchs, Sessions, Refs, Jobs, Replies

\* What a caller that is making a pipeline has of it: the first tasks of the one
\* that is at the head of its plan.
Fits(place, j) == place \in {"register", "connect"} =>
    /\ j.rest # <<>>
    /\ Len(j.tasks) <= Len(TasksOf[Head(j.rest)])
    /\ \A i \in 1..Len(j.tasks) : j.tasks[i] = TasksOf[Head(j.rest)][i]
    /\ place = "connect" => Len(j.tasks) < Len(TasksOf[Head(j.rest)])
JobFits == \A c \in Callers : Fits(at[c], job[c])

LEMMA NobodyType == ControlType => Nobody \in Jobs
<1> SUFFICES ASSUME ControlType PROVE Nobody \in Jobs
  OBVIOUS
<1>1. 1 \in 1..Len(orchs) /\ 1 \in 1..Len(sessions)
  <2>1. ref.orch \in 1..Len(orchs) /\ ref.session \in 1..Len(sessions)
    BY DEF ControlType, Refs
  <2>2. Len(orchs) \in Nat /\ Len(sessions) \in Nat
    BY DEF ControlType
  <2> QED BY <2>1, <2>2
<1>2. <<>> \in Seq(Ids) /\ <<>> \in Seq(Tasks)
  OBVIOUS
<1> QED BY <1>1, <1>2 DEF Nobody, Jobs

LEMMA GotoType ==
  ASSUME CallType, NEW c \in Callers, NEW place \in Places, Goto(c, place)
  PROVE  /\ at' \in [Callers -> Places] /\ crossed' \in BOOLEAN
         /\ at'[c] = place /\ \A d \in Callers : d # c => at'[d] = at[d]
<1>1. at' = [at EXCEPT ![c] = place]
  BY DEF Goto
<1>2. crossed' \in BOOLEAN
  BY DEF Goto
<1> QED BY <1>1, <1>2 DEF CallType

LEMMA EndType ==
  ASSUME ControlType, CallType, NEW c \in Callers, NEW how \in Replies, End(c, how)
  PROVE  /\ at' \in [Callers -> Places] /\ crossed' \in BOOLEAN
         /\ job' \in [Callers -> Jobs] /\ reply' \in [Callers -> Replies]
         /\ calls' = calls
         /\ at'[c] = "idle" /\ job'[c] = Nobody /\ reply'[c] = how
         /\ \A d \in Callers : d # c => at'[d] = at[d] /\ job'[d] = job[d] /\ reply'[d] = reply[d]
<1>1. Goto(c, "idle") /\ "idle" \in Places
  BY DEF End, Places
<1>2. /\ reply' = [reply EXCEPT ![c] = how] /\ job' = [job EXCEPT ![c] = Nobody]
      /\ calls' = calls
  BY DEF End
<1> QED BY <1>1, <1>2, GotoType, NobodyType DEF CallType

LEMMA BeginType ==
  ASSUME CallType, NEW c \in Callers, NEW place \in Places, Begin(c, place)
  PROVE  /\ at' \in [Callers -> Places] /\ crossed' \in BOOLEAN
         /\ calls' \in 0..MaxCalls
         /\ at[c] = "idle" /\ at'[c] = place
         /\ \A d \in Callers : d # c => at'[d] = at[d]
<1>1. Goto(c, place) /\ calls' = calls + 1 /\ calls < MaxCalls /\ at[c] = "idle"
  BY DEF Begin
<1>2. calls' \in 0..MaxCalls
  BY <1>1, SessionAssumption DEF CallType
<1> QED BY <1>1, <1>2, GotoType

LEMMA AnswerType ==
  ASSUME CallType, NEW c \in Callers, NEW how \in Replies, Answer(c, how),
         UNCHANGED <<orchs, sessions>>
  PROVE  /\ CallType'
         /\ at[c] = "idle" /\ at' = at /\ job' = job
<1>1. /\ Begin(c, "idle") /\ reply' = [reply EXCEPT ![c] = how] /\ job' = job
      /\ "idle" \in Places
  BY DEF Answer, Places
<1>2. /\ at' \in [Callers -> Places] /\ crossed' \in BOOLEAN /\ calls' \in 0..MaxCalls
      /\ at[c] = "idle" /\ at'[c] = "idle"
      /\ \A d \in Callers : d # c => at'[d] = at[d]
  BY <1>1, BeginType
<1>3. at' = at
  BY <1>2 DEF CallType
<1>4. reply' \in [Callers -> Replies]
  BY <1>1 DEF CallType
<1> QED BY <1>1, <1>2, <1>3, <1>4 DEF CallType, Jobs

\* The objects of a session are never fewer.
LEMMA JobsGrow ==
  ASSUME ControlType, ControlType',
         Len(orchs) <= Len(orchs'), Len(sessions) <= Len(sessions')
  PROVE  Jobs \subseteq Jobs'
<1>1. 1..Len(orchs) \subseteq 1..Len(orchs') /\ 1..Len(sessions) \subseteq 1..Len(sessions')
  BY DEF ControlType
<1> QED BY <1>1 DEF Jobs

LEMMA AppendAt ==
  ASSUME NEW S, NEW s \in Seq(S), NEW e \in S
  PROVE  /\ DOMAIN s = 1..Len(s) /\ Len(s) \in Nat
         /\ Append(s, e) \in Seq(S) /\ DOMAIN Append(s, e) = 1..(Len(s) + 1)
         /\ Len(Append(s, e)) = Len(s) + 1
         /\ \A k \in 1..Len(s) : Append(s, e)[k] = s[k]
         /\ Append(s, e)[Len(s) + 1] = e
OBVIOUS

LEMMA StoredAt ==
  ASSUME NEW s \in Seq(Runtime), NEW p \in Runtime
  PROVE  /\ Stored(s, p) \in Seq(Runtime) /\ DOMAIN s = 1..Len(s) /\ Len(s) \in Nat
         /\ \/ /\ Len(Stored(s, p)) = Len(s) + 1
               /\ \A i \in 1..Len(s) : s[i].id # p.id /\ Stored(s, p)[i] = s[i]
               /\ Stored(s, p)[Len(s) + 1] = p
            \/ /\ Len(Stored(s, p)) = Len(s)
               /\ \E i \in 1..Len(s) : s[i].id = p.id
               /\ \A i \in 1..Len(s) :
                    IF s[i].id = p.id THEN Stored(s, p)[i] = [p EXCEPT !.again = TRUE]
                                      ELSE Stored(s, p)[i] = s[i]
<1> DEFINE same == {i \in DOMAIN s : s[i].id = p.id}
           q == [p EXCEPT !.again = TRUE]
<1>1. DOMAIN s = 1..Len(s) /\ Len(s) \in Nat /\ \A i \in 1..Len(s) : s[i] \in Runtime
  OBVIOUS
<1>2. CASE same = {}
  <2>1. Stored(s, p) = Append(s, p)
    BY <1>2 DEF Stored
  <2>2. \A i \in 1..Len(s) : s[i].id # p.id
    BY <1>1, <1>2
  <2> HIDE DEF same
  <2>3. /\ Append(s, p) \in Seq(Runtime) /\ Len(Append(s, p)) = Len(s) + 1
        /\ \A k \in 1..Len(s) : Append(s, p)[k] = s[k]
        /\ Append(s, p)[Len(s) + 1] = p
    BY AppendAt
  <2> QED BY <1>1, <2>1, <2>2, <2>3
<1>3. CASE same # {}
  <2>1. Stored(s, p) = [i \in DOMAIN s |-> IF i \in same THEN q ELSE s[i]]
    BY <1>3 DEF Stored
  <2>2. q \in Runtime
    BY DEF Runtime
  <2>3. \A i \in 1..Len(s) : i \in same <=> s[i].id = p.id
    BY <1>1
  <2>4. \E i \in 1..Len(s) : s[i].id = p.id
    BY <1>1, <1>3
  <2> HIDE DEF same, q
  <2>5. Stored(s, p) \in [1..Len(s) -> Runtime]
    BY <1>1, <2>1, <2>2
  <2>6. Stored(s, p) \in Seq(Runtime) /\ Len(Stored(s, p)) = Len(s)
    BY <1>1, <2>5
  <2>7. \A i \in 1..Len(s) : Stored(s, p)[i] = IF s[i].id = p.id THEN q ELSE s[i]
    BY <1>1, <2>1, <2>3
  <2> QED BY <1>1, <2>4, <2>6, <2>7 DEF q
<1> QED BY <1>2, <1>3

\* What a step that leaves the session's objects and the tasks alone has to show.
LEMMA CallsOnly ==
  ASSUME TypeOK, UNCHANGED <<control, name>>,
         context' \in [Tasks -> Nat], failed' \subseteq Tasks,
         at' \in [Callers -> Places], job' \in [Callers -> Jobs],
         reply' \in [Callers -> Replies], calls' \in 0..MaxCalls, crossed' \in BOOLEAN
  PROVE  TypeOK'
<1>1. ControlType' /\ Jobs' = Jobs
  BY TypeParts DEF control, ControlType, Refs, Jobs
<1>2. TaskType' /\ CallType'
  BY <1>1, TypeParts DEF TaskType, CallType
<1> QED BY <1>1, <1>2, TypeParts, PTL

LEMMA MaxCallsType == MaxCalls \in Nat /\ 0 \in 0..MaxCalls
<1>1. MaxCalls \in Nat
  BY SessionAssumption
<1> QED BY <1>1

LEMMA TasksOfType == \A id \in Ids : TasksOf[id] \in Seq(Tasks) /\ Len(TasksOf[id]) \in Nat
<1>1. TasksOf \in [Ids -> Seq(Tasks)]
  BY SessionAssumption
<1> QED BY <1>1

LEMMA TypeInit == Init => TypeOK /\ JobFits
<1> SUFFICES ASSUME Init PROVE TypeOK /\ JobFits
  OBVIOUS
<1>1. pools \in Seq(SUBSET Pools) /\ Len(pools) = 1
  BY DEF Init
<1>2. orchs \in Seq(Orchs) /\ Len(orchs) = 1
  <2>1. Empty(1) \in Orchs
    BY DEF Empty, Orchs
  <2> QED BY <2>1 DEF Init
<1>3. sessions \in Seq(Sessions) /\ Len(sessions) = 1
  <2>1. Pending(1) \in Sessions
    BY DEF Pending, Sessions
  <2> QED BY <2>1 DEF Init
<1>4. ref \in Refs
  BY <1>1, <1>2, <1>3 DEF Init, Refs
<1>5. ControlType
  BY <1>1, <1>2, <1>3, <1>4 DEF ControlType
<1>6. TaskType
  BY DEF Init, TaskType
<1>7. CallType
  <2>1. at \in [Callers -> Places] /\ reply \in [Callers -> Replies]
    BY DEF Init, Places, Replies
  <2>2. job \in [Callers -> Jobs]
    BY <1>5, NobodyType DEF Init
  <2>3. calls \in 0..MaxCalls /\ crossed \in BOOLEAN
    BY MaxCallsType DEF Init
  <2> QED BY <2>1, <2>2, <2>3 DEF CallType
<1>8. JobFits
  BY DEF Init, JobFits, Fits
<1> QED BY <1>5, <1>6, <1>7, <1>8, TypeParts

\* A step of c leaves to the others what fits them.
LEMMA JobFitsOthers ==
  ASSUME JobFits, NEW c \in Callers, Fits(at'[c], job'[c]),
         \A d \in Callers : d # c => at'[d] = at[d] /\ job'[d] = job[d]
  PROVE  JobFits'
<1> SUFFICES ASSUME NEW d \in Callers PROVE Fits(at'[d], job'[d])
  BY DEF JobFits
<1> QED BY DEF JobFits

LEMMA FitsElsewhere == \A place, j : place \notin {"register", "connect"} => Fits(place, j)
BY DEF Fits

LEMMA TypeAddPool ==
  ASSUME TypeOK, JobFits, NEW c \in Callers, NEW pool \in Pools, AddPool(c, pool)
  PROVE  TypeOK' /\ JobFits'
<1>1. ControlType /\ TaskType /\ CallType
  BY TypeParts
<1>2. /\ pools' = [pools EXCEPT ![ref.provider] = @ \cup {pool}]
      /\ Answer(c, "done") /\ UNCHANGED <<orchs, sessions, ref, name, context, failed>>
  BY DEF AddPool, tasks
<1>3. pools' \in Seq(SUBSET Pools) /\ Len(pools') = Len(pools)
  <2>1. ref.provider \in 1..Len(pools) /\ pools \in Seq(SUBSET Pools)
    BY <1>1 DEF ControlType, Refs
  <2>2. pools[ref.provider] \cup {pool} \in SUBSET Pools
    BY <2>1
  <2>3. pools' = [pools EXCEPT ![ref.provider] = pools[ref.provider] \cup {pool}]
    BY <1>2
  <2> QED BY <2>1, <2>2, <2>3, ExceptSeq
<1>4. ControlType' /\ TaskType'
  BY <1>1, <1>2, <1>3 DEF ControlType, Refs, TaskType
<1>5. CallType' /\ at' = at /\ job' = job
  BY <1>1, <1>2, AnswerType DEF Replies
<1>6. JobFits'
  BY <1>5 DEF JobFits
<1> QED BY <1>4, <1>5, <1>6, TypeParts, PTL

LEMMA TypeHydrate ==
  ASSUME TypeOK, JobFits, NEW c \in Callers, NEW plan \in Seq(Ids),
         NEW rest \in Seq(Ids) \ {<<>>}, Hydrate(c, plan, rest),
         ref' \in Refs, UNCHANGED <<pools, orchs, sessions>>
  PROVE  TypeOK' /\ JobFits'
<1>1. ControlType /\ TaskType /\ CallType
  BY TypeParts
<1>2. /\ Begin(c, "register") /\ "register" \in Places
      /\ job' = [job EXCEPT ![c] = [orch |-> ref.orch, session |-> ref.session, plan |-> plan,
                                    rest |-> rest, tasks |-> <<>>, n |-> 0]]
      /\ UNCHANGED <<name, context, failed, reply>>
  BY DEF Hydrate, tasks, Places
<1>3. ControlType' /\ TaskType' /\ Jobs' = Jobs
  BY <1>1, <1>2 DEF ControlType, TaskType, Refs, Jobs
<1> DEFINE new == [orch |-> ref.orch, session |-> ref.session, plan |-> plan,
                   rest |-> rest, tasks |-> <<>>, n |-> 0]
<1>4. /\ new \in Jobs /\ new.rest = rest /\ new.tasks = <<>>
  <2>1. ref.orch \in 1..Len(orchs) /\ ref.session \in 1..Len(sessions)
    BY <1>1 DEF ControlType, Refs
  <2> QED BY <2>1 DEF Jobs
<1> HIDE DEF new
<1>5. /\ job' \in [Callers -> Jobs] /\ job'[c] = new
      /\ \A d \in Callers : d # c => job'[d] = job[d]
  BY <1>1, <1>2, <1>4 DEF CallType, new
<1>6. /\ at' \in [Callers -> Places] /\ crossed' \in BOOLEAN /\ calls' \in 0..MaxCalls
      /\ at'[c] = "register" /\ \A d \in Callers : d # c => at'[d] = at[d]
  BY <1>1, <1>2, BeginType
<1>7. CallType'
  BY <1>1, <1>2, <1>3, <1>5, <1>6 DEF CallType
<1>8. JobFits'
  <2>1. /\ job'[c].rest # <<>> /\ Len(job'[c].tasks) = 0
        /\ Len(TasksOf[Head(job'[c].rest)]) \in Nat
    BY <1>4, <1>5, TasksOfType
  <2>2. 1..Len(job'[c].tasks) = {}
    BY <2>1
  <2>3. Len(job'[c].tasks) <= Len(TasksOf[Head(job'[c].rest)]) /\ at'[c] # "connect"
    BY <1>6, <2>1
  <2>4. Fits(at'[c], job'[c])
    BY <2>1, <2>2, <2>3 DEF Fits
  <2> QED BY <1>5, <1>6, <2>4, JobFitsOthers
<1> QED BY <1>3, <1>7, <1>8, TypeParts, PTL

\* A step of c, in four variables: where it goes and what it works on then.
LEMMA CallMoves ==
  ASSUME TypeOK, JobFits, ControlType', TaskType',
         Len(orchs) <= Len(orchs'), Len(sessions) <= Len(sessions'),
         NEW c \in Callers, NEW place \in Places, NEW j \in Jobs',
         at' = [at EXCEPT ![c] = place], job' = [job EXCEPT ![c] = j], Fits(place, j),
         reply' \in [Callers -> Replies], calls' \in 0..MaxCalls, crossed' \in BOOLEAN
  PROVE  TypeOK' /\ JobFits'
<1>1. ControlType /\ CallType
  BY TypeParts
<1>2. Jobs \subseteq Jobs'
  BY <1>1, JobsGrow
<1>3. at' \in [Callers -> Places] /\ job' \in [Callers -> Jobs']
  <2>1. job \in [Callers -> Jobs'] /\ at \in [Callers -> Places]
    BY <1>1, <1>2 DEF CallType
  <2> QED BY <2>1
<1>4. /\ at'[c] = place /\ job'[c] = j
      /\ \A d \in Callers : d # c => at'[d] = at[d] /\ job'[d] = job[d]
  BY <1>1 DEF CallType
<1>5. CallType'
  BY <1>3 DEF CallType
<1>6. JobFits'
  BY <1>4, JobFitsOthers
<1> QED BY <1>5, <1>6, TypeParts, PTL

LEMMA CallEnds ==
  ASSUME TypeOK, JobFits, ControlType', TaskType',
         Len(orchs) <= Len(orchs'), Len(sessions) <= Len(sessions'),
         NEW c \in Callers, NEW how \in Replies, End(c, how)
  PROVE  TypeOK' /\ JobFits'
<1>1. ControlType /\ CallType
  BY TypeParts
<1>2. /\ at' = [at EXCEPT ![c] = "idle"] /\ job' = [job EXCEPT ![c] = Nobody]
      /\ "idle" \in Places
  BY DEF End, Goto, Places
<1>3. /\ crossed' \in BOOLEAN /\ reply' \in [Callers -> Replies] /\ calls' = calls
  BY <1>1, EndType
<1>4. Nobody \in Jobs'
  BY <1>1, JobsGrow, NobodyType
<1>5. Fits("idle", Nobody) /\ calls' \in 0..MaxCalls
  BY <1>1, <1>3, FitsElsewhere DEF CallType
<1> QED BY <1>2, <1>3, <1>4, <1>5, CallMoves

\* A call that only begins, at a place where no pipeline is being made.
LEMMA CallBegins ==
  ASSUME TypeOK, JobFits, ControlType', TaskType',
         Len(orchs) <= Len(orchs'), Len(sessions) <= Len(sessions'),
         NEW c \in Callers, NEW place \in Places \ {"register", "connect"},
         Begin(c, place), UNCHANGED <<job, reply>>
  PROVE  TypeOK' /\ JobFits'
<1>1. ControlType /\ CallType
  BY TypeParts
<1>2. at' = [at EXCEPT ![c] = place] /\ job' = [job EXCEPT ![c] = job[c]]
  BY <1>1 DEF Begin, Goto, CallType
<1>3. crossed' \in BOOLEAN /\ calls' \in 0..MaxCalls
  BY <1>1, BeginType
<1>4. job[c] \in Jobs' /\ Fits(place, job[c]) /\ reply' \in [Callers -> Replies]
  BY <1>1, JobsGrow, FitsElsewhere DEF CallType
<1> QED BY <1>2, <1>3, <1>4, CallMoves

\* Nothing but the calls moves: the objects and the tasks keep their types.
LEMMA SameObjects ==
  ASSUME TypeOK, UNCHANGED <<control, tasks>>
  PROVE  /\ ControlType' /\ TaskType' /\ Jobs' = Jobs
         /\ Len(orchs) <= Len(orchs') /\ Len(sessions) <= Len(sessions')
<1>1. ControlType /\ TaskType
  BY TypeParts
<1>2. UNCHANGED <<pools, orchs, sessions, ref, name, context, failed>>
  BY DEF control, tasks
<1>3. ControlType' /\ TaskType' /\ Jobs' = Jobs
  BY <1>1, <1>2 DEF ControlType, TaskType, Refs, Jobs
<1>4. Len(orchs) \in Nat /\ Len(sessions) \in Nat
  BY <1>1 DEF ControlType
<1> QED BY <1>2, <1>3, <1>4

LEMMA TypeAnswer ==
  ASSUME TypeOK, JobFits, UNCHANGED <<control, tasks>>,
         NEW c \in Callers, NEW how \in Replies, Answer(c, how)
  PROVE  TypeOK' /\ JobFits'
<1>1. ControlType /\ CallType
  BY TypeParts
<1>2. UNCHANGED <<orchs, sessions>>
  BY DEF control
<1>3. CallType' /\ at' = at /\ job' = job
  BY <1>1, <1>2, AnswerType
<1>4. JobFits'
  BY <1>3 DEF JobFits
<1> QED BY <1>3, <1>4, SameObjects, TypeParts, PTL

LEMMA TypeExecute ==
  ASSUME TypeOK, JobFits, NEW c \in Callers
  PROVE  /\ \A plan \in Plans : Execute(c, plan) => TypeOK' /\ JobFits'
         /\ \A id \in Ids : AddPipeline(c, id) => TypeOK' /\ JobFits'
<1>1. ControlType
  BY TypeParts
<1>2. ASSUME NEW plan \in Plans, Execute(c, plan) PROVE TypeOK' /\ JobFits'
  <2>1. plan \in Seq(Ids) \ {<<>>}
    BY SessionAssumption
  <2>2. /\ Hydrate(c, plan, plan) /\ ref' = [ref EXCEPT !.plan = plan]
        /\ UNCHANGED <<pools, orchs, sessions>>
    BY <1>2 DEF Execute, Hydrate
  <2>3. ref' \in Refs
    BY <1>1, <2>1, <2>2 DEF ControlType, Refs
  <2> QED BY <2>1, <2>2, <2>3, TypeHydrate
<1>3. ASSUME NEW id \in Ids, AddPipeline(c, id) PROVE TypeOK' /\ JobFits'
  <2>1. <<>> \in Seq(Ids) /\ <<id>> \in Seq(Ids) \ {<<>>}
    OBVIOUS
  <2>2. /\ Hydrate(c, <<>>, <<id>>) /\ ref' = ref
        /\ UNCHANGED <<pools, orchs, sessions>>
    BY <1>3 DEF AddPipeline, Hydrate
  <2>3. ref' \in Refs
    BY <1>1, <2>2 DEF ControlType
  <2> QED BY <2>1, <2>2, <2>3, TypeHydrate
<1> QED BY <1>2, <1>3

\* The next task of a caller that is not done with its pipeline.
LEMMA TaskNowType ==
  ASSUME TypeOK, JobFits, NEW c \in Callers,
         at[c] = "connect" \/ (at[c] = "register" /\ ~ Hydrated(c))
  PROVE  /\ TaskNow(c) \in Tasks /\ Head(job[c].rest) \in Ids
         /\ Len(job[c].tasks) < Len(TasksOf[Head(job[c].rest)])
<1>1. job[c] \in Jobs /\ Fits(at[c], job[c])
  BY TypeParts DEF CallType, JobFits
<1>2. job[c].rest \in Seq(Ids) /\ job[c].rest # <<>> /\ job[c].tasks \in Seq(Tasks)
  BY <1>1 DEF Jobs, Fits
<1>3. Head(job[c].rest) \in Ids /\ Len(job[c].tasks) \in Nat
  BY <1>2
<1>4. /\ TasksOf[Head(job[c].rest)] \in Seq(Tasks)
      /\ Len(TasksOf[Head(job[c].rest)]) \in Nat
  BY <1>3, TasksOfType
<1>5. Len(job[c].tasks) < Len(TasksOf[Head(job[c].rest)])
  BY <1>1, <1>3, <1>4 DEF Fits, Hydrated
<1>6. Len(job[c].tasks) + 1 \in 1..Len(TasksOf[Head(job[c].rest)])
  BY <1>3, <1>4, <1>5
<1> QED BY <1>3, <1>4, <1>5, <1>6, ElementOfSeq DEF TaskNow

LEMMA TypeRegister ==
  ASSUME TypeOK, JobFits, NEW c \in Callers, Register(c)
  PROVE  TypeOK' /\ JobFits'
<1>1. ControlType /\ TaskType /\ CallType /\ job[c] \in Jobs
  BY TypeParts DEF CallType
<1>2. /\ at[c] = "register" /\ ~ Hydrated(c) /\ UNCHANGED <<pools, orchs, sessions, ref, context>>
      /\ name' = [name EXCEPT ![TaskNow(c)] = @ + 1]
  BY DEF Register, control, Increment
<1>3. TaskNow(c) \in Tasks /\ Len(job[c].tasks) < Len(TasksOf[Head(job[c].rest)])
  BY <1>2, TaskNowType
<1>4. /\ ControlType' /\ Jobs' = Jobs
      /\ Len(orchs) <= Len(orchs') /\ Len(sessions) <= Len(sessions')
  BY <1>1, <1>2 DEF ControlType, Refs, Jobs
<1>5. name' \in [Tasks -> Nat] /\ context' \in [Tasks -> Nat]
  <2>1. name[TaskNow(c)] + 1 \in Nat /\ name' = [name EXCEPT ![TaskNow(c)] = name[TaskNow(c)] + 1]
    BY <1>1, <1>2, <1>3 DEF TaskType
  <2> QED BY <1>1, <1>2, <2>1 DEF TaskType
<1>6. CASE Goto(c, "connect") /\ UNCHANGED <<failed, job, reply, calls>>
  <2>1. TaskType'
    BY <1>1, <1>5, <1>6 DEF TaskType
  <2>2. "connect" \in Places /\ at' = [at EXCEPT ![c] = "connect"]
    BY <1>6 DEF Goto, Places
  <2>3. Fits("connect", job[c])
    BY <1>2, <1>3 DEF JobFits, Fits
  <2>4. job' = [job EXCEPT ![c] = job[c]] /\ crossed' \in BOOLEAN
    BY <1>1, <1>6, <2>2, GotoType DEF CallType
  <2>5. reply' \in [Callers -> Replies] /\ calls' \in 0..MaxCalls
    BY <1>1, <1>6 DEF CallType
  <2> QED BY <1>1, <1>4, <2>1, <2>2, <2>3, <2>4, <2>5, CallMoves
<1>7. CASE End(c, "raised") /\ failed' = failed \cup {TaskNow(c)}
  <2>1. TaskType' /\ "raised" \in Replies
    BY <1>1, <1>3, <1>5, <1>7 DEF TaskType, Replies
  <2> QED BY <1>4, <1>7, <2>1, CallEnds
<1> QED BY <1>6, <1>7 DEF Register

LEMMA TypeConnect ==
  ASSUME TypeOK, JobFits, NEW c \in Callers, Connect(c)
  PROVE  TypeOK' /\ JobFits'
<1> DEFINE t == TaskNow(c)
           s == TasksOf[Head(job[c].rest)]
<1>1. ControlType /\ TaskType /\ CallType /\ job[c] \in Jobs /\ Fits(at[c], job[c])
  BY TypeParts DEF CallType, JobFits
<1>2. at[c] = "connect" /\ UNCHANGED <<pools, orchs, sessions, ref, name>>
  BY DEF Connect, control
<1>3. t \in Tasks /\ Head(job[c].rest) \in Ids /\ Len(job[c].tasks) < Len(s)
  BY <1>2, TaskNowType
<1>4. /\ ControlType' /\ Jobs' = Jobs
      /\ Len(orchs) <= Len(orchs') /\ Len(sessions) <= Len(sessions')
  BY <1>1, <1>2 DEF ControlType, Refs, Jobs
<1>5. context' \in [Tasks -> Nat]
  <2>1. context' = context \/ context' = [context EXCEPT ![t] = name[t]]
    BY DEF Connect, AddContext
  <2>2. name[t] \in Nat
    BY <1>1, <1>3 DEF TaskType
  <2> QED BY <1>1, <2>1, <2>2 DEF TaskType
<1>6. CASE End(c, "raised") /\ failed' = failed \cup {t}
  <2>1. TaskType' /\ "raised" \in Replies
    BY <1>1, <1>2, <1>3, <1>5, <1>6 DEF TaskType, Replies
  <2> QED BY <1>4, <1>6, <2>1, CallEnds
<1>7. CASE /\ Goto(c, "register") /\ job' = [job EXCEPT ![c].tasks = Append(@, t)]
           /\ failed' = failed \ {t} /\ UNCHANGED <<reply, calls>>
  <2> DEFINE j == [job[c] EXCEPT !.tasks = Append(job[c].tasks, t)]
  <2>1. TaskType'
    BY <1>1, <1>2, <1>5, <1>7 DEF TaskType
  <2>2. /\ "register" \in Places /\ at' = [at EXCEPT ![c] = "register"]
        /\ job' = [job EXCEPT ![c] = j]
    BY <1>7 DEF Goto, Places
  <2>3. job[c].tasks \in Seq(Tasks)
    BY <1>1 DEF Jobs
  <2>4. /\ Append(job[c].tasks, t) \in Seq(Tasks) /\ Len(job[c].tasks) \in Nat
        /\ Len(Append(job[c].tasks, t)) = Len(job[c].tasks) + 1
        /\ \A k \in 1..Len(job[c].tasks) : Append(job[c].tasks, t)[k] = job[c].tasks[k]
        /\ Append(job[c].tasks, t)[Len(job[c].tasks) + 1] = t
    BY <1>3, <2>3, AppendAt
  <2>5. /\ j \in Jobs /\ j.rest = job[c].rest /\ j.tasks = Append(job[c].tasks, t)
    BY <1>1, <2>4 DEF Jobs
  <2>6. \A i \in 1..Len(j.tasks) : j.tasks[i] = s[i]
    <3> SUFFICES ASSUME NEW i \in 1..(Len(job[c].tasks) + 1) PROVE j.tasks[i] = s[i]
      BY <2>4, <2>5
    <3>1. CASE i \in 1..Len(job[c].tasks)
      BY <1>1, <1>2, <2>4, <2>5, <3>1 DEF Fits
    <3>2. CASE i = Len(job[c].tasks) + 1
      BY <2>4, <2>5, <3>2 DEF TaskNow
    <3> QED BY <2>4, <3>1, <3>2
  <2>7. Len(j.tasks) <= Len(s) /\ Len(s) \in Nat
    BY <1>3, <2>4, <2>5, TasksOfType
  <2>8. Fits("register", j)
    BY <1>1, <1>2, <2>5, <2>6, <2>7 DEF Fits
  <2>9. crossed' \in BOOLEAN /\ reply' \in [Callers -> Replies] /\ calls' \in 0..MaxCalls
    BY <1>1, <1>7, <2>2, GotoType DEF CallType
  <2> HIDE DEF j
  <2> QED BY <1>4, <2>1, <2>2, <2>5, <2>8, <2>9, CallMoves
<1> QED BY <1>6, <1>7 DEF Connect

\* An orchestrator with other pipelines.
LEMMA OrchsType ==
  ASSUME orchs \in Seq(Orchs), NEW i \in 1..Len(orchs), NEW s \in Seq(Runtime),
         orchs' = [orchs EXCEPT ![i].pipelines = s]
  PROVE  /\ orchs' \in Seq(Orchs) /\ Len(orchs') = Len(orchs)
         /\ DOMAIN orchs = 1..Len(orchs) /\ DOMAIN orchs' = DOMAIN orchs
         /\ \A k \in 1..Len(orchs) : orchs'[k].provider = orchs[k].provider
         /\ orchs'[i].pipelines = s
         /\ \A k \in 1..Len(orchs) : k # i => orchs'[k] = orchs[k]
<1> DEFINE o == [orchs[i] EXCEPT !.pipelines = s]
<1>1. orchs[i] \in Orchs
  BY ElementOfSeq
<1>2. o \in Orchs /\ o.pipelines = s /\ o.provider = orchs[i].provider
  BY <1>1 DEF Orchs
<1>3. orchs' = [orchs EXCEPT ![i] = o]
  OBVIOUS
<1> HIDE DEF o
<1>4. /\ orchs' \in Seq(Orchs) /\ Len(orchs') = Len(orchs)
      /\ \A k \in 1..Len(orchs) : orchs'[k] = IF k = i THEN o ELSE orchs[k]
  <2>1. /\ [orchs EXCEPT ![i] = o] \in Seq(Orchs)
        /\ Len([orchs EXCEPT ![i] = o]) = Len(orchs)
        /\ \A k \in 1..Len(orchs) : [orchs EXCEPT ![i] = o][k] = IF k = i THEN o ELSE orchs[k]
    BY <1>2, ExceptSeq
  <2> QED BY <1>3, <2>1
<1>5. DOMAIN orchs = 1..Len(orchs) /\ DOMAIN orchs' = 1..Len(orchs')
  BY <1>4, LenProperties
<1> QED BY <1>2, <1>4, <1>5

\* What Store makes of the job.
NewPipeline(c) == [id |-> Head(job[c].rest), session |-> job[c].session, tasks |-> job[c].tasks,
                   started |-> FALSE, again |-> FALSE]

LEMMA NewPipelineType ==
  ASSUME TypeOK, JobFits, NEW c \in Callers, at[c] = "register", Hydrated(c)
  PROVE  /\ NewPipeline(c) \in Runtime
         /\ NewPipeline(c).tasks = TasksOf[NewPipeline(c).id]
<1>1. job[c] \in Jobs /\ Fits(at[c], job[c]) /\ sessions \in Seq(Sessions)
  BY TypeParts DEF CallType, JobFits, ControlType
<1>2. /\ job[c].rest \in Seq(Ids) /\ job[c].rest # <<>> /\ job[c].tasks \in Seq(Tasks)
      /\ job[c].session \in 1..Len(sessions)
  BY <1>1 DEF Jobs, Fits
<1>3. Head(job[c].rest) \in Ids /\ Len(sessions) \in Nat
  BY <1>1, <1>2
<1>4. NewPipeline(c) \in Runtime
  BY <1>2, <1>3 DEF Runtime, NewPipeline
<1>5. job[c].tasks = TasksOf[Head(job[c].rest)]
  <2>1. /\ TasksOf[Head(job[c].rest)] \in Seq(Tasks)
        /\ Len(job[c].tasks) = Len(TasksOf[Head(job[c].rest)])
    BY <1>3, TasksOfType DEF Hydrated
  <2>2. \A i \in 1..Len(job[c].tasks) : job[c].tasks[i] = TasksOf[Head(job[c].rest)][i]
    BY <1>1 DEF Fits
  <2> QED BY <1>2, <2>1, <2>2, SeqEqual
<1> QED BY <1>4, <1>5 DEF NewPipeline

LEMMA TypeStore ==
  ASSUME TypeOK, JobFits, NEW c \in Callers, Store(c)
  PROVE  TypeOK' /\ JobFits'
<1> DEFINE o == job[c].orch
           place == IF Len(job[c].rest) = 1 THEN "finish" ELSE "register"
           j == [job[c] EXCEPT !.rest = Tail(job[c].rest), !.tasks = <<>>]
<1>1. ControlType /\ TaskType /\ CallType /\ job[c] \in Jobs /\ Fits(at[c], job[c])
  BY TypeParts DEF CallType, JobFits
<1>2. /\ at[c] = "register" /\ Hydrated(c)
      /\ orchs' = [orchs EXCEPT ![o].pipelines = Stored(@, NewPipeline(c))]
      /\ job' = [job EXCEPT ![c].rest = Tail(@), ![c].tasks = <<>>]
      /\ Goto(c, place)
      /\ UNCHANGED <<pools, sessions, ref, name, context, failed, reply, calls>>
  BY DEF Store, tasks, NewPipeline
<1>3. /\ o \in 1..Len(orchs) /\ job[c].rest \in Seq(Ids) /\ job[c].rest # <<>>
  BY <1>1, <1>2 DEF Jobs, Fits
<1>4. orchs' \in Seq(Orchs) /\ Len(orchs') = Len(orchs)
  <2>1. orchs[o] \in Orchs /\ orchs \in Seq(Orchs)
    BY <1>1, <1>3, ElementOfSeq DEF ControlType
  <2>2. orchs[o].pipelines \in Seq(Runtime)
    BY <2>1 DEF Orchs
  <2>3. Stored(orchs[o].pipelines, NewPipeline(c)) \in Seq(Runtime)
    BY <1>2, <2>2, NewPipelineType, StoredAt
  <2>4. orchs' = [orchs EXCEPT ![o].pipelines = Stored(orchs[o].pipelines, NewPipeline(c))]
    BY <1>2
  <2> QED BY <1>3, <2>1, <2>3, <2>4, OrchsType
<1>5. ControlType' /\ TaskType' /\ Jobs' = Jobs
  BY <1>1, <1>2, <1>4 DEF ControlType, TaskType, Refs, Jobs
<1>6. Len(orchs) <= Len(orchs') /\ Len(sessions) <= Len(sessions')
  BY <1>1, <1>2, <1>4 DEF ControlType
<1>7. /\ Tail(job[c].rest) \in Seq(Ids) /\ Len(Tail(job[c].rest)) = Len(job[c].rest) - 1
      /\ Len(job[c].rest) \in Nat \ {0}
  BY <1>3, HeadTailProperties, EmptySeq
<1>8. <<>> \in Seq(Tasks) /\ Len(<<>>) = 0
  BY EmptySeq
<1>9. j \in Jobs /\ j.rest = Tail(job[c].rest) /\ j.tasks = <<>>
  BY <1>1, <1>7, <1>8 DEF Jobs
<1>10. place \in Places /\ at' = [at EXCEPT ![c] = place] /\ job' = [job EXCEPT ![c] = j]
  BY <1>2 DEF Goto, Places
<1>11. Fits(place, j)
  <2>1. CASE Len(job[c].rest) = 1
    BY <2>1 DEF Fits
  <2>2. CASE Len(job[c].rest) # 1
    <3>1. Tail(job[c].rest) # <<>>
      <4>1. Len(Tail(job[c].rest)) # 0
        BY <1>7, <2>2
      <4> QED BY <1>8, <4>1
    <3>2. Head(Tail(job[c].rest)) \in Ids
      BY <1>7, <3>1, HeadTailProperties
    <3>3. Len(TasksOf[Head(j.rest)]) \in Nat
      BY <1>9, <3>2, TasksOfType
    <3>4. 1..Len(j.tasks) = {} /\ Len(j.tasks) <= Len(TasksOf[Head(j.rest)])
      BY <1>8, <1>9, <3>3
    <3> HIDE DEF j
    <3> QED BY <1>9, <2>2, <3>1, <3>4 DEF Fits
  <2> QED BY <2>1, <2>2
<1>12. crossed' \in BOOLEAN /\ reply' \in [Callers -> Replies] /\ calls' \in 0..MaxCalls
  BY <1>1, <1>2, <1>10, GotoType DEF CallType
<1> HIDE DEF j, place, o
<1> QED BY <1>5, <1>6, <1>9, <1>10, <1>11, <1>12, CallMoves

LEMMA TypeFinish ==
  ASSUME TypeOK, JobFits, NEW c \in Callers, Finish(c)
  PROVE  TypeOK' /\ JobFits'
<1>1. ControlType /\ TaskType /\ job[c] \in Jobs /\ ref \in Refs /\ sessions \in Seq(Sessions)
  BY TypeParts DEF CallType, ControlType
<1>2. UNCHANGED <<pools, orchs, ref, name, context, failed>>
  BY DEF Finish, tasks
<1>3. \E how \in Replies : End(c, how)
  BY DEF Finish, Replies
<1>4. sessions' \in Seq(Sessions) /\ Len(sessions') = Len(sessions)
  <2>1. CASE UNCHANGED sessions
    BY <1>1, <2>1
  <2>2. CASE sessions' = [sessions EXCEPT ![ref.session].state = "RUNNING",
                                          ![ref.session].plan = job[c].plan]
    <3> DEFINE s == [sessions[ref.session] EXCEPT !.state = "RUNNING", !.plan = job[c].plan]
    <3>1. ref.session \in 1..Len(sessions) /\ job[c].plan \in Seq(Ids)
      BY <1>1 DEF Refs, Jobs
    <3>2. sessions[ref.session] \in Sessions
      BY <1>1, <3>1, ElementOfSeq
    <3>3. s \in Sessions
      BY <3>1, <3>2 DEF Sessions
    <3>4. sessions' = [sessions EXCEPT ![ref.session] = s]
      BY <2>2
    <3> HIDE DEF s
    <3> QED BY <1>1, <3>1, <3>3, <3>4, ExceptSeq
  <2> QED BY <2>1, <2>2 DEF Finish
<1>5. ControlType' /\ TaskType'
  BY <1>1, <1>2, <1>4 DEF ControlType, TaskType, Refs
<1>6. Len(orchs) <= Len(orchs') /\ Len(sessions) <= Len(sessions')
  BY <1>1, <1>2, <1>4 DEF ControlType
<1> QED BY <1>3, <1>5, <1>6, CallEnds

LEMMA TypeStart ==
  ASSUME TypeOK, JobFits, NEW c \in Callers, Start(c) \/ StartAll(c)
  PROVE  TypeOK' /\ JobFits'
<1>1. ControlType /\ TaskType /\ ref \in Refs /\ sessions \in Seq(Sessions)
  BY TypeParts DEF ControlType
<1>2. CASE Answer(c, "raised") /\ UNCHANGED <<control, tasks>>
  BY <1>2, TypeAnswer DEF Replies
<1>3. CASE /\ Begin(c, "loop") /\ UNCHANGED <<pools, orchs, ref, tasks, job, reply>>
           /\ sessions' = [sessions EXCEPT ![ref.session].state = "RUNNING"] \/ UNCHANGED sessions
  <2>1. sessions' \in Seq(Sessions) /\ Len(sessions') = Len(sessions)
    <3> DEFINE s == [sessions[ref.session] EXCEPT !.state = "RUNNING"]
    <3>1. ref.session \in 1..Len(sessions)
      BY <1>1 DEF Refs
    <3>2. sessions[ref.session] \in Sessions
      BY <1>1, <3>1, ElementOfSeq
    <3>3. s \in Sessions
      BY <3>2 DEF Sessions
    <3>4. sessions' = [sessions EXCEPT ![ref.session] = s] \/ UNCHANGED sessions
      BY <1>3
    <3> HIDE DEF s
    <3> QED BY <1>1, <3>1, <3>3, <3>4, ExceptSeq
  <2>2. ControlType' /\ TaskType'
    BY <1>1, <1>3, <2>1 DEF ControlType, TaskType, Refs, tasks
  <2>3. Len(orchs) <= Len(orchs') /\ Len(sessions) <= Len(sessions')
    BY <1>1, <1>3, <2>1 DEF ControlType
  <2>4. "loop" \in Places \ {"register", "connect"}
    BY DEF Places
  <2>5. Begin(c, "loop") /\ UNCHANGED <<job, reply>>
    BY <1>3
  <2> QED BY <2>2, <2>3, <2>4, <2>5, CallBegins
<1> QED BY <1>2, <1>3 DEF Start, StartAll, control

LEMMA TypeLoop ==
  ASSUME TypeOK, JobFits, NEW c \in Callers, Loop(c)
  PROVE  TypeOK' /\ JobFits'
<1> DEFINE s == orchs[ref.orch].pipelines
           ids == [i \in DOMAIN s |-> s[i].id]
           j == [job[c] EXCEPT !.orch = ref.orch, !.n = Len(s), !.rest = ids]
<1>1. ControlType /\ CallType /\ job[c] \in Jobs /\ ref \in Refs
  BY TypeParts DEF CallType, ControlType
<1>2. /\ job' = [job EXCEPT ![c].orch = ref.orch, ![c].n = Len(s), ![c].rest = ids]
      /\ Goto(c, "start") /\ UNCHANGED <<control, tasks, reply, calls>>
  BY DEF Loop
<1>3. ref.orch \in 1..Len(orchs) /\ s \in Seq(Runtime)
  <2>1. ref.orch \in 1..Len(orchs) /\ orchs \in Seq(Orchs)
    BY <1>1 DEF Refs, ControlType
  <2>2. orchs[ref.orch] \in Orchs
    BY <2>1, ElementOfSeq
  <2> QED BY <2>1, <2>2 DEF Orchs
<1>4. Len(s) \in Nat /\ ids \in Seq(Ids)
  <2> HIDE DEF s
  <2>1. Len(s) \in Nat /\ DOMAIN s = 1..Len(s) /\ \A i \in 1..Len(s) : s[i] \in Runtime
    BY <1>3, LenProperties, ElementOfSeq
  <2>2. \A i \in 1..Len(s) : s[i].id \in Ids
    BY <2>1 DEF Runtime
  <2>3. ids \in [1..Len(s) -> Ids]
    BY <2>1, <2>2
  <2> HIDE DEF ids
  <2> QED BY <2>1, <2>3
<1> HIDE DEF s, ids
<1>5. j \in Jobs
  BY <1>1, <1>3, <1>4 DEF Jobs
<1>6. /\ "start" \in Places /\ at' = [at EXCEPT ![c] = "start"] /\ job' = [job EXCEPT ![c] = j]
  BY <1>2 DEF Goto, Places
<1>7. Fits("start", j)
  BY FitsElsewhere
<1>8. crossed' \in BOOLEAN /\ reply' \in [Callers -> Replies] /\ calls' \in 0..MaxCalls
  BY <1>1, <1>2, <1>6, GotoType DEF CallType
<1>9. /\ ControlType' /\ TaskType' /\ Jobs' = Jobs
      /\ Len(orchs) <= Len(orchs') /\ Len(sessions) <= Len(sessions')
  BY <1>2, SameObjects
<1> HIDE DEF j
<1> QED BY <1>5, <1>6, <1>7, <1>8, <1>9, CallMoves

\* The step of the loop at position i of the dict.
StartAt(c, i) ==
    /\ i \in DOMAIN orchs[job[c].orch].pipelines
    /\ orchs[job[c].orch].pipelines[i].id = Head(job[c].rest)
    /\ orchs' = [orchs EXCEPT ![job[c].orch].pipelines[i].started = TRUE]

\* Starting one leaves the dict with the pipelines it had.
LEMMA StartAtType ==
  ASSUME TypeOK, NEW c \in Callers, NEW i, StartAt(c, i)
  PROVE  LET s == orchs[job[c].orch].pipelines
             s1 == [s EXCEPT ![i].started = TRUE]
         IN  /\ orchs' \in Seq(Orchs) /\ Len(orchs') = Len(orchs)
             /\ job[c].orch \in 1..Len(orchs)
             /\ \A k \in 1..Len(orchs) : k # job[c].orch => orchs'[k] = orchs[k]
             /\ \A k \in 1..Len(orchs) : orchs'[k].provider = orchs[k].provider
             /\ orchs'[job[c].orch].pipelines = s1
             /\ DOMAIN s = 1..Len(s) /\ DOMAIN s1 = DOMAIN s /\ Len(s1) = Len(s)
             /\ \A k \in DOMAIN s : k # i => s1[k] = s[k]
             /\ s[i] \in Runtime /\ s1[i] = [s[i] EXCEPT !.started = TRUE]
<1> DEFINE o == job[c].orch
           s == orchs[o].pipelines
           p == [s[i] EXCEPT !.started = TRUE]
           s1 == [s EXCEPT ![i].started = TRUE]
<1>1. orchs \in Seq(Orchs) /\ o \in 1..Len(orchs)
  BY TypeParts DEF ControlType, CallType, Jobs
<1>2. s \in Seq(Runtime)
  <2>1. orchs[o] \in Orchs
    BY <1>1, ElementOfSeq
  <2> QED BY <2>1 DEF Orchs
<1>3. i \in DOMAIN s /\ orchs' = [orchs EXCEPT ![o].pipelines[i].started = TRUE]
  BY DEF StartAt
<1>4. orchs' = [orchs EXCEPT ![o].pipelines = s1] /\ s1 = [s EXCEPT ![i] = p]
  BY <1>3
<1> HIDE DEF s
<1>5. i \in 1..Len(s) /\ s[i] \in Runtime /\ DOMAIN s = 1..Len(s)
  BY <1>2, <1>3, LenProperties, ElementOfSeq
<1>6. p \in Runtime
  BY <1>5 DEF Runtime
<1>7. s1 = [s EXCEPT ![i] = p]
  OBVIOUS
<1> HIDE DEF p
<1>8. /\ [s EXCEPT ![i] = p] \in Seq(Runtime) /\ Len([s EXCEPT ![i] = p]) = Len(s)
      /\ \A k \in 1..Len(s) : [s EXCEPT ![i] = p][k] = IF k = i THEN p ELSE s[k]
  BY <1>2, <1>5, <1>6, ExceptSeq
<1>9. s1 \in Seq(Runtime) /\ Len(s1) = Len(s) /\ DOMAIN s1 = DOMAIN s
      /\ \A k \in DOMAIN s : k # i => s1[k] = s[k]
      /\ s1[i] = p
  BY <1>5, <1>7, <1>8
<1>10. /\ orchs' \in Seq(Orchs) /\ Len(orchs') = Len(orchs)
       /\ \A k \in 1..Len(orchs) : orchs'[k].provider = orchs[k].provider
       /\ orchs'[o].pipelines = s1
       /\ \A k \in 1..Len(orchs) : k # o => orchs'[k] = orchs[k]
  <2> HIDE DEF s1, o
  <2> QED BY <1>1, <1>4, <1>9, OrchsType
<1> QED BY <1>1, <1>5, <1>9, <1>10 DEF s, p

LEMMA TypeStartNext ==
  ASSUME TypeOK, JobFits, NEW c \in Callers, StartNext(c)
  PROVE  TypeOK' /\ JobFits'
<1>1. ControlType /\ TaskType /\ CallType /\ job[c] \in Jobs
  BY TypeParts DEF CallType
<1>2. PICK i \in DOMAIN orchs[job[c].orch].pipelines :
        /\ StartAt(c, i)
        /\ \/ /\ job' = [job EXCEPT ![c].rest = Tail(@)]
              /\ UNCHANGED <<at, crossed, reply, calls>>
           \/ End(c, "raised")
  BY DEF StartNext, StartAt
<1>3. /\ at[c] = "start" /\ job[c].rest # <<>>
      /\ UNCHANGED <<pools, sessions, ref, name, context, failed>>
  BY DEF StartNext, tasks
<1>4. orchs' \in Seq(Orchs) /\ Len(orchs') = Len(orchs)
  BY <1>2, StartAtType
<1>5. ControlType' /\ TaskType' /\ Jobs' = Jobs
  BY <1>1, <1>3, <1>4 DEF ControlType, TaskType, Refs, Jobs
<1>6. Len(orchs) <= Len(orchs') /\ Len(sessions) <= Len(sessions')
  BY <1>1, <1>3, <1>4 DEF ControlType
<1>7. CASE End(c, "raised")
  BY <1>5, <1>6, <1>7, CallEnds DEF Replies
<1>8. CASE /\ job' = [job EXCEPT ![c].rest = Tail(@)]
           /\ UNCHANGED <<at, crossed, reply, calls>>
  <2> DEFINE j == [job[c] EXCEPT !.rest = Tail(job[c].rest)]
  <2>1. Tail(job[c].rest) \in Seq(Ids)
    BY <1>1, <1>3, HeadTailProperties DEF Jobs
  <2>2. j \in Jobs
    BY <1>1, <2>1 DEF Jobs
  <2>3. job' = [job EXCEPT ![c] = j] /\ at' = [at EXCEPT ![c] = "start"] /\ "start" \in Places
    BY <1>1, <1>3, <1>8 DEF CallType, Places
  <2>4. Fits("start", j)
    BY FitsElsewhere
  <2>5. crossed' \in BOOLEAN /\ reply' \in [Callers -> Replies] /\ calls' \in 0..MaxCalls
    BY <1>1, <1>8 DEF CallType
  <2> HIDE DEF j
  <2> QED BY <1>5, <1>6, <2>2, <2>3, <2>4, <2>5, CallMoves
<1> QED BY <1>2, <1>7, <1>8

LEMMA TypeReset ==
  ASSUME TypeOK, JobFits, NEW c \in Callers,
         ResetProvider(c) \/ ResetOrchestrator(c) \/ ResetSession(c)
  PROVE  TypeOK' /\ JobFits'
<1>1. /\ ControlType /\ TaskType /\ CallType /\ job[c] \in Jobs /\ ref \in Refs
      /\ pools \in Seq(SUBSET Pools) /\ orchs \in Seq(Orchs) /\ sessions \in Seq(Sessions)
      /\ Len(pools) \in Nat /\ Len(orchs) \in Nat /\ Len(sessions) \in Nat
  BY TypeParts DEF CallType, ControlType
<1>2. /\ ref.provider \in 1..Len(pools) /\ ref.orch \in 1..Len(orchs)
      /\ ref.session \in 1..Len(sessions) /\ ref.plan \in Seq(Ids)
  BY <1>1 DEF Refs
<1>3. CASE ResetProvider(c)
  <2>1. /\ Begin(c, "orchestrator") /\ pools' = Append(pools, {})
        /\ ref' = [ref EXCEPT !.provider = Len(pools')]
        /\ UNCHANGED <<orchs, sessions, name, context, failed, job, reply>>
    BY <1>3 DEF ResetProvider, tasks
  <2>2. {} \in SUBSET Pools
    OBVIOUS
  <2>3. pools' \in Seq(SUBSET Pools) /\ Len(pools') = Len(pools) + 1
    BY <1>1, <2>1, <2>2, AppendAt
  <2>4. Len(pools') \in 1..Len(pools')
    BY <1>1, <2>3
  <2>5. ref' \in Refs'
    BY <1>1, <1>2, <2>1, <2>4 DEF Refs
  <2>6. ControlType' /\ TaskType'
    BY <1>1, <2>1, <2>3, <2>5 DEF ControlType, TaskType
  <2>7. "orchestrator" \in Places \ {"register", "connect"}
    BY DEF Places, Resetting
  <2>8. Len(orchs) <= Len(orchs') /\ Len(sessions) <= Len(sessions')
    BY <1>1, <2>1
  <2> QED BY <2>1, <2>6, <2>7, <2>8, CallBegins
<1>4. CASE ResetOrchestrator(c)
  <2>1. /\ Goto(c, "session") /\ orchs' = Append(orchs, Empty(ref.provider))
        /\ ref' = [ref EXCEPT !.orch = Len(orchs')]
        /\ UNCHANGED <<pools, sessions, name, context, failed, job, reply, calls>>
    BY <1>4 DEF ResetOrchestrator, tasks
  <2>2. Empty(ref.provider) \in Orchs
    <3>1. ref.provider \in Nat /\ <<>> \in Seq(Runtime)
      BY <1>1, <1>2
    <3> QED BY <3>1 DEF Empty, Orchs
  <2>3. orchs' \in Seq(Orchs) /\ Len(orchs') = Len(orchs) + 1
    BY <1>1, <2>1, <2>2, AppendAt
  <2>4. Len(orchs') \in 1..Len(orchs')
    BY <1>1, <2>3
  <2>5. ref' \in Refs'
    BY <1>1, <1>2, <2>1, <2>4 DEF Refs
  <2>6. ControlType' /\ TaskType'
    BY <1>1, <2>1, <2>3, <2>5 DEF ControlType, TaskType
  <2>7. Len(orchs) <= Len(orchs') /\ Len(sessions) <= Len(sessions')
    BY <1>1, <2>1, <2>3
  <2>8. "session" \in Places /\ at' = [at EXCEPT ![c] = "session"]
    BY <2>1 DEF Places, Resetting, Goto
  <2>9. job' = [job EXCEPT ![c] = job[c]] /\ job[c] \in Jobs'
    BY <1>1, <2>1, <2>6, <2>7, JobsGrow DEF CallType
  <2>10. crossed' \in BOOLEAN /\ reply' \in [Callers -> Replies] /\ calls' \in 0..MaxCalls
    BY <1>1, <2>1, <2>8, GotoType DEF CallType
  <2>11. Fits("session", job[c])
    BY FitsElsewhere
  <2> QED BY <2>6, <2>7, <2>8, <2>9, <2>10, <2>11, CallMoves
<1>5. CASE ResetSession(c)
  <2>1. /\ End(c, "done") /\ sessions' = Append(sessions, Pending(ref.orch))
        /\ ref' = [ref EXCEPT !.session = Len(sessions')]
        /\ UNCHANGED <<pools, orchs, name, context, failed>>
    BY <1>5 DEF ResetSession, tasks
  <2>2. Pending(ref.orch) \in Sessions
    <3>1. ref.orch \in Nat /\ <<>> \in Seq(Ids)
      BY <1>1, <1>2
    <3> QED BY <3>1 DEF Pending, Sessions
  <2>3. sessions' \in Seq(Sessions) /\ Len(sessions') = Len(sessions) + 1
    BY <1>1, <2>1, <2>2, AppendAt
  <2>4. Len(sessions') \in 1..Len(sessions')
    BY <1>1, <2>3
  <2>5. ref' \in Refs'
    BY <1>1, <1>2, <2>1, <2>4 DEF Refs
  <2>6. ControlType' /\ TaskType'
    BY <1>1, <2>1, <2>3, <2>5 DEF ControlType, TaskType
  <2>7. Len(orchs) <= Len(orchs') /\ Len(sessions) <= Len(sessions') /\ "done" \in Replies
    BY <1>1, <2>1, <2>3 DEF Replies
  <2> QED BY <2>1, <2>6, <2>7, CallEnds
<1> QED BY <1>3, <1>4, <1>5

\* No step of any caller breaks a type, or what fits a caller.
LEMMA TypeNext == TypeOK /\ JobFits /\ [Next]_vars => TypeOK' /\ JobFits'
<1> SUFFICES ASSUME TypeOK, JobFits, [Next]_vars PROVE TypeOK' /\ JobFits'
  OBVIOUS
<1>1. CASE UNCHANGED vars
  BY <1>1 DEF vars, control, tasks, TypeOK, JobFits
<1>2. CASE Next
  <2>1. PICK c \in Callers :
        \/ \E pool \in Pools : AddPool(c, pool)
        \/ \E plan \in Plans : Execute(c, plan) \/ \E s \in {"dict", "list"} : Submit(c, s, plan)
        \/ \E id \in Ids : AddPipeline(c, id)
        \/ Register(c) \/ Connect(c) \/ Store(c) \/ Finish(c)
        \/ Start(c) \/ StartAll(c) \/ Loop(c) \/ StartNext(c) \/ LoopEnds(c)
        \/ ResetProvider(c) \/ ResetOrchestrator(c) \/ ResetSession(c)
        \/ Snapshot(c)
    BY <1>2 DEF Next
  <2>2. CASE LoopEnds(c)
    <3>1. UNCHANGED <<control, tasks>> /\ \E how \in Replies : End(c, how)
      BY <2>2 DEF LoopEnds, Replies
    <3> QED BY <3>1, SameObjects, CallEnds
  <2>3. CASE Snapshot(c)
    <3>1. UNCHANGED <<control, tasks>> /\ \E how \in Replies : Answer(c, how)
      BY <2>3 DEF Snapshot, Replies
    <3> QED BY <3>1, TypeAnswer
  <2>4. CASE \E plan \in Plans : \E s \in {"dict", "list"} : Submit(c, s, plan)
    <3>1. UNCHANGED <<control, tasks>> /\ \E how \in Replies : Answer(c, how)
      BY <2>4 DEF Submit, ParsePlan, ParsePools, Create, Replies
    <3> QED BY <3>1, TypeAnswer
  <2> QED BY <2>1, <2>2, <2>3, <2>4, TypeAddPool, TypeExecute, TypeRegister, TypeConnect,
             TypeStore, TypeFinish, TypeStart, TypeLoop, TypeStartNext, TypeReset
<1> QED BY <1>1, <1>2

\* The types, for all callers and plans.
THEOREM TypeCorrect == Spec => []TypeOK
<1> QED BY TypeInit, TypeNext, PTL DEF Spec

-----------------------------------------------------------------------------
(***************************************************************************)
(* The registry of the names.                                              *)
(***************************************************************************)

\* A step is one caller's.
OthersStay(c) == \A d \in Callers : d # c => at'[d] = at[d] /\ job'[d] = job[d]
                                             /\ reply'[d] = reply[d]

LEMMA OneMoves ==
  ASSUME CallType, NEW c \in Callers
  PROVE  /\ \A place, j : at' = [at EXCEPT ![c] = place] /\ job' = [job EXCEPT ![c] = j]
                          /\ UNCHANGED reply => OthersStay(c)
         /\ \A place : Goto(c, place) /\ UNCHANGED <<job, reply>> => OthersStay(c)
         /\ \A how : End(c, how) => OthersStay(c)
         /\ \A how : Answer(c, how) => OthersStay(c)
         /\ UNCHANGED <<at, reply>> /\ (\E j : job' = [job EXCEPT ![c] = j]) => OthersStay(c)
BY DEF CallType, OthersStay, Goto, End, Answer, Begin

\* Only Register and Connect touch the names and the registry, and only Connect
\* leaves the place between them; and four actions touch the orchestrators, or
\* lead to the loop.
LEMMA StepShape ==
  ASSUME TypeOK, Next
  PROVE  \E c \in Callers :
            /\ OthersStay(c)
            /\ \/ Register(c) \/ Connect(c)
               \/ at[c] # "connect" /\ UNCHANGED tasks
            /\ \/ Store(c) \/ Loop(c) \/ StartNext(c) \/ ResetOrchestrator(c)
               \/ UNCHANGED orchs /\ at'[c] # "start"
<1>1. CallType
  BY TypeParts
<1>2. PICK c \in Callers :
        \/ \E pool \in Pools : AddPool(c, pool)
        \/ \E plan \in Plans : Execute(c, plan) \/ \E s \in {"dict", "list"} : Submit(c, s, plan)
        \/ \E id \in Ids : AddPipeline(c, id)
        \/ Register(c) \/ Connect(c) \/ Store(c) \/ Finish(c)
        \/ Start(c) \/ StartAll(c) \/ Loop(c) \/ StartNext(c) \/ LoopEnds(c)
        \/ ResetProvider(c) \/ ResetOrchestrator(c) \/ ResetSession(c)
        \/ Snapshot(c)
  BY DEF Next
<1>3. CASE (\E pool \in Pools : AddPool(c, pool)) \/ Snapshot(c)
           \/ (\E plan \in Plans : \E s \in {"dict", "list"} : Submit(c, s, plan))
  <2>1. (\E how : Answer(c, how)) /\ UNCHANGED <<tasks, orchs>>
    BY <1>3 DEF AddPool, Snapshot, Submit, control
  <2>2. at[c] = "idle" /\ at'[c] = "idle"
    BY <1>1, <2>1 DEF Answer, Begin, Goto, CallType
  <2> QED BY <1>1, <2>1, <2>2, OneMoves
<1>4. CASE (\E plan \in Plans : Execute(c, plan)) \/ (\E id \in Ids : AddPipeline(c, id))
  <2>1. PICK plan, rest : Hydrate(c, plan, rest)
    BY <1>4 DEF Execute, AddPipeline
  <2>2. at[c] = "idle" /\ UNCHANGED <<tasks, reply, orchs>>
        /\ (\E place \in {"finish", "register"} : at' = [at EXCEPT ![c] = place])
        /\ \E j : job' = [job EXCEPT ![c] = j]
    BY <2>1 DEF Hydrate, Begin, Goto
  <2>3. at'[c] # "start"
    BY <1>1, <2>2 DEF CallType
  <2> QED BY <1>1, <2>2, <2>3, OneMoves
<1>5. CASE Register(c)
  <2>1. (Goto(c, "connect") /\ UNCHANGED <<job, reply>>) \/ End(c, "raised")
    BY <1>5 DEF Register
  <2>2. at'[c] # "start" /\ UNCHANGED orchs
    BY <1>1, <1>5, <2>1 DEF Register, End, Goto, CallType, control
  <2> QED BY <1>1, <1>5, <2>1, <2>2, OneMoves
<1>6. CASE Connect(c)
  <2>1. CASE End(c, "raised")
    <3>1. at'[c] # "start" /\ UNCHANGED orchs
      BY <1>1, <1>6, <2>1 DEF Connect, End, Goto, CallType, control
    <3> QED BY <1>1, <1>6, <2>1, <3>1, OneMoves
  <2>2. CASE Goto(c, "register") /\ job' = [job EXCEPT ![c].tasks = Append(@, TaskNow(c))]
             /\ UNCHANGED reply
    <3>1. /\ at' = [at EXCEPT ![c] = "register"]
          /\ job' = [job EXCEPT ![c] = [job[c] EXCEPT !.tasks = Append(job[c].tasks, TaskNow(c))]]
      BY <2>2 DEF Goto
    <3>2. at'[c] # "start" /\ UNCHANGED orchs
      BY <1>1, <1>6, <3>1 DEF Connect, CallType, control
    <3> QED BY <1>1, <1>6, <2>2, <3>1, <3>2, OneMoves
  <2> QED BY <1>6, <2>1, <2>2 DEF Connect
<1>7. CASE Store(c)
  <2>1. /\ at[c] = "register" /\ UNCHANGED <<tasks, reply>>
        /\ \E place : at' = [at EXCEPT ![c] = place]
        /\ job' = [job EXCEPT ![c] = [job[c] EXCEPT !.rest = Tail(job[c].rest), !.tasks = <<>>]]
    BY <1>7 DEF Store, Goto
  <2> QED BY <1>1, <1>7, <2>1, OneMoves
<1>8. CASE Finish(c) \/ LoopEnds(c) \/ ResetSession(c)
  <2>1. at[c] # "connect" /\ (\E how : End(c, how)) /\ UNCHANGED <<tasks, orchs>>
    BY <1>8 DEF Finish, LoopEnds, ResetSession, control
  <2>2. at'[c] # "start"
    BY <1>1, <2>1 DEF End, Goto, CallType
  <2> QED BY <1>1, <2>1, <2>2, OneMoves
<1>9. CASE Start(c) \/ StartAll(c) \/ ResetProvider(c)
  <2>1. /\ at[c] # "connect" /\ UNCHANGED <<tasks, orchs>>
        /\ \/ \E how : Answer(c, how)
           \/ (\E place \in {"loop", "orchestrator"} : Goto(c, place)) /\ UNCHANGED <<job, reply>>
    BY <1>9 DEF Start, StartAll, ResetProvider, Begin, Answer, control
  <2>2. at'[c] # "start"
    BY <1>1, <2>1 DEF Answer, Begin, Goto, CallType
  <2> QED BY <1>1, <2>1, <2>2, OneMoves
<1>10. CASE ResetOrchestrator(c)
  <2>1. at[c] # "connect" /\ UNCHANGED tasks /\ Goto(c, "session") /\ UNCHANGED <<job, reply>>
    BY <1>10 DEF ResetOrchestrator
  <2> QED BY <1>1, <1>10, <2>1, OneMoves
<1>11. CASE Loop(c)
  <2> DEFINE s == orchs[ref.orch].pipelines
             j == [job[c] EXCEPT !.orch = ref.orch, !.n = Len(s),
                                 !.rest = [i \in DOMAIN s |-> s[i].id]]
  <2>1. /\ at[c] # "connect" /\ UNCHANGED <<tasks, reply>>
        /\ at' = [at EXCEPT ![c] = "start"] /\ job' = [job EXCEPT ![c] = j]
    BY <1>11 DEF Loop, Goto
  <2> HIDE DEF j
  <2> QED BY <1>1, <1>11, <2>1, OneMoves
<1>12. CASE StartNext(c)
  <2>1. /\ at[c] # "connect" /\ UNCHANGED tasks
        /\ \/ /\ UNCHANGED <<at, reply>>
              /\ job' = [job EXCEPT ![c] = [job[c] EXCEPT !.rest = Tail(job[c].rest)]]
           \/ End(c, "raised")
    BY <1>12 DEF StartNext
  <2> QED BY <1>1, <1>12, <2>1, OneMoves
<1> QED BY <1>2, <1>3, <1>4, <1>5, <1>6, <1>7, <1>8, <1>9, <1>10, <1>11, <1>12

LEMMA RegistryNext ==
  TypeOK /\ JobFits /\ RegistryFollowsName /\ [Next]_vars => RegistryFollowsName'
<1> SUFFICES ASSUME TypeOK, JobFits, RegistryFollowsName, [Next]_vars
             PROVE  RegistryFollowsName'
  OBVIOUS
<1>1. TaskType /\ CallType
  BY TypeParts
<1>2. CASE UNCHANGED vars
  BY <1>2 DEF vars, tasks, RegistryFollowsName, TaskNow
<1>3. CASE Next
  <2>1. PICK c \in Callers :
            /\ OthersStay(c)
            /\ \/ Register(c) \/ Connect(c)
               \/ at[c] # "connect" /\ UNCHANGED tasks
    BY <1>3, StepShape
  <2> SUFFICES ASSUME NEW t \in Backed \ failed',
                      \A d \in Callers : at'[d] = "connect" => TaskNow(d)' # t
               PROVE  context'[t] = name'[t]
    BY DEF RegistryFollowsName
  <2>2. \A d \in Callers : d # c /\ at[d] = "connect" => TaskNow(d) # t
    BY <2>1 DEF OthersStay, TaskNow
  <2>3. t \in Tasks
    BY SessionAssumption
  <2>4. CASE at[c] # "connect" /\ UNCHANGED tasks
    <3>1. \A d \in Callers : at[d] = "connect" => TaskNow(d) # t
      BY <2>2, <2>4
    <3> QED BY <2>4, <3>1 DEF tasks, RegistryFollowsName
  <2>5. CASE Register(c)
    <3>1. /\ at[c] = "register" /\ context' = context
          /\ name' = [name EXCEPT ![TaskNow(c)] = @ + 1]
      BY <2>5 DEF Register, Increment
    <3>2. TaskNow(c) # t
      <4>1. CASE Goto(c, "connect") /\ UNCHANGED job
        <5>1. at'[c] = "connect" /\ TaskNow(c)' = TaskNow(c)
          BY <1>1, <4>1 DEF Goto, CallType, TaskNow
        <5> QED BY <5>1
      <4>2. CASE failed' = failed \cup {TaskNow(c)}
        BY <4>2
      <4> QED BY <2>5, <4>1, <4>2 DEF Register
    <3>3. name'[t] = name[t]
      BY <1>1, <2>3, <3>1, <3>2 DEF TaskType
    <3>4. t \notin failed
      BY <2>5 DEF Register
    <3>5. \A d \in Callers : at[d] = "connect" => TaskNow(d) # t
      BY <2>2, <3>1
    <3> QED BY <3>1, <3>3, <3>4, <3>5 DEF RegistryFollowsName
  <2>6. CASE Connect(c)
    <3>1. at[c] = "connect" /\ UNCHANGED <<control, name>>
      BY <2>6 DEF Connect
    <3>2. CASE TaskNow(c) = t
      <4>1. context' = [context EXCEPT ![t] = name[t]]
        BY <2>6, <3>2 DEF Connect, AddContext
      <4> QED BY <1>1, <2>3, <3>1, <4>1 DEF TaskType
    <3>3. CASE TaskNow(c) # t
      <4>1. t \notin failed
        BY <2>6, <3>3 DEF Connect
      <4>2. context[t] = name[t]
        BY <2>2, <3>3, <4>1 DEF RegistryFollowsName
      <4>3. context'[t] = context[t]
        BY <1>1, <2>3, <2>6, <3>3 DEF Connect, AddContext, TaskType
      <4> QED BY <3>1, <4>2, <4>3
    <3> QED BY <3>2, <3>3
  <2> QED BY <2>1, <2>4, <2>5, <2>6
<1> QED BY <1>2, <1>3

\* Whatever is hydrated again, and in how many sessions, the registry's runner of
\* a task writes to the name that the task has, for all plans and tasks.
THEOREM RegistryFollows == Spec => []RegistryFollowsName
<1>1. Init => RegistryFollowsName
  BY SessionAssumption DEF Init, RegistryFollowsName
<1> QED BY <1>1, TypeInit, TypeNext, RegistryNext, PTL DEF Spec

-----------------------------------------------------------------------------
(***************************************************************************)
(* Whole pipelines, one of each id, and the loop that starts them.         *)
(***************************************************************************)
Pipes(n) == orchs[n].pipelines

LEMMA PipesType ==
  ASSUME TypeOK, NEW n \in 1..Len(orchs)
  PROVE  /\ Pipes(n) \in Seq(Runtime) /\ Len(Pipes(n)) \in Nat
         /\ DOMAIN Pipes(n) = 1..Len(Pipes(n))
         /\ \A i \in 1..Len(Pipes(n)) : Pipes(n)[i] \in Runtime
<1>1. orchs \in Seq(Orchs)
  BY TypeParts DEF ControlType
<1>2. orchs[n] \in Orchs
  BY <1>1, ElementOfSeq
<1>3. Pipes(n) \in Seq(Runtime)
  BY <1>2 DEF Orchs, Pipes
<1> QED BY <1>3, LenProperties, ElementOfSeq

\* What a step makes of a dict of pipelines, s before and s1 after: it starts some,
\* or puts p in its place.
SameTold(p1, p) == p1.id = p.id /\ p1.session = p.session /\ p1.tasks = p.tasks
Kept(s1, s) ==
    /\ Len(s1) = Len(s)
    /\ \A i \in 1..Len(s) : /\ SameTold(s1[i], s[i]) /\ s1[i].again = s[i].again
                            /\ s[i].started => s1[i].started
Took(s1, s, p) ==
    \/ /\ Len(s1) = Len(s) + 1
       /\ \A i \in 1..Len(s) : s[i].id # p.id /\ s1[i] = s[i]
       /\ s1[Len(s) + 1] = p
    \/ /\ Len(s1) = Len(s)
       /\ \A i \in 1..Len(s) : \/ s[i].id # p.id /\ s1[i] = s[i]
                               \/ s[i].id = p.id /\ SameTold(s1[i], p) /\ s1[i].again

LEMMA StoreBecomes ==
  ASSUME TypeOK, JobFits, NEW c \in Callers, Store(c)
  PROVE  /\ orchs' \in Seq(Orchs) /\ Len(orchs') = Len(orchs)
         /\ job[c].orch \in 1..Len(orchs)
         /\ \A n \in 1..Len(orchs) : n # job[c].orch => orchs'[n] = orchs[n]
         /\ orchs'[job[c].orch].pipelines = Stored(Pipes(job[c].orch), NewPipeline(c))
         /\ NewPipeline(c) \in Runtime /\ NewPipeline(c).tasks = TasksOf[NewPipeline(c).id]
<1>1. job[c].orch \in 1..Len(orchs) /\ orchs \in Seq(Orchs)
  BY TypeParts DEF CallType, Jobs, ControlType
<1>2. /\ at[c] = "register" /\ Hydrated(c)
      /\ orchs' = [orchs EXCEPT ![job[c].orch].pipelines = Stored(@, NewPipeline(c))]
  BY DEF Store, NewPipeline
<1>3. NewPipeline(c) \in Runtime /\ NewPipeline(c).tasks = TasksOf[NewPipeline(c).id]
  BY <1>2, NewPipelineType
<1>4. Stored(Pipes(job[c].orch), NewPipeline(c)) \in Seq(Runtime)
  BY <1>1, <1>3, PipesType, StoredAt
<1>5. orchs' = [orchs EXCEPT ![job[c].orch].pipelines = Stored(Pipes(job[c].orch), NewPipeline(c))]
  BY <1>2 DEF Pipes
<1> QED BY <1>1, <1>3, <1>4, <1>5, OrchsType

\* The orchestrators after a step: those before, with their pipelines, and maybe
\* an empty one.
OrchsKept ==
    /\ Len(orchs) <= Len(orchs')
    /\ \A n \in 1..Len(orchs') : n \notin 1..Len(orchs) => orchs'[n].pipelines = <<>>

LEMMA OrchsStep ==
  ASSUME TypeOK, JobFits, TypeOK', Next
  PROVE  /\ OrchsKept /\ Len(orchs) \in Nat /\ Len(orchs') \in Nat
         /\ \A n \in 1..Len(orchs) :
               \/ Kept(orchs'[n].pipelines, Pipes(n))
               \/ \E c \in Callers :
                    /\ Store(c) /\ n = job[c].orch
                    /\ Took(orchs'[n].pipelines, Pipes(n), NewPipeline(c))
<1>1. orchs \in Seq(Orchs) /\ Len(orchs) \in Nat /\ Len(orchs') \in Nat
  <2>1. orchs \in Seq(Orchs)
    BY TypeParts DEF ControlType
  <2>2. orchs' \in Seq(Orchs)
    BY DEF TypeOK, Orchs
  <2> QED BY <2>1, <2>2
<1>2. \A n \in 1..Len(orchs) : orchs'[n].pipelines = Pipes(n)
                               => Kept(orchs'[n].pipelines, Pipes(n))
  BY DEF Kept, SameTold
<1>3. CASE UNCHANGED orchs
  BY <1>1, <1>2, <1>3 DEF OrchsKept, Pipes
<1>4. ASSUME NEW c \in Callers, ResetOrchestrator(c)
      PROVE  OrchsKept /\ \A n \in 1..Len(orchs) : Kept(orchs'[n].pipelines, Pipes(n))
  <2>1. orchs' = Append(orchs, Empty(ref.provider))
    BY <1>4 DEF ResetOrchestrator
  <2>2. Empty(ref.provider) \in Orchs
    <3>1. ref \in Refs /\ pools \in Seq(SUBSET Pools)
      BY TypeParts DEF ControlType
    <3>2. ref.provider \in Nat /\ <<>> \in Seq(Runtime)
      BY <3>1 DEF Refs
    <3> QED BY <3>2 DEF Empty, Orchs
  <2>3. /\ Len(orchs') = Len(orchs) + 1 /\ \A n \in 1..Len(orchs) : orchs'[n] = orchs[n]
        /\ orchs'[Len(orchs) + 1] = Empty(ref.provider)
    BY <1>1, <2>1, <2>2, AppendAt
  <2>4. OrchsKept
    <3>1. \A n \in 1..Len(orchs') : n \notin 1..Len(orchs) => n = Len(orchs) + 1
      BY <1>1, <2>3
    <3> QED BY <1>1, <2>3, <3>1 DEF OrchsKept, Empty
  <2> QED BY <1>2, <2>3, <2>4 DEF Pipes
<1>5. ASSUME NEW c \in Callers, StartNext(c)
      PROVE  OrchsKept /\ \A n \in 1..Len(orchs) : Kept(orchs'[n].pipelines, Pipes(n))
  <2> DEFINE o == job[c].orch
             s == orchs[o].pipelines
  <2>1. PICK i \in DOMAIN s : StartAt(c, i)
    BY <1>5 DEF StartNext, StartAt
  <2> DEFINE s1 == [s EXCEPT ![i].started = TRUE]
  <2>2. /\ Len(orchs') = Len(orchs) /\ o \in 1..Len(orchs)
        /\ \A k \in 1..Len(orchs) : k # o => orchs'[k] = orchs[k]
        /\ orchs'[o].pipelines = s1
        /\ DOMAIN s = 1..Len(s) /\ Len(s1) = Len(s)
        /\ \A k \in DOMAIN s : k # i => s1[k] = s[k]
        /\ s[i] \in Runtime /\ s1[i] = [s[i] EXCEPT !.started = TRUE]
    BY <2>1, StartAtType
  <2>3. /\ SameTold(s1[i], s[i]) /\ s1[i].again = s[i].again /\ s1[i].started
    BY <2>2 DEF Runtime, SameTold
  <2> HIDE DEF s1
  <2>4. Kept(s1, s)
    BY <2>2, <2>3 DEF Kept, SameTold
  <2>5. OrchsKept
    BY <1>1, <2>2 DEF OrchsKept
  <2> QED BY <1>2, <2>2, <2>4, <2>5 DEF Pipes
<1>6. ASSUME NEW c \in Callers, Store(c)
      PROVE  OrchsKept /\ \A n \in 1..Len(orchs) :
                \/ Kept(orchs'[n].pipelines, Pipes(n))
                \/ n = job[c].orch /\ Took(orchs'[n].pipelines, Pipes(n), NewPipeline(c))
  <2> DEFINE o == job[c].orch
             p == NewPipeline(c)
  <2>1. /\ Len(orchs') = Len(orchs) /\ o \in 1..Len(orchs)
        /\ \A n \in 1..Len(orchs) : n # o => orchs'[n] = orchs[n]
        /\ orchs'[o].pipelines = Stored(Pipes(o), p) /\ p \in Runtime
    BY <1>6, StoreBecomes
  <2>2. Pipes(o) \in Seq(Runtime)
    BY <2>1, PipesType
  <2>3. SameTold([p EXCEPT !.again = TRUE], p) /\ [p EXCEPT !.again = TRUE].again
    BY <2>1 DEF Runtime, SameTold
  <2> HIDE DEF p, o
  <2>4. Took(Stored(Pipes(o), p), Pipes(o), p)
    <3> DEFINE s == Pipes(o)
    <3>1. \/ /\ Len(Stored(s, p)) = Len(s) + 1
             /\ \A i \in 1..Len(s) : s[i].id # p.id /\ Stored(s, p)[i] = s[i]
             /\ Stored(s, p)[Len(s) + 1] = p
          \/ /\ Len(Stored(s, p)) = Len(s)
             /\ \A i \in 1..Len(s) :
                  IF s[i].id = p.id THEN Stored(s, p)[i] = [p EXCEPT !.again = TRUE]
                                    ELSE Stored(s, p)[i] = s[i]
      BY <2>1, <2>2, StoredAt
    <3> HIDE DEF s
    <3>2. CASE Len(Stored(s, p)) = Len(s)
               /\ \A i \in 1..Len(s) :
                  IF s[i].id = p.id THEN Stored(s, p)[i] = [p EXCEPT !.again = TRUE]
                                    ELSE Stored(s, p)[i] = s[i]
      <4>1. \A i \in 1..Len(s) :
               \/ s[i].id # p.id /\ Stored(s, p)[i] = s[i]
               \/ s[i].id = p.id /\ SameTold(Stored(s, p)[i], p) /\ Stored(s, p)[i].again
        BY <2>3, <3>2
      <4> QED BY <3>2, <4>1 DEF Took, s
    <3> QED BY <3>1, <3>2 DEF Took, s
  <2>5. OrchsKept
    BY <1>1, <2>1 DEF OrchsKept
  <2> QED BY <1>2, <2>1, <2>4, <2>5 DEF Pipes, p, o
<1>7. \/ UNCHANGED orchs
      \/ \E c \in Callers : Store(c) \/ StartNext(c) \/ ResetOrchestrator(c)
  <2>1. ASSUME NEW c \in Callers, Loop(c) PROVE UNCHANGED orchs
    BY <2>1 DEF Loop, control
  <2> QED BY <2>1, StepShape
<1> QED BY <1>1, <1>3, <1>4, <1>5, <1>6, <1>7


\* Each pipeline has the tasks of its id, and a dict has one of each id.
Whole == \A n \in 1..Len(orchs) : \A i \in 1..Len(Pipes(n)) :
            Pipes(n)[i].tasks = TasksOf[Pipes(n)[i].id]
UniqueIds == \A n \in 1..Len(orchs) : \A i, k \in 1..Len(Pipes(n)) :
                Pipes(n)[i].id = Pipes(n)[k].id => i = k

LEMMA TookIds ==
  ASSUME NEW s1, NEW s, Len(s) \in Nat, NEW p, Took(s1, s, p)
  PROVE  /\ Len(s1) = Len(s) \/ Len(s1) = Len(s) + 1
         /\ \A i \in 1..Len(s) : s1[i].id = s[i].id
         /\ Len(s1) = Len(s) + 1 => /\ s1[Len(s) + 1] = p
                                    /\ \A i \in 1..Len(s) : s[i].id # p.id
BY DEF Took, SameTold

LEMMA WholeNext ==
  ASSUME TypeOK, JobFits, TypeOK', Next, Whole, UniqueIds
  PROVE  Whole' /\ UniqueIds'
<1>1. /\ OrchsKept /\ Len(orchs) \in Nat /\ Len(orchs') \in Nat
      /\ \A n \in 1..Len(orchs) :
               \/ Kept(orchs'[n].pipelines, Pipes(n))
               \/ \E c \in Callers :
                    /\ Store(c) /\ n = job[c].orch
                    /\ Took(orchs'[n].pipelines, Pipes(n), NewPipeline(c))
  BY OrchsStep
<1>2. SUFFICES ASSUME NEW n \in 1..Len(orchs')
      PROVE  /\ \A i \in 1..Len(Pipes(n)') : Pipes(n)'[i].tasks = TasksOf[Pipes(n)'[i].id]
             /\ \A i, k \in 1..Len(Pipes(n)') : Pipes(n)'[i].id = Pipes(n)'[k].id => i = k
  BY DEF Whole, UniqueIds
<1> DEFINE s == Pipes(n)
           s1 == orchs'[n].pipelines
<1>3. Pipes(n)' = s1
  BY DEF Pipes
<1>4. CASE n \notin 1..Len(orchs)
  <2>1. s1 = <<>>
    BY <1>1, <1>4 DEF OrchsKept
  <2>2. 1..Len(s1) = {}
    BY <2>1
  <2> QED BY <1>3, <2>2
<1>5. CASE n \in 1..Len(orchs)
  <2>1. /\ Len(s) \in Nat
        /\ \A i \in 1..Len(s) : s[i].tasks = TasksOf[s[i].id]
        /\ \A i, k \in 1..Len(s) : s[i].id = s[k].id => i = k
    BY <1>5, PipesType DEF Whole, UniqueIds
  <2>2. CASE Kept(s1, s)
    BY <1>3, <2>1, <2>2 DEF Kept, SameTold
  <2>3. ASSUME NEW c \in Callers, Store(c), Took(s1, s, NewPipeline(c))
        PROVE  /\ \A i \in 1..Len(s1) : s1[i].tasks = TasksOf[s1[i].id]
               /\ \A i, k \in 1..Len(s1) : s1[i].id = s1[k].id => i = k
    <3> DEFINE p == NewPipeline(c)
    <3>1. p.tasks = TasksOf[p.id]
      BY <2>3, StoreBecomes
    <3> HIDE DEF s, s1, p
    <3>2. /\ Len(s1) = Len(s) \/ Len(s1) = Len(s) + 1
          /\ \A i \in 1..Len(s) : s1[i].id = s[i].id
          /\ Len(s1) = Len(s) + 1 => /\ s1[Len(s) + 1] = p
                                     /\ \A i \in 1..Len(s) : s[i].id # p.id
      BY <2>1, <2>3, TookIds DEF p
    <3>3. \A i \in 1..Len(s) : s1[i].tasks = TasksOf[s1[i].id]
      BY <2>1, <2>3, <3>1 DEF Took, SameTold, p
    <3>4. \A i \in 1..Len(s1) : i \in 1..Len(s) \/ (Len(s1) = Len(s) + 1 /\ i = Len(s) + 1)
      BY <2>1, <3>2
    <3>5. \A i \in 1..Len(s1) : s1[i].tasks = TasksOf[s1[i].id]
      BY <3>1, <3>2, <3>3, <3>4
    <3>6. \A i, k \in 1..Len(s1) : s1[i].id = s1[k].id => i = k
      <4> SUFFICES ASSUME NEW i \in 1..Len(s1), NEW k \in 1..Len(s1), s1[i].id = s1[k].id
                   PROVE  i = k
        OBVIOUS
      <4>1. CASE i \in 1..Len(s) /\ k \in 1..Len(s)
        <5>1. s1[i].id = s[i].id /\ s1[k].id = s[k].id
          BY <3>2, <4>1
        <5>2. s[i].id = s[k].id
          BY <5>1
        <5> QED BY <2>1, <4>1, <5>2
      <4>2. CASE i \in 1..Len(s) /\ k \notin 1..Len(s)
        BY <3>2, <3>4, <4>2
      <4>3. CASE i \notin 1..Len(s) /\ k \in 1..Len(s)
        BY <3>2, <3>4, <4>3
      <4>4. CASE i \notin 1..Len(s) /\ k \notin 1..Len(s)
        BY <3>4, <4>4
      <4> QED BY <4>1, <4>2, <4>3, <4>4
    <3> QED BY <3>5, <3>6
  <2> HIDE DEF s, s1
  <2>4. Kept(s1, s) \/ \E c \in Callers : Store(c) /\ Took(s1, s, NewPipeline(c))
    BY <1>1, <1>5 DEF s, s1
  <2> QED BY <1>3, <2>2, <2>3, <2>4 DEF s1
<1> QED BY <1>4, <1>5

LEMMA WholeInit == Init => Whole /\ UniqueIds
<1> SUFFICES ASSUME Init PROVE Whole /\ UniqueIds
  OBVIOUS
<1>1. Len(orchs) = 1 /\ Pipes(1) = <<>>
  BY DEF Init, Empty, Pipes
<1>2. \A n \in 1..Len(orchs) : Len(Pipes(n)) = 0
  BY <1>1
<1> QED BY <1>2 DEF Whole, UniqueIds

LEMMA WholePipelines == TypeOK /\ Whole => PipelinesWhole
<1> SUFFICES ASSUME TypeOK, Whole, NEW n \in DOMAIN orchs,
                    NEW p \in ToSet(orchs[n].pipelines)
             PROVE  p.tasks = TasksOf[p.id]
  BY DEF PipelinesWhole
<1>1. n \in 1..Len(orchs)
  BY TypeParts DEF ControlType
<1>2. DOMAIN Pipes(n) = 1..Len(Pipes(n))
  BY <1>1, PipesType
<1>3. PICK i \in 1..Len(Pipes(n)) : p = Pipes(n)[i]
  BY <1>2 DEF ToSet, Pipes
<1> QED BY <1>1, <1>3 DEF Whole

\* Whatever raises, and however calls interleave, a pipeline that commands can
\* reach has all its tasks.
THEOREM AllPipelinesWhole == Spec => []PipelinesWhole
<1>1. TypeOK /\ JobFits /\ Whole /\ UniqueIds /\ [Next]_vars => Whole' /\ UniqueIds'
  <2>1. CASE UNCHANGED vars
    BY <2>1 DEF vars, control, Whole, UniqueIds, Pipes
  <2>2. CASE Next
    BY <2>2, WholeNext, TypeNext
  <2> QED BY <2>1, <2>2
<1> QED BY <1>1, WholeInit, WholePipelines, TypeInit, TypeNext, PTL DEF Spec

\* The loop of start: whoever has not been started, or hydrated anew, is still to
\* come, unless the dict has grown, upon which the loop does not return.
LoopAt(place, j) == place = "start" =>
    /\ j.n <= Len(Pipes(j.orch))
    /\ j.n = Len(Pipes(j.orch)) =>
        \A i \in 1..Len(Pipes(j.orch)) : \/ Pipes(j.orch)[i].started
                                         \/ Pipes(j.orch)[i].again
                                         \/ Pipes(j.orch)[i].id \in ToSet(j.rest)
LoopsReach == \A c \in Callers : LoopAt(at[c], job[c])

\* Whatever happens to the dict, a loop's claim stays true.
LEMMA LoopStays ==
  ASSUME TypeOK, JobFits, TypeOK', Next, NEW j \in Jobs, LoopAt("start", j)
  PROVE  LoopAt("start", j)'
<1> DEFINE s == Pipes(j.orch)
           s1 == orchs'[j.orch].pipelines
<1>1. j.orch \in 1..Len(orchs) /\ j.n \in Nat
  BY DEF Jobs
<1>2. Len(s) \in Nat /\ Pipes(j.orch)' = s1
  BY <1>1, PipesType DEF Pipes
<1>3. Kept(s1, s) \/ \E c \in Callers : Took(s1, s, NewPipeline(c))
  BY <1>1, OrchsStep
<1>4. /\ j.n <= Len(s)
      /\ j.n = Len(s) => \A i \in 1..Len(s) : \/ s[i].started \/ s[i].again
                                              \/ s[i].id \in ToSet(j.rest)
  BY DEF LoopAt
<1> HIDE DEF s, s1
<1>5. /\ j.n <= Len(s1)
      /\ j.n = Len(s1) => \A i \in 1..Len(s1) : \/ s1[i].started \/ s1[i].again
                                                \/ s1[i].id \in ToSet(j.rest)
  <2>1. CASE Kept(s1, s)
    <3>1. Len(s1) = Len(s)
          /\ \A i \in 1..Len(s) : /\ s1[i].id = s[i].id /\ s1[i].again = s[i].again
                                  /\ s[i].started => s1[i].started
      BY <2>1 DEF Kept, SameTold
    <3>2. ASSUME j.n = Len(s1), NEW i \in 1..Len(s1)
          PROVE  s1[i].started \/ s1[i].again \/ s1[i].id \in ToSet(j.rest)
      <4>1. s[i].started \/ s[i].again \/ s[i].id \in ToSet(j.rest)
        BY <1>4, <3>1, <3>2
      <4> QED BY <3>1, <3>2, <4>1
    <3> QED BY <1>4, <3>1, <3>2
  <2>2. ASSUME NEW p, Took(s1, s, p)
        PROVE  /\ j.n <= Len(s1)
               /\ j.n = Len(s1) => \A i \in 1..Len(s1) : \/ s1[i].started \/ s1[i].again
                                                         \/ s1[i].id \in ToSet(j.rest)
    <3>1. CASE Len(s1) = Len(s) + 1
      BY <1>1, <1>2, <1>4, <3>1
    <3>2. CASE Len(s1) = Len(s)
      <4>1. ASSUME j.n = Len(s1), NEW i \in 1..Len(s1)
            PROVE  s1[i].started \/ s1[i].again \/ s1[i].id \in ToSet(j.rest)
        <5>1. s[i].started \/ s[i].again \/ s[i].id \in ToSet(j.rest)
          BY <1>4, <3>2, <4>1
        <5>2. s1[i] = s[i] \/ s1[i].again
          BY <1>2, <2>2, <3>2, <4>1 DEF Took
        <5> QED BY <5>1, <5>2
      <4> QED BY <1>4, <3>2, <4>1
    <3> QED BY <1>2, <2>2, <3>1, <3>2, TookIds
  <2> QED BY <1>3, <2>1, <2>2
<1> QED BY <1>2, <1>5 DEF LoopAt, s1

LEMMA HeadOrTail ==
  ASSUME NEW r \in Seq(Ids), r # <<>>
  PROVE  \A x \in ToSet(r) : x = Head(r) \/ x \in ToSet(Tail(r))
<1>1. Len(r) \in Nat /\ Len(r) # 0 /\ DOMAIN r = 1..Len(r)
  OBVIOUS
<1>2. /\ Len(Tail(r)) = Len(r) - 1 /\ \A k \in 1..Len(Tail(r)) : Tail(r)[k] = r[k + 1]
      /\ DOMAIN Tail(r) = 1..Len(Tail(r)) /\ Head(r) = r[1]
  BY <1>1, HeadTailProperties
<1>3. SUFFICES ASSUME NEW k \in 1..Len(r), r[k] # Head(r) PROVE r[k] \in ToSet(Tail(r))
  BY <1>1 DEF ToSet
<1>4. k - 1 \in 1..Len(Tail(r)) /\ (k - 1) + 1 = k
  BY <1>1, <1>2, <1>3
<1>5. r[k] = Tail(r)[k - 1]
  BY <1>2, <1>4
<1> QED BY <1>2, <1>4, <1>5 DEF ToSet

\* The head of what is to come is started, and only it: one of each id.
LEMMA LoopStartNext ==
  ASSUME TypeOK, JobFits, TypeOK', Next, UniqueIds, NEW c \in Callers,
         LoopAt("start", job[c]), at[c] = "start", at'[c] = "start", StartNext(c),
         NEW j, j = job'[c]
  PROVE  LoopAt("start", j)'
<1> DEFINE o == job[c].orch
           s == orchs[o].pipelines
<1>1. CallType /\ job[c] \in Jobs /\ o \in 1..Len(orchs)
  BY TypeParts DEF CallType, Jobs
<1>2. PICK i \in DOMAIN s :
        /\ StartAt(c, i)
        /\ \/ job' = [job EXCEPT ![c].rest = Tail(@)]
           \/ End(c, "raised")
  BY DEF StartNext, StartAt
<1>3. job' = [job EXCEPT ![c].rest = Tail(@)]
  BY <1>1, <1>2 DEF End, Goto, CallType
<1>4. /\ job[c].rest \in Seq(Ids) /\ job[c].rest # <<>> /\ job[c].n \in Nat
      /\ s[i].id = Head(job[c].rest)
  BY <1>1, <1>2 DEF StartNext, StartAt, Jobs
<1>5. /\ j.orch = o /\ j.n = job[c].n /\ j.rest = Tail(job[c].rest)
  BY <1>1, <1>3 DEF CallType, Jobs
<1> DEFINE s1 == [s EXCEPT ![i].started = TRUE]
<1>6. /\ orchs'[o].pipelines = s1 /\ DOMAIN s = 1..Len(s) /\ Len(s1) = Len(s)
      /\ \A k \in DOMAIN s : k # i => s1[k] = s[k]
      /\ s[i] \in Runtime /\ s1[i] = [s[i] EXCEPT !.started = TRUE]
  BY <1>2, StartAtType
<1>7. /\ job[c].n <= Len(s)
      /\ job[c].n = Len(s) => \A k \in 1..Len(s) : \/ s[k].started \/ s[k].again
                                                   \/ s[k].id \in ToSet(job[c].rest)
  BY DEF LoopAt, Pipes
<1>8. s1[i].started
  BY <1>6 DEF Runtime
<1>9. \A k \in 1..Len(s) : s[k].id = s[i].id => k = i
  BY <1>1, <1>6 DEF UniqueIds, Pipes
<1>10. \A x \in ToSet(job[c].rest) : x = Head(job[c].rest) \/ x \in ToSet(Tail(job[c].rest))
  BY <1>4, HeadOrTail
<1> HIDE DEF s1, s, o
<1>11. ASSUME job[c].n = Len(s1), NEW k \in 1..Len(s1)
       PROVE  s1[k].started \/ s1[k].again \/ s1[k].id \in ToSet(Tail(job[c].rest))
  <2>1. CASE k = i
    BY <1>8, <2>1
  <2>2. CASE k # i
    <3>1. s1[k] = s[k] /\ s[k].id # Head(job[c].rest)
      BY <1>4, <1>6, <1>9, <1>11, <2>2
    <3>2. s[k].started \/ s[k].again \/ s[k].id \in ToSet(job[c].rest)
      BY <1>6, <1>7, <1>11
    <3> QED BY <1>10, <3>1, <3>2
  <2> QED BY <2>1, <2>2
<1>12. Pipes(j.orch)' = s1
  BY <1>5, <1>6 DEF Pipes
<1> QED BY <1>5, <1>6, <1>7, <1>11, <1>12 DEF LoopAt

\* The loop begins with all that is there.
LEMMA LoopBegins ==
  ASSUME TypeOK, NEW c \in Callers, Loop(c), NEW j, j = job'[c]
  PROVE  LoopAt("start", j)'
<1> DEFINE s == orchs[ref.orch].pipelines
           ids == [i \in DOMAIN s |-> s[i].id]
<1>1. CallType /\ job[c] \in Jobs /\ ref.orch \in 1..Len(orchs)
  BY TypeParts DEF CallType, ControlType, Refs
<1>2. DOMAIN s = 1..Len(s) /\ Len(s) \in Nat
  BY <1>1, PipesType DEF Pipes
<1>3. job' = [job EXCEPT ![c].orch = ref.orch, ![c].n = Len(s), ![c].rest = ids]
  BY DEF Loop
<1>4. j.orch = ref.orch /\ j.n = Len(s) /\ j.rest = ids
  BY <1>1, <1>3 DEF CallType, Jobs
<1>5. Pipes(j.orch)' = s
  BY <1>4 DEF Loop, control, Pipes
<1>6. \A i \in 1..Len(s) : s[i].id \in ToSet(ids)
  <2> SUFFICES ASSUME NEW i \in 1..Len(s) PROVE s[i].id \in ToSet(ids)
    OBVIOUS
  <2>1. i \in DOMAIN ids /\ ids[i] = s[i].id
    BY <1>2
  <2> HIDE DEF ids, s
  <2> QED BY <2>1 DEF ToSet
<1> HIDE DEF s, ids
<1> QED BY <1>2, <1>4, <1>5, <1>6 DEF LoopAt

LEMMA LoopsReachNext ==
  ASSUME TypeOK, JobFits, TypeOK', Next, UniqueIds, LoopsReach
  PROVE  LoopsReach'
<1>1. CallType
  BY TypeParts
<1>2. PICK c \in Callers :
        /\ OthersStay(c)
        /\ \/ Store(c) \/ Loop(c) \/ StartNext(c) \/ ResetOrchestrator(c)
           \/ UNCHANGED orchs /\ at'[c] # "start"
  BY StepShape
<1>3. SUFFICES ASSUME NEW d \in Callers, at'[d] = "start",
                      NEW j, j = job'[d]
               PROVE  LoopAt("start", j)'
  BY DEF LoopsReach, LoopAt
<1>4. CASE d # c
  <2>1. at[d] = "start" /\ job[d] = j /\ j \in Jobs
    BY <1>1, <1>2, <1>3, <1>4 DEF OthersStay, CallType
  <2>2. LoopAt("start", j)
    BY <2>1 DEF LoopsReach
  <2> QED BY <2>1, <2>2, LoopStays
<1>5. CASE d = c
  <2>1. CASE Store(c)
    BY <1>1, <1>3, <1>5, <2>1 DEF Store, Goto, CallType
  <2>2. CASE ResetOrchestrator(c)
    BY <1>1, <1>3, <1>5, <2>2 DEF ResetOrchestrator, Goto, CallType
  <2>3. CASE Loop(c)
    BY <1>3, <1>5, <2>3, LoopBegins
  <2>4. CASE StartNext(c)
    <3>1. at[c] = "start" /\ at'[c] = "start" /\ j = job'[c]
      BY <1>3, <1>5, <2>4 DEF StartNext
    <3>2. LoopAt("start", job[c])
      BY <3>1 DEF LoopsReach
    <3> QED BY <2>4, <3>1, <3>2, LoopStartNext
  <2> QED BY <1>2, <1>3, <1>5, <2>1, <2>2, <2>3, <2>4
<1> QED BY <1>4, <1>5

LEMMA LoopsReachInit == Init => LoopsReach
BY DEF Init, LoopsReach, LoopAt

\* A loop that returns found the dict at the size it had, and nothing to come.
LEMMA ReachStep ==
  ASSUME TypeOK, Next, LoopsReach, NEW c \in Callers,
         at[c] = "start", at'[c] = "idle", reply'[c] = "started"
  PROVE  \A p \in ToSet(orchs[job[c].orch].pipelines) : p.started \/ p.again
<1>1. CallType /\ job[c].orch \in 1..Len(orchs) /\ LoopAt("start", job[c])
  BY TypeParts DEF CallType, Jobs, LoopsReach
<1>2. PICK d \in Callers :
        \/ \E pool \in Pools : AddPool(d, pool)
        \/ \E plan \in Plans : Execute(d, plan) \/ \E s \in {"dict", "list"} : Submit(d, s, plan)
        \/ \E id \in Ids : AddPipeline(d, id)
        \/ Register(d) \/ Connect(d) \/ Store(d) \/ Finish(d)
        \/ Start(d) \/ StartAll(d) \/ Loop(d) \/ StartNext(d) \/ LoopEnds(d)
        \/ ResetProvider(d) \/ ResetOrchestrator(d) \/ ResetSession(d)
        \/ Snapshot(d)
  BY DEF Next
<1>3. LoopEnds(c)
  <2>1. d = c
    BY <1>1, <1>2 DEF AddPool, Execute, Submit, AddPipeline, Register, Connect, Store, Finish, Start,
                      StartAll, Loop, StartNext, LoopEnds, ResetProvider, ResetOrchestrator,
                      ResetSession, Snapshot, Hydrate, Answer, Begin, End, Goto, CallType
  <2>2. CASE StartNext(c)
    BY <1>1, <2>2 DEF StartNext, End, Goto, CallType
  <2> QED BY <1>2, <2>1, <2>2 DEF AddPool, Execute, Submit, AddPipeline, Register, Connect, Store,
             Finish, Start, StartAll, Loop, ResetProvider, ResetOrchestrator, ResetSession, Snapshot,
             Hydrate, Answer, Begin
<1>4. ~Resized(c) /\ job[c].rest = <<>>
  BY <1>1, <1>3 DEF LoopEnds, End, CallType
<1>5. job[c].n = Len(Pipes(job[c].orch)) /\ ToSet(job[c].rest) = {}
  BY <1>4 DEF Resized, Pipes, ToSet
<1>6. \A i \in 1..Len(Pipes(job[c].orch)) : \/ Pipes(job[c].orch)[i].started
                                            \/ Pipes(job[c].orch)[i].again
  BY <1>1, <1>5 DEF LoopAt
<1>7. DOMAIN Pipes(job[c].orch) = 1..Len(Pipes(job[c].orch))
  BY <1>1, PipesType
<1> QED BY <1>6, <1>7 DEF ToSet, Pipes

\* The loop of start leaves out no pipeline, for all dicts and however many
\* callers start, hydrate and reset meanwhile.
THEOREM StartReaches == Spec => StartReachesAll
<1> DEFINE IInv == TypeOK /\ JobFits /\ Whole /\ UniqueIds /\ LoopsReach
<1>1. Init => IInv
  BY TypeInit, WholeInit, LoopsReachInit
<1>2. IInv /\ [Next]_vars => IInv'
  <2> SUFFICES ASSUME IInv, [Next]_vars PROVE IInv'
    OBVIOUS
  <2>1. TypeOK' /\ JobFits'
    BY TypeNext
  <2>2. CASE UNCHANGED vars
    BY <2>1, <2>2 DEF vars, control, Whole, UniqueIds, Pipes, LoopsReach, LoopAt
  <2>3. CASE Next
    BY <2>1, <2>3, WholeNext, LoopsReachNext
  <2> QED BY <2>2, <2>3
<1>3. IInv /\ [Next]_vars =>
        [\A c \in Callers : at[c] = "start" /\ at'[c] = "idle" /\ reply'[c] = "started" =>
            \A p \in ToSet(orchs[job[c].orch].pipelines) : p.started \/ p.again]_vars
  BY ReachStep
<1> QED BY <1>1, <1>2, <1>3, PTL DEF Spec, StartReachesAll

-----------------------------------------------------------------------------
(***************************************************************************)
(* Sessions and their plans.                                               *)
(***************************************************************************)
Making == {"register", "connect", "finish"}

\* The steps by what they do to the calls that make pipelines, the references and
\* the sessions.
Hydrates(c) ==
    /\ at'[c] = "register" /\ job'[c].orch = ref.orch /\ job'[c].session = ref.session
    /\ ToSet(job'[c].plan) \subseteq ToSet(job'[c].rest)
GoesOn(c) ==
    /\ at[c] \in {"register", "connect"} /\ at'[c] \in {"register", "connect"}
    /\ job'[c].orch = job[c].orch /\ job'[c].session = job[c].session
    /\ job'[c].plan = job[c].plan /\ job'[c].rest = job[c].rest
SessionsTold(c) ==
    /\ ref'.orch = ref.orch /\ ref'.session = ref.session
    /\ Len(sessions') = Len(sessions)
    /\ \A n \in 1..Len(sessions) :
        /\ sessions'[n].orch = sessions[n].orch
        /\ \/ sessions'[n].plan = sessions[n].plan
           \/ /\ at[c] = "finish" /\ n = ref.session
              /\ sessions'[n].plan = job[c].plan
Tells(c) ==
    /\ OthersStay(c)
    /\ UNCHANGED <<at, crossed>> \/ \E place : Goto(c, place)
    /\ \/ ResetOrchestrator(c) \/ ResetSession(c)
       \/ /\ at[c] # "session" /\ SessionsTold(c)
          /\ at'[c] \notin Making \cup {"session"} \/ Hydrates(c) \/ GoesOn(c) \/ Store(c)

LEMMA SameSessions ==
  \A c : UNCHANGED sessions /\ ref'.orch = ref.orch /\ ref'.session = ref.session
         => SessionsTold(c)
BY DEF SessionsTold

LEMMA TellsHydrate ==
  ASSUME TypeOK, NEW c \in Callers, NEW plan, NEW rest, rest # <<>>,
         ToSet(plan) \subseteq ToSet(rest), Hydrate(c, plan, rest),
         ref'.orch = ref.orch, ref'.session = ref.session
  PROVE  Tells(c)
<1>1. CallType
  BY TypeParts
<1>2. /\ at[c] = "idle" /\ Goto(c, "register") /\ UNCHANGED <<sessions, reply>>
      /\ job' = [job EXCEPT ![c] = [orch |-> ref.orch, session |-> ref.session, plan |-> plan,
                                    rest |-> rest, tasks |-> <<>>, n |-> 0]]
  BY DEF Hydrate, Begin
<1>3. SessionsTold(c)
  BY <1>2, SameSessions
<1>4. Hydrates(c)
  BY <1>1, <1>2 DEF Hydrates, Goto, CallType
<1>5. OthersStay(c)
  BY <1>1, <1>2 DEF OthersStay, Goto, CallType
<1> QED BY <1>2, <1>3, <1>4, <1>5 DEF Tells

LEMMA TellsQuiet ==
  ASSUME NEW c \in Callers, OthersStay(c), UNCHANGED <<sessions, ref>>, at[c] # "session",
         UNCHANGED <<at, crossed>> \/ \E place : Goto(c, place),
         at'[c] \notin Making \cup {"session"} \/ GoesOn(c)
  PROVE  Tells(c)
<1>1. SessionsTold(c)
  BY SameSessions
<1> QED BY <1>1 DEF Tells

LEMMA TellsEnds ==
  ASSUME TypeOK, NEW c \in Callers, NEW how, End(c, how), at[c] # "session", SessionsTold(c)
  PROVE  Tells(c)
<1>1. CallType
  BY TypeParts
<1>2. Goto(c, "idle") /\ at'[c] = "idle" /\ OthersStay(c)
  BY <1>1, OneMoves DEF End, Goto, CallType
<1>3. at'[c] \notin Making \cup {"session"}
  BY <1>2 DEF Making
<1> QED BY <1>2, <1>3 DEF Tells

LEMMA TellsFinish ==
  ASSUME TypeOK, NEW c \in Callers, Finish(c)
  PROVE  Tells(c)
<1>1. /\ sessions \in Seq(Sessions) /\ ref.session \in 1..Len(sessions)
  BY TypeParts DEF ControlType, Refs
<1>2. DOMAIN sessions = 1..Len(sessions) /\ \A n \in 1..Len(sessions) : sessions[n] \in Sessions
  BY <1>1
<1>3. at[c] = "finish" /\ UNCHANGED ref /\ \E how : End(c, how)
  BY DEF Finish
<1>4. SessionsTold(c)
  <2>1. CASE UNCHANGED sessions
    BY <1>3, <2>1, SameSessions
  <2>2. CASE sessions' = [sessions EXCEPT ![ref.session].state = "RUNNING",
                                          ![ref.session].plan = job[c].plan]
    <3> DEFINE q == [sessions[ref.session] EXCEPT !.state = "RUNNING", !.plan = job[c].plan]
    <3>1. sessions' = [sessions EXCEPT ![ref.session] = q]
      BY <1>1, <1>2, <2>2
    <3>2. q.orch = sessions[ref.session].orch /\ q.plan = job[c].plan
      BY <1>1, <1>2 DEF Sessions
    <3>3. q \in Sessions
      <4>1. job[c].plan \in Seq(Ids)
        BY TypeParts DEF CallType, Jobs
      <4> QED BY <1>1, <1>2, <4>1 DEF Sessions
    <3> HIDE DEF q
    <3>4. Len(sessions') = Len(sessions)
      BY <1>1, <3>1, <3>3, ExceptSeq
    <3>5. sessions'[ref.session] = q
          /\ \A n \in 1..Len(sessions) : n # ref.session => sessions'[n] = sessions[n]
      BY <1>1, <1>2, <3>1
    <3> QED BY <1>3, <3>2, <3>4, <3>5 DEF SessionsTold
  <2> QED BY <2>1, <2>2 DEF Finish
<1> QED BY <1>3, <1>4, TellsEnds

LEMMA TellsMaking ==
  ASSUME TypeOK, JobFits, NEW c \in Callers, Register(c) \/ Connect(c) \/ Store(c)
  PROVE  Tells(c)
<1>1. CallType
  BY TypeParts
<1>2. at[c] # "session" /\ UNCHANGED <<ref, sessions>>
  BY DEF Register, Connect, Store, control
<1>3. SessionsTold(c)
  BY <1>2, SameSessions
<1>4. CASE \E how : End(c, how)
  BY <1>2, <1>3, <1>4, TellsEnds
<1>5. CASE Register(c) /\ Goto(c, "connect") /\ UNCHANGED <<job, reply>>
  <2>1. OthersStay(c) /\ at'[c] = "connect" /\ at[c] = "register"
    BY <1>1, <1>5, OneMoves DEF Register, Goto, CallType
  <2>2. GoesOn(c)
    BY <1>5, <2>1 DEF GoesOn
  <2> QED BY <1>2, <1>5, <2>1, <2>2, TellsQuiet
<1>6. CASE /\ at[c] = "connect" /\ Goto(c, "register") /\ UNCHANGED reply
           /\ job' = [job EXCEPT ![c].tasks = Append(@, TaskNow(c))]
  <2>1. OthersStay(c) /\ at'[c] = "register"
    BY <1>1, <1>6 DEF OthersStay, Goto, CallType
  <2>2. GoesOn(c)
    BY <1>1, <1>6, <2>1 DEF GoesOn, CallType, Jobs
  <2> QED BY <1>2, <1>6, <2>1, <2>2, TellsQuiet
<1>7. CASE Store(c)
  <2>1. (\E place : Goto(c, place)) /\ UNCHANGED reply
        /\ job' = [job EXCEPT ![c].rest = Tail(@), ![c].tasks = <<>>]
    BY <1>7 DEF Store
  <2>2. OthersStay(c)
    BY <1>1, <2>1 DEF OthersStay, Goto, CallType
  <2> QED BY <1>2, <1>3, <1>7, <2>1, <2>2 DEF Tells
<1> QED BY <1>4, <1>5, <1>6, <1>7 DEF Register, Connect

LEMMA TellsStart ==
  ASSUME TypeOK, NEW c \in Callers, Start(c)
  PROVE  Tells(c)
<1>1. /\ CallType /\ sessions \in Seq(Sessions) /\ ref.session \in 1..Len(sessions)
  BY TypeParts DEF ControlType, Refs
<1>2. CASE Answer(c, "raised") /\ UNCHANGED control
  <2>1. OthersStay(c) /\ at[c] = "idle" /\ at'[c] = "idle" /\ \E place : Goto(c, place)
    BY <1>1, <1>2, OneMoves DEF Answer, Begin, Goto, CallType
  <2>2. at'[c] \notin Making \cup {"session"} /\ UNCHANGED <<sessions, ref>>
    BY <1>2, <2>1 DEF Making, control
  <2> QED BY <2>1, <2>2, TellsQuiet
<1>3. CASE /\ sessions' = [sessions EXCEPT ![ref.session].state = "RUNNING"]
           /\ Begin(c, "loop") /\ UNCHANGED <<ref, job, reply>>
  <2>1. /\ Goto(c, "loop") /\ at[c] = "idle" /\ at'[c] = "loop" /\ OthersStay(c)
    BY <1>1, <1>3, OneMoves DEF Begin, Goto, CallType
  <2> DEFINE q == [sessions[ref.session] EXCEPT !.state = "RUNNING"]
  <2>2. /\ sessions[ref.session] \in Sessions /\ sessions' = [sessions EXCEPT ![ref.session] = q]
        /\ DOMAIN sessions = 1..Len(sessions)
    BY <1>1, <1>3
  <2>3. q \in Sessions /\ q.orch = sessions[ref.session].orch /\ q.plan = sessions[ref.session].plan
    BY <2>2 DEF Sessions
  <2> HIDE DEF q
  <2>4. Len(sessions') = Len(sessions)
    BY <1>1, <2>2, <2>3, ExceptSeq
  <2>5. SessionsTold(c)
    BY <1>1, <1>3, <2>2, <2>3, <2>4 DEF SessionsTold
  <2>6. at'[c] \notin Making \cup {"session"}
    BY <2>1 DEF Making
  <2> QED BY <2>1, <2>5, <2>6 DEF Tells
<1> QED BY <1>2, <1>3 DEF Start

LEMMA TellsReset ==
  ASSUME TypeOK, NEW c \in Callers, ResetProvider(c) \/ ResetOrchestrator(c) \/ ResetSession(c)
  PROVE  Tells(c)
<1>1. CallType /\ ref \in Refs
  BY TypeParts DEF ControlType
<1>2. CASE ResetProvider(c)
  <2>1. /\ at[c] = "idle" /\ Goto(c, "orchestrator") /\ UNCHANGED <<job, reply, sessions>>
        /\ ref' = [ref EXCEPT !.provider = Len(pools')]
    BY <1>2 DEF ResetProvider, Begin
  <2>2. OthersStay(c) /\ at'[c] = "orchestrator"
    BY <1>1, <2>1, OneMoves DEF Goto, CallType
  <2>3. SessionsTold(c)
    BY <1>1, <2>1, SameSessions DEF Refs
  <2>4. at'[c] \notin Making \cup {"session"}
    BY <2>2 DEF Making
  <2> QED BY <2>1, <2>2, <2>3, <2>4 DEF Tells
<1>3. CASE ResetOrchestrator(c)
  <2>1. Goto(c, "session") /\ UNCHANGED <<job, reply>>
    BY <1>3 DEF ResetOrchestrator
  <2> QED BY <1>1, <1>3, <2>1, OneMoves DEF Tells
<1>4. CASE ResetSession(c)
  <2>1. End(c, "done")
    BY <1>4 DEF ResetSession
  <2> QED BY <1>1, <1>4, <2>1, OneMoves DEF Tells, End
<1> QED BY <1>2, <1>3, <1>4

LEMMA StepTells == TypeOK /\ JobFits /\ Next => \E c \in Callers : Tells(c)
<1> SUFFICES ASSUME TypeOK, JobFits, Next PROVE \E c \in Callers : Tells(c)
  OBVIOUS
<1>1. CallType
  BY TypeParts
<1>2. PICK c \in Callers :
        \/ \E pool \in Pools : AddPool(c, pool)
        \/ \E plan \in Plans : Execute(c, plan) \/ \E s \in {"dict", "list"} : Submit(c, s, plan)
        \/ \E id \in Ids : AddPipeline(c, id)
        \/ Register(c) \/ Connect(c) \/ Store(c) \/ Finish(c)
        \/ Start(c) \/ StartAll(c) \/ Loop(c) \/ StartNext(c) \/ LoopEnds(c)
        \/ ResetProvider(c) \/ ResetOrchestrator(c) \/ ResetSession(c)
        \/ Snapshot(c)
  BY DEF Next
<1>3. CASE (\E pool \in Pools : AddPool(c, pool)) \/ Snapshot(c)
           \/ (\E plan \in Plans : \E s \in {"dict", "list"} : Submit(c, s, plan))
  <2>1. (\E how : Answer(c, how)) /\ UNCHANGED <<sessions, ref>>
    BY <1>3 DEF AddPool, Snapshot, Submit, control
  <2>2. OthersStay(c) /\ at[c] = "idle" /\ at'[c] = "idle" /\ \E place : Goto(c, place)
    BY <1>1, <2>1, OneMoves DEF Answer, Begin, Goto, CallType
  <2>3. at'[c] \notin Making \cup {"session"}
    BY <2>2 DEF Making
  <2> QED BY <2>1, <2>2, <2>3, TellsQuiet
<1>4. ASSUME NEW plan \in Plans, Execute(c, plan) PROVE Tells(c)
  <2>1. plan # <<>> /\ Hydrate(c, plan, plan) /\ ref' = [ref EXCEPT !.plan = plan]
    BY <1>4, SessionAssumption DEF Execute
  <2>2. ref'.orch = ref.orch /\ ref'.session = ref.session
    BY <2>1, TypeParts DEF ControlType, Refs
  <2> QED BY <2>1, <2>2, TellsHydrate
<1>5. ASSUME NEW id \in Ids, AddPipeline(c, id) PROVE Tells(c)
  <2>1. <<id>> # <<>> /\ Hydrate(c, <<>>, <<id>>) /\ UNCHANGED ref
    BY <1>5 DEF AddPipeline
  <2>2. ToSet(<<>>) \subseteq ToSet(<<id>>)
    BY DEF ToSet
  <2> QED BY <2>1, <2>2, TellsHydrate
<1>6. CASE StartAll(c) \/ Loop(c)
  <2>1. /\ \E place \in {"loop", "start"} : Goto(c, place)
        /\ at[c] # "session" /\ UNCHANGED <<sessions, ref, reply>>
        /\ UNCHANGED job \/ \E j : job' = [job EXCEPT ![c] = j]
    <3>1. CASE StartAll(c)
      BY <3>1 DEF StartAll, Begin, control
    <3>2. CASE Loop(c)
      <4> DEFINE s == orchs[ref.orch].pipelines
                 j == [job[c] EXCEPT !.orch = ref.orch, !.n = Len(s),
                                     !.rest = [i \in DOMAIN s |-> s[i].id]]
      <4>1. /\ Goto(c, "start") /\ at[c] = "loop" /\ UNCHANGED <<control, reply>>
            /\ job' = [job EXCEPT ![c] = j]
        BY <3>2 DEF Loop
      <4> HIDE DEF j
      <4> QED BY <4>1 DEF control
    <3> QED BY <1>6, <3>1, <3>2
  <2>2. at'[c] \notin Making \cup {"session"}
    BY <1>1, <2>1 DEF Making, Goto, CallType
  <2>3. OthersStay(c)
    BY <1>1, <2>1 DEF OthersStay, Goto, CallType
  <2> QED BY <2>1, <2>2, <2>3, TellsQuiet
<1>7. CASE StartNext(c)
  <2>1. at[c] = "start" /\ UNCHANGED <<sessions, ref>>
        /\ \/ UNCHANGED <<at, crossed, reply>> /\ job' = [job EXCEPT ![c].rest = Tail(@)]
           \/ End(c, "raised")
    BY <1>7 DEF StartNext
  <2>2. CASE End(c, "raised")
    BY <2>1, <2>2, SameSessions, TellsEnds
  <2>3. CASE UNCHANGED <<at, crossed, reply>> /\ job' = [job EXCEPT ![c].rest = Tail(@)]
    <3>1. OthersStay(c) /\ at'[c] \notin Making \cup {"session"}
      BY <1>1, <2>1, <2>3 DEF OthersStay, CallType, Making
    <3> QED BY <2>1, <2>3, <3>1, TellsQuiet
  <2> QED BY <2>1, <2>2, <2>3
<1>8. CASE LoopEnds(c)
  <2>1. at[c] = "start" /\ UNCHANGED <<sessions, ref>> /\ \E how : End(c, how)
    BY <1>8 DEF LoopEnds, control
  <2> QED BY <2>1, SameSessions, TellsEnds
<1> QED BY <1>2, <1>3, <1>4, <1>5, <1>6, <1>7, <1>8, TellsMaking, TellsFinish, TellsStart,
           TellsReset

\* What is to come of a plan and what is there are all of the plan.
Has(n, x) == \E i \in 1..Len(Pipes(n)) : Pipes(n)[i].id = x
PlanFits(place, j) == place \in Making =>
    /\ place = "finish" => j.rest = <<>>
    /\ \A x \in ToSet(j.plan) : x \in ToSet(j.rest) \/ Has(j.orch, x)
PlansFit == \A c \in Callers : PlanFits(at[c], job[c])

LEMMA HasGrows ==
  ASSUME TypeOK, JobFits, TypeOK', Next, NEW n \in 1..Len(orchs), NEW x, Has(n, x)
  PROVE  Has(n, x)'
<1> DEFINE s == Pipes(n)
           s1 == orchs'[n].pipelines
<1>1. Pipes(n)' = s1 /\ Len(s) \in Nat
  BY PipesType DEF Pipes
<1>2. PICK i \in 1..Len(s) : s[i].id = x
  BY DEF Has
<1>3. Kept(s1, s) \/ \E c \in Callers : Took(s1, s, NewPipeline(c))
  BY OrchsStep
<1> HIDE DEF s, s1
<1>4. CASE Kept(s1, s)
  BY <1>1, <1>2, <1>4 DEF Kept, SameTold, Has
<1>5. ASSUME NEW p, Took(s1, s, p) PROVE Has(n, x)'
  <2>1. s1[i].id = x /\ i \in 1..Len(s1)
    BY <1>1, <1>2, <1>5, TookIds
  <2> QED BY <1>1, <2>1 DEF Has
<1> QED BY <1>3, <1>4, <1>5

LEMMA StoredHas ==
  ASSUME TypeOK, JobFits, NEW c \in Callers, Store(c),
         NEW o, o = job[c].orch, NEW x, x = Head(job[c].rest)
  PROVE  Has(o, x)'
<1> DEFINE p == NewPipeline(c)
           s == Pipes(o)
<1>1. /\ o \in 1..Len(orchs) /\ orchs'[o].pipelines = Stored(s, p) /\ p \in Runtime
  BY StoreBecomes
<1>2. s \in Seq(Runtime) /\ p.id = x
  BY <1>1, PipesType DEF NewPipeline
<1>3. \E i \in 1..Len(Stored(s, p)) : Stored(s, p)[i].id = p.id
  <2> HIDE DEF s, p
  <2>1. /\ Len(s) \in Nat
        /\ \/ Len(Stored(s, p)) = Len(s) + 1 /\ Stored(s, p)[Len(s) + 1] = p
           \/ /\ Len(Stored(s, p)) = Len(s)
              /\ \E i \in 1..Len(s) : s[i].id = p.id
              /\ \A i \in 1..Len(s) :
                    IF s[i].id = p.id THEN Stored(s, p)[i] = [p EXCEPT !.again = TRUE]
                                      ELSE Stored(s, p)[i] = s[i]
    BY <1>1, <1>2, StoredAt
  <2>2. CASE Len(Stored(s, p)) = Len(s) + 1 /\ Stored(s, p)[Len(s) + 1] = p
    <3>1. Len(s) + 1 \in 1..Len(Stored(s, p))
      BY <2>1, <2>2
    <3> QED BY <2>2, <3>1
  <2>3. ASSUME Len(Stored(s, p)) = Len(s), NEW i \in 1..Len(s),
               Stored(s, p)[i] = [p EXCEPT !.again = TRUE]
        PROVE  \E k \in 1..Len(Stored(s, p)) : Stored(s, p)[k].id = p.id
    <3>1. Stored(s, p)[i].id = p.id
      BY <1>1, <2>3 DEF Runtime
    <3> QED BY <2>3, <3>1
  <2> QED BY <2>1, <2>2, <2>3
<1>4. \E i \in 1..Len(orchs'[o].pipelines) : orchs'[o].pipelines[i].id = x
  BY <1>1, <1>2, <1>3
<1> HIDE DEF s, p
<1> QED BY <1>4 DEF Has, Pipes

LEMMA PlansFitNext ==
  ASSUME TypeOK, JobFits, TypeOK', Next, PlansFit
  PROVE  PlansFit'
<1>1. CallType
  BY TypeParts
<1>2. PICK c \in Callers : Tells(c)
  BY StepTells
<1>3. SUFFICES ASSUME NEW d \in Callers, NEW j, j = job'[d], at'[d] \in Making
               PROVE  /\ at'[d] = "finish" => j.rest = <<>>
                      /\ \A x \in ToSet(j.plan) : x \in ToSet(j.rest) \/ Has(j.orch, x)'
  BY DEF PlansFit, PlanFits
<1>4. ASSUME at[d] \in Making, j.orch = job[d].orch, j.plan = job[d].plan, NEW x \in ToSet(j.plan)
      PROVE  x \in ToSet(job[d].rest) \/ Has(j.orch, x)'
  <2>1. x \in ToSet(job[d].rest) \/ Has(job[d].orch, x)
    BY <1>4 DEF PlansFit, PlanFits
  <2>2. j.orch \in 1..Len(orchs)
    BY <1>1, <1>4 DEF CallType, Jobs
  <2> QED BY <1>4, <2>1, <2>2, HasGrows
<1>5. CASE d # c
  <2>1. at'[d] = at[d] /\ j = job[d]
    BY <1>2, <1>3, <1>5 DEF Tells, OthersStay
  <2> QED BY <1>3, <1>4, <2>1 DEF PlansFit, PlanFits
<1>6. CASE d = c
  <2>1. CASE Hydrates(c)
    BY <1>3, <1>6, <2>1 DEF Hydrates
  <2>2. CASE GoesOn(c)
    <3>1. /\ at[d] \in Making /\ j.orch = job[d].orch /\ j.plan = job[d].plan
          /\ j.rest = job[d].rest /\ at'[d] # "finish"
      BY <1>3, <1>6, <2>2 DEF GoesOn, Making
    <3> QED BY <1>4, <3>1
  <2>3. CASE Store(c)
    <3>1. /\ job[d] \in Jobs /\ at[d] = "register" /\ job[d].rest # <<>>
          /\ job[d].rest \in Seq(Ids)
      BY <1>1, <1>6, <2>3 DEF CallType, JobFits, Fits, Store, Jobs
    <3>2. /\ job' = [job EXCEPT ![c].rest = Tail(@), ![c].tasks = <<>>]
          /\ at' = [at EXCEPT ![c] = IF Len(job[c].rest) = 1 THEN "finish" ELSE "register"]
      BY <2>3 DEF Store, Goto
    <3>3. j.orch = job[d].orch /\ j.plan = job[d].plan /\ j.rest = Tail(job[d].rest)
      BY <1>1, <1>3, <1>6, <3>1, <3>2 DEF CallType, Jobs
    <3>4. at'[d] = "finish" => j.rest = <<>>
      <4> SUFFICES ASSUME at'[d] = "finish" PROVE j.rest = <<>>
        OBVIOUS
      <4>1. Len(job[d].rest) = 1
        BY <1>1, <1>6, <3>2 DEF CallType
      <4>2. Tail(job[d].rest) \in Seq(Ids) /\ Len(Tail(job[d].rest)) = 0
        BY <3>1, <4>1, HeadTailProperties
      <4> QED BY <3>3, <4>2, EmptySeq
    <3>5. \A x : x = Head(job[d].rest) => Has(j.orch, x)'
      BY <1>6, <2>3, <3>3, StoredHas
    <3>6. at[d] \in Making
      BY <3>1 DEF Making
    <3> QED BY <1>4, <3>1, <3>3, <3>4, <3>5, <3>6, HeadOrTail
  <2>4. CASE ResetOrchestrator(c) \/ ResetSession(c)
    BY <1>1, <1>3, <1>6, <2>4
       DEF ResetOrchestrator, ResetSession, End, Goto, CallType, Making
  <2> QED BY <1>2, <1>3, <1>6, <2>1, <2>2, <2>3, <2>4 DEF Tells
<1> QED BY <1>5, <1>6

\* Until a reset meets another call: whoever resets is alone, the session is over
\* the orchestrator unless one is being replaced, who makes a pipeline does so for
\* both of them, and pipelines and plans are where their sessions are.
Alone == \A d, e \in Callers : d # e /\ at[d] \in Resetting => at[e] = "idle"
SessionOverOrch == (\A d \in Callers : at[d] # "session") => sessions[ref.session].orch = ref.orch
MakersCurrent == \A d \in Callers : at[d] \in Making =>
                    job[d].orch = ref.orch /\ job[d].session = ref.session
PipelinesTold == \A n \in 1..Len(orchs) : \A i \in 1..Len(Pipes(n)) :
                    /\ Pipes(n)[i].session \in 1..Len(sessions)
                    /\ sessions[Pipes(n)[i].session].orch = n
PlansThere == \A n \in 1..Len(sessions) :
                /\ sessions[n].orch \in 1..Len(orchs)
                /\ \A x \in ToSet(sessions[n].plan) : Has(sessions[n].orch, x)
Told == Alone /\ SessionOverOrch /\ MakersCurrent /\ PipelinesTold /\ PlansThere

LEMMA AloneNext ==
  ASSUME NEW c \in Callers, Tells(c), TypeOK, ~crossed'
  PROVE  ~crossed /\ (Alone => Alone')
<1>1. CASE UNCHANGED <<at, crossed>>
  BY <1>1 DEF Alone
<1>2. CASE \E place : Goto(c, place)
  BY <1>2 DEF Goto, Alone
<1>3. CASE ResetOrchestrator(c) \/ ResetSession(c)
  BY <1>3 DEF ResetOrchestrator, ResetSession, End, Goto, Alone
<1> QED BY <1>1, <1>2, <1>3 DEF Tells

\* What is appended, and what stays.
LEMMA SessionsStep ==
  ASSUME TypeOK, TypeOK', NEW c \in Callers, Tells(c)
  PROVE  /\ Len(sessions) \in Nat /\ ref.session \in 1..Len(sessions) /\ ref.orch \in 1..Len(orchs)
         /\ \A n \in 1..Len(sessions) : n \in 1..Len(sessions')
                                        /\ sessions'[n].orch = sessions[n].orch
         /\ ResetSession(c) =>
              /\ Len(sessions') = Len(sessions) + 1 /\ ref'.session = Len(sessions')
              /\ ref'.orch = ref.orch /\ sessions'[Len(sessions')] = Pending(ref.orch)
              /\ \A n \in 1..Len(sessions) : sessions'[n] = sessions[n]
         /\ ResetOrchestrator(c) => UNCHANGED sessions
<1>1. /\ sessions \in Seq(Sessions) /\ ref \in Refs /\ Len(sessions) \in Nat
      /\ ref.session \in 1..Len(sessions) /\ ref.orch \in 1..Len(orchs)
  BY TypeParts DEF ControlType, Refs
<1>2. CASE ResetSession(c)
  <2>1. /\ sessions' = Append(sessions, Pending(ref.orch))
        /\ ref' = [ref EXCEPT !.session = Len(sessions')]
    BY <1>2 DEF ResetSession
  <2>2. Pending(ref.orch) \in Sessions
    <3>1. orchs \in Seq(Orchs)
      BY TypeParts DEF ControlType
    <3>2. ref.orch \in Nat /\ <<>> \in Seq(Ids)
      BY <1>1, <3>1
    <3> QED BY <3>2 DEF Pending, Sessions
  <2>3. /\ Len(sessions') = Len(sessions) + 1
        /\ \A n \in 1..Len(sessions) : sessions'[n] = sessions[n]
        /\ sessions'[Len(sessions) + 1] = Pending(ref.orch)
    BY <1>1, <2>1, <2>2, AppendAt
  <2>4. ref'.session = Len(sessions') /\ ref'.orch = ref.orch
    BY <1>1, <2>1 DEF Refs
  <2>5. ~ResetOrchestrator(c)
    BY <1>2 DEF ResetSession, ResetOrchestrator
  <2> QED BY <1>1, <2>3, <2>4, <2>5
<1>3. CASE ResetOrchestrator(c)
  <2>1. UNCHANGED sessions /\ ~ResetSession(c)
    BY <1>3 DEF ResetSession, ResetOrchestrator
  <2> QED BY <1>1, <1>3, <2>1
<1>4. CASE SessionsTold(c) /\ at[c] # "session" /\ ~ResetOrchestrator(c)
  <2>1. ~ResetSession(c)
    BY <1>4 DEF ResetSession
  <2> QED BY <1>1, <1>4, <2>1 DEF SessionsTold
<1> QED BY <1>2, <1>3, <1>4 DEF Tells

LEMMA OrchRefNext ==
  ASSUME TypeOK, JobFits, TypeOK', NEW c \in Callers, Tells(c), Told, Alone'
  PROVE  SessionOverOrch' /\ MakersCurrent'
<1>1. CallType
  BY TypeParts
<1>2. CASE ResetOrchestrator(c) \/ ResetSession(c)
  <2>1. at[c] \in Resetting /\ at'[c] \notin Making /\ OthersStay(c)
    BY <1>1, <1>2 DEF ResetOrchestrator, ResetSession, End, Goto, CallType, Resetting, Making, Tells
  <2>2. \A d \in Callers : at'[d] \notin Making
    BY <2>1 DEF Told, Alone, OthersStay, Making
  <2>3. CASE ResetOrchestrator(c)
    <3>1. at'[c] = "session"
      BY <1>1, <2>3 DEF ResetOrchestrator, Goto, CallType
    <3> QED BY <2>2, <3>1 DEF SessionOverOrch, MakersCurrent
  <2>4. CASE ResetSession(c)
    <3>1. sessions'[ref'.session].orch = ref'.orch
      BY <2>4, SessionsStep DEF Pending
    <3> QED BY <2>2, <3>1 DEF SessionOverOrch, MakersCurrent
  <2> QED BY <1>2, <2>3, <2>4
<1>3. CASE /\ at[c] # "session" /\ SessionsTold(c)
           /\ at'[c] \notin Making \cup {"session"} \/ Hydrates(c) \/ GoesOn(c) \/ Store(c)
  <2>1. /\ ref'.orch = ref.orch /\ ref'.session = ref.session
        /\ sessions'[ref.session].orch = sessions[ref.session].orch
    BY <1>3, SessionsStep DEF SessionsTold
  <2>2. \A d \in Callers : d # c => at'[d] = at[d] /\ job'[d] = job[d]
    BY DEF Tells, OthersStay
  <2>3. SessionOverOrch'
    <3> SUFFICES ASSUME \A d \in Callers : at'[d] # "session"
                 PROVE  sessions'[ref'.session].orch = ref'.orch
      BY DEF SessionOverOrch
    <3>1. \A d \in Callers : at[d] # "session"
      BY <1>3, <2>2
    <3> QED BY <2>1, <3>1 DEF Told, SessionOverOrch
  <2>4. ASSUME NEW d \in Callers, at'[d] \in Making
        PROVE  job'[d].orch = ref'.orch /\ job'[d].session = ref'.session
    <3>1. CASE d # c
      BY <2>1, <2>2, <2>4, <3>1 DEF Told, MakersCurrent
    <3>2. CASE Hydrates(c) /\ d = c
      BY <2>1, <3>2 DEF Hydrates
    <3>3. CASE GoesOn(c) /\ d = c
      BY <2>1, <3>3 DEF GoesOn, Making, Told, MakersCurrent
    <3>4. CASE Store(c) /\ d = c
      <4>1. /\ at[c] \in Making /\ job' = [job EXCEPT ![c].rest = Tail(@), ![c].tasks = <<>>]
        BY <3>4 DEF Store, Making
      <4>2. job'[c].orch = job[c].orch /\ job'[c].session = job[c].session
        BY <1>1, <4>1 DEF CallType, Jobs
      <4> QED BY <2>1, <3>4, <4>1, <4>2 DEF Told, MakersCurrent
    <3> QED BY <1>3, <2>4, <3>1, <3>2, <3>3, <3>4
  <2> QED BY <2>3, <2>4 DEF MakersCurrent
<1> QED BY <1>2, <1>3 DEF Tells

\* Whoever works on a pipeline finds the session over its orchestrator.
LEMMA MakerTold ==
  ASSUME Told, NEW d \in Callers, at[d] \in Making
  PROVE  /\ job[d].orch = ref.orch /\ job[d].session = ref.session
         /\ sessions[ref.session].orch = ref.orch
<1>1. \A e \in Callers : at[e] # "session"
  BY DEF Told, Alone, Making, Resetting
<1> QED BY <1>1 DEF Told, MakersCurrent, SessionOverOrch

LEMMA PipelinesToldNext ==
  ASSUME TypeOK, JobFits, TypeOK', Next, NEW c \in Callers, Tells(c), Told
  PROVE  PipelinesTold'
<1>1. /\ OrchsKept /\ Len(orchs) \in Nat
      /\ \A n \in 1..Len(orchs) :
               \/ Kept(orchs'[n].pipelines, Pipes(n))
               \/ \E d \in Callers :
                    /\ Store(d) /\ n = job[d].orch
                    /\ Took(orchs'[n].pipelines, Pipes(n), NewPipeline(d))
  BY OrchsStep
<1>2. \A k \in 1..Len(sessions) : k \in 1..Len(sessions') /\ sessions'[k].orch = sessions[k].orch
  BY SessionsStep
<1>3. SUFFICES ASSUME NEW n \in 1..Len(orchs'), NEW i \in 1..Len(orchs'[n].pipelines)
               PROVE  /\ orchs'[n].pipelines[i].session \in 1..Len(sessions')
                      /\ sessions'[orchs'[n].pipelines[i].session].orch = n
  BY DEF PipelinesTold, Pipes
<1> DEFINE s == Pipes(n)
           s1 == orchs'[n].pipelines
<1>4. n \in 1..Len(orchs)
  <2> SUFFICES ASSUME n \notin 1..Len(orchs) PROVE FALSE
    OBVIOUS
  <2>1. s1 = <<>>
    BY <1>1 DEF OrchsKept
  <2> QED BY <1>3, <2>1
<1>5. Len(s) \in Nat
  BY <1>4, PipesType
<1>6. \A k \in 1..Len(s) : s[k].session \in 1..Len(sessions) /\ sessions[s[k].session].orch = n
  BY <1>4 DEF Told, PipelinesTold
<1>7. ASSUME NEW d \in Callers, Store(d), n = job[d].orch
      PROVE  LET p == NewPipeline(d)
             IN  p.session \in 1..Len(sessions) /\ sessions[p.session].orch = n
  <2>1. at[d] \in Making
    BY <1>7 DEF Store, Making
  <2>2. ref.session \in 1..Len(sessions)
    BY SessionsStep
  <2> QED BY <1>7, <2>1, <2>2, MakerTold DEF NewPipeline
<1>8. \/ Kept(s1, s)
      \/ \E d \in Callers : Store(d) /\ n = job[d].orch /\ Took(s1, s, NewPipeline(d))
  BY <1>1, <1>4
<1> HIDE DEF s, s1
<1>9. i \in 1..Len(s1)
  BY DEF s1
<1>10. s1[i].session \in 1..Len(sessions) /\ sessions[s1[i].session].orch = n
  <2>1. CASE Kept(s1, s)
    BY <1>6, <1>9, <2>1 DEF Kept, SameTold
  <2>2. ASSUME NEW p, Took(s1, s, p),
               p.session \in 1..Len(sessions), sessions[p.session].orch = n
        PROVE  s1[i].session \in 1..Len(sessions) /\ sessions[s1[i].session].orch = n
    <3>1. CASE i \in 1..Len(s)
      BY <1>6, <2>2, <3>1 DEF Took, SameTold
    <3>2. CASE i \notin 1..Len(s)
      <4>1. i = Len(s) + 1 /\ Len(s1) = Len(s) + 1
        BY <1>5, <1>9, <2>2, <3>2, TookIds
      <4> QED BY <1>5, <2>2, <4>1, TookIds
    <3> QED BY <3>1, <3>2
  <2> QED BY <1>7, <1>8, <2>1, <2>2
<1> QED BY <1>2, <1>10 DEF s1

LEMMA PlansThereNext ==
  ASSUME TypeOK, JobFits, TypeOK', Next, NEW c \in Callers, Tells(c), Told, PlansFit
  PROVE  PlansThere'
<1>1. OrchsKept /\ Len(orchs) \in Nat /\ Len(orchs') \in Nat
  BY OrchsStep
<1>2. 1..Len(orchs) \subseteq 1..Len(orchs')
  BY <1>1 DEF OrchsKept
<1>3. /\ Len(sessions) \in Nat /\ ref.session \in 1..Len(sessions) /\ ref.orch \in 1..Len(orchs)
      /\ \A k \in 1..Len(sessions) : sessions'[k].orch = sessions[k].orch
  BY SessionsStep
<1>4. SUFFICES ASSUME NEW n \in 1..Len(sessions'), NEW o, o = sessions'[n].orch
               PROVE  /\ o \in 1..Len(orchs')
                      /\ \A x \in ToSet(sessions'[n].plan) : Has(o, x)'
  BY DEF PlansThere
<1>5. ASSUME n \in 1..Len(sessions)
      PROVE  o \in 1..Len(orchs) /\ \A x \in ToSet(sessions[n].plan) : Has(o, x)'
  <2>1. o = sessions[n].orch /\ o \in 1..Len(orchs)
    BY <1>3, <1>4, <1>5 DEF Told, PlansThere
  <2>2. \A x \in ToSet(sessions[n].plan) : Has(o, x)
    BY <1>5, <2>1 DEF Told, PlansThere
  <2> QED BY <2>1, <2>2, HasGrows
<1>6. CASE ResetSession(c)
  <2>1. /\ Len(sessions') = Len(sessions) + 1 /\ sessions'[Len(sessions')] = Pending(ref.orch)
        /\ \A k \in 1..Len(sessions) : sessions'[k] = sessions[k]
    BY <1>6, SessionsStep
  <2>2. CASE n \in 1..Len(sessions)
    BY <1>2, <1>5, <2>1, <2>2
  <2>3. CASE n \notin 1..Len(sessions)
    <3>1. n = Len(sessions')
      BY <1>3, <2>1, <2>3
    <3>2. o = ref.orch /\ ToSet(sessions'[n].plan) = {}
      BY <1>4, <2>1, <3>1 DEF Pending, ToSet
    <3> QED BY <1>2, <1>3, <3>2
  <2> QED BY <2>2, <2>3
<1>7. CASE UNCHANGED sessions
  BY <1>2, <1>5, <1>7
<1>8. CASE SessionsTold(c)
  <2>1. n \in 1..Len(sessions)
    BY <1>8 DEF SessionsTold
  <2>2. CASE sessions'[n].plan = sessions[n].plan
    BY <1>2, <1>5, <2>1, <2>2
  <2>3. CASE at[c] = "finish" /\ n = ref.session /\ sessions'[n].plan = job[c].plan
    <3>1. at[c] \in Making
      BY <2>3 DEF Making
    <3>2. o = job[c].orch
      BY <1>3, <1>4, <2>3, <3>1, MakerTold
    <3>3. job[c].rest = <<>> /\ \A x \in ToSet(job[c].plan) : x \in ToSet(job[c].rest) \/ Has(o, x)
      BY <2>3, <3>1, <3>2 DEF PlansFit, PlanFits
    <3>4. \A x \in ToSet(job[c].plan) : Has(o, x)
      BY <3>3 DEF ToSet
    <3> QED BY <1>2, <1>5, <2>1, <2>3, <3>4, HasGrows
  <2> QED BY <1>8, <2>1, <2>2, <2>3 DEF SessionsTold
<1>9. ResetOrchestrator(c) => UNCHANGED sessions
  BY DEF ResetOrchestrator
<1> QED BY <1>6, <1>7, <1>8, <1>9 DEF Tells

LEMMA ToldInit == Init => PlansFit /\ Told
<1> SUFFICES ASSUME Init PROVE PlansFit /\ Told
  OBVIOUS
<1>1. \A d \in Callers : at[d] = "idle"
  BY DEF Init
<1>2. /\ Len(orchs) = 1 /\ Pipes(1) = <<>> /\ Len(sessions) = 1
      /\ sessions[1].orch = 1 /\ sessions[1].plan = <<>> /\ ref.session = 1 /\ ref.orch = 1
  BY DEF Init, Empty, Pending, Pipes
<1>3. PlansFit /\ Alone /\ MakersCurrent /\ SessionOverOrch
  BY <1>1, <1>2 DEF PlansFit, PlanFits, Making, Alone, Resetting, MakersCurrent, SessionOverOrch
<1>4. PipelinesTold
  BY <1>2 DEF PipelinesTold
<1>5. PlansThere
  <2>1. ToSet(<<>>) = {} /\ 1..Len(sessions) = {1} /\ 1 \in 1..Len(orchs)
    BY <1>2 DEF ToSet
  <2> QED BY <1>2, <2>1 DEF PlansThere
<1> QED BY <1>3, <1>4, <1>5 DEF Told

LEMMA ToldTells == TypeOK /\ Whole /\ (~crossed => Told) => SessionTellsPlan
<1> SUFFICES ASSUME TypeOK, Whole, ~crossed => Told PROVE SessionTellsPlan
  OBVIOUS
<1>1. /\ DOMAIN orchs = 1..Len(orchs) /\ DOMAIN sessions = 1..Len(sessions)
  BY TypeParts DEF ControlType
<1>2. \A n \in 1..Len(orchs) : DOMAIN Pipes(n) = 1..Len(Pipes(n))
  BY PipesType
<1>3. ASSUME Told, NEW n \in DOMAIN orchs, NEW p \in ToSet(orchs[n].pipelines)
      PROVE  sessions[p.session].orch = n
  BY <1>1, <1>2, <1>3 DEF Told, PipelinesTold, ToSet, Pipes
<1>4. ASSUME Told, NEW n \in DOMAIN sessions, NEW x \in ToSet(sessions[n].plan)
      PROVE  x \in {p.id : p \in ToSet(orchs[sessions[n].orch].pipelines)}
  <2> DEFINE o == sessions[n].orch
  <2>1. o \in 1..Len(orchs) /\ Has(o, x)
    BY <1>1, <1>4 DEF Told, PlansThere
  <2> HIDE DEF o
  <2>2. x \in {p.id : p \in ToSet(Pipes(o))}
    BY <1>2, <2>1 DEF Has, ToSet
  <2> QED BY <2>2 DEF o, Pipes
<1> QED BY <1>3, <1>4, WholePipelines DEF SessionTellsPlan

\* A pipeline is whole and in the hands of the session it was made for, and a
\* session that runs a plan has all of it, for all plans and callers, until a
\* reset meets another call.
THEOREM SessionsTellPlans == Spec => []SessionTellsPlan
<1> DEFINE IInv == TypeOK /\ JobFits /\ Whole /\ UniqueIds /\ PlansFit /\ (~crossed => Told)
<1>1. Init => IInv
  BY TypeInit, WholeInit, ToldInit
<1>2. IInv /\ [Next]_vars => IInv'
  <2> SUFFICES ASSUME IInv, [Next]_vars PROVE IInv'
    OBVIOUS
  <2>1. TypeOK' /\ JobFits'
    BY TypeNext
  <2>2. CASE UNCHANGED vars
    <3>1. Whole' /\ UniqueIds' /\ PlansFit'
      BY <2>2 DEF vars, control, Whole, UniqueIds, Pipes, PlansFit, PlanFits, Has
    <3>2. (~crossed => Told)'
      BY <2>2 DEF vars, control, Told, Alone, SessionOverOrch, MakersCurrent, PipelinesTold,
                  PlansThere, Pipes, Has
    <3> QED BY <2>1, <3>1, <3>2
  <2>3. CASE Next
    <3>1. PICK c \in Callers : Tells(c)
      BY <2>3, StepTells
    <3>2. ASSUME ~crossed' PROVE Told'
      <4>1. Told /\ Alone'
        BY <3>1, <3>2, AloneNext DEF Told
      <4>2. SessionOverOrch' /\ MakersCurrent'
        BY <2>1, <3>1, <4>1, OrchRefNext
      <4>3. PipelinesTold' /\ PlansThere'
        BY <2>1, <2>3, <3>1, <4>1, PipelinesToldNext, PlansThereNext
      <4> QED BY <4>1, <4>2, <4>3 DEF Told
    <3> QED BY <2>1, <2>3, <3>2, WholeNext, PlansFitNext
  <2> QED BY <2>2, <2>3
<1>3. IInv => SessionTellsPlan
  BY ToldTells
<1> QED BY <1>1, <1>2, <1>3, PTL DEF Spec
=============================================================================

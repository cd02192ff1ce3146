------------------------- MODULE SequentialPipeline -------------------------
(***************************************************************************)
(* What PipelineOrchestrator promises of its pipelines: the tasks of one   *)
(* pipeline run one after the other in their order, each at most once; a   *)
(* task that fails decides the pipeline and only then are the tasks behind *)
(* it cancelled; a pipeline succeeds when its last task has.  Pipelines do *)
(* not wait for one another.                                               *)
(***************************************************************************)
EXTENDS Lifecycle, Naturals

CONSTANTS NPipelines, NTasks

Pipelines == 1..NPipelines
Tasks == UNION {{p} \X (1..NTasks[p]) : p \in Pipelines}

VARIABLES
    status,     \* status[t]: the state of task t
    verdict     \* verdict[p]: the state of pipeline p

vars == <<status, verdict>>

Init ==
    /\ status = [t \in Tasks |-> "pending"]
    /\ verdict = [p \in Pipelines |-> "pending"]

Of(p) == {t \in Tasks : t[1] = p}
Before(t) == {u \in Of(t[1]) : u[2] < t[2]}

\* A task may begin before its pipeline is RUNNING, never after its verdict.
Begin(t) ==
    /\ status[t] = "pending"
    /\ \A u \in Before(t) : status[u] = "success"
    /\ verdict[t[1]] \notin Final
    /\ status' = [status EXCEPT ![t] = "running"]
    /\ UNCHANGED verdict

End(t) ==
    /\ status[t] = "running"
    /\ \E s \in {"success", "failed"} : status' = [status EXCEPT ![t] = s]
    /\ UNCHANGED verdict

Launch(p) ==
    /\ verdict[p] = "pending"
    /\ verdict' = [verdict EXCEPT ![p] = "running"]
    /\ UNCHANGED status

Succeed(p) ==
    /\ verdict[p] = "running"
    /\ \A t \in Of(p) : status[t] = "success"
    /\ verdict' = [verdict EXCEPT ![p] = "success"]
    /\ UNCHANGED status

Fail(p) ==
    /\ verdict[p] = "running"
    /\ \E t \in Of(p) : status[t] = "failed"
    /\ verdict' = [verdict EXCEPT ![p] = "failed"]
    /\ UNCHANGED status

\* The tasks behind the failed one, all of them or those up to an exception.
Abandon(p) ==
    /\ verdict[p] = "failed"
    /\ \E S \in SUBSET {t \in Of(p) : status[t] = "pending"} :
         status' = [t \in Tasks |-> IF t \in S THEN "canceled" ELSE status[t]]
    /\ UNCHANGED verdict

Next ==
    \/ \E t \in Tasks : Begin(t) \/ End(t)
    \/ \E p \in Pipelines : Launch(p) \/ Succeed(p) \/ Fail(p) \/ Abandon(p)

Spec == Init /\ [][Next]_vars

=============================================================================

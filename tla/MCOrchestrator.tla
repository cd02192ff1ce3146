--------------------------- MODULE MCOrchestrator ---------------------------
(***************************************************************************)
(* Instances of Orchestrator for TLC.                                      *)
(***************************************************************************)
EXTENDS Orchestrator

\* Two pipelines: two tasks behind one another, and one task beside them.
TwoAndOne == <<2, 1>>
\* One pipeline of three tasks.
Three == <<3>>
\* One pipeline, one task: the smoke tests' session.
One == <<1>>

\* The class attributes `_done : Event = Event()`: one pair for all managers.
DefaultPair == [t \in Tasks |-> <<0, 0>>]
\* A pair per manager, passed to its constructor.
OwnPair == [t \in Tasks |-> t]

LastBacked == {<<2, 1>>} \cap Tasks

=============================================================================

----------------------------- MODULE Lifecycle -----------------------------
(***************************************************************************)
(* The state machines of sessions, pipelines and tasks.                    *)
(*                                                                         *)
(* The three transition tables of taskweave/lifecycle are the same table   *)
(* over three enumerations.  STOPPING is a member of two of them and is in *)
(* no table, neither as a key nor as a target.                             *)
(***************************************************************************)

Statuses == {"pending", "running", "stopping", "success", "failed", "canceled"}

Final == {"success", "failed", "canceled"}

\* Where a cycle may go from s; a state that is not a key of the dict goes nowhere.
Transitions(s) ==
    CASE s = "pending" -> {"running", "canceled"}
      [] s = "running" -> Final
      [] OTHER         -> {}

\* The check every transition() makes before it assigns the new state.  When
\* it fails the method raises and the state is left as it was.
Legal(old, new) == new \in Transitions(old)

\* The same check for a cycle whose cleanup handler runs first, on the final
\* states; a handler that raises keeps the transition from happening.
LegalAfterCleanup(old, new, cleanupRaises) ==
    /\ new \in Final => ~cleanupRaises
    /\ Legal(old, new)

=============================================================================

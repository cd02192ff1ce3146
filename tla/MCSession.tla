------------------------------ MODULE MCSession ------------------------------
(***************************************************************************)
(* An instance of Session for TLC.                                         *)
(***************************************************************************)
EXTENDS Session

CONSTANTS client, callback, fetch, encode, p1, p2, gpu

\* The second pipeline shares a Task with the first and has one in a pool.
Pipelines == [p \in {p1, p2} |-> IF p = p1 THEN <<fetch>> ELSE <<fetch, encode>>]
InPool == [t \in {encode} |-> gpu]
TwoPlans == {<<p1, p2>>, <<p2>>}

=============================================================================

----------------------------- MODULE MCLogStore -----------------------------
(***************************************************************************)
(* Instances of LogStore for TLC.                                          *)
(***************************************************************************)
EXTENDS LogStore

CONSTANTS s1, s2

Symmetry == Permutations(Sessions)

=============================================================================

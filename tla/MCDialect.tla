------------------------------ MODULE MCDialect ------------------------------
(***************************************************************************)
(* An instance of Dialect for TLC.                                         *)
(***************************************************************************)
EXTENDS Dialect

AllTokens == {"a", "b", "(", "(?P<n>", ")", "|", "[", "]",
              "\\(", "\\)", "\\|", "\\[", "\\]"}

\* What unions are made of.
Plainest == {"a", "b", "(", ")", "|"}

SomeGroups == {-1, 0, 1, 2}

=============================================================================

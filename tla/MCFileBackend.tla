--------------------------- MODULE MCFileBackend ---------------------------
(***************************************************************************)
(* An instance of FileBackend for TLC.                                     *)
(***************************************************************************)
EXTENDS FileBackend

CONSTANTS stdout

\* The thread that reads the process's output.
OneWriter == {stdout}

=============================================================================

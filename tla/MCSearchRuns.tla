---------------------------- MODULE MCSearchRuns ----------------------------
(***************************************************************************)
(* Small instances of SearchRuns for TLC.                                  *)
(***************************************************************************)
EXTENDS SearchRuns, TLC

CONSTANT r1

OneRun == {r1}
=============================================================================

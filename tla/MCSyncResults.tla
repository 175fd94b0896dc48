---------------------------- MODULE MCSyncResults ----------------------------
(***************************************************************************)
(* Small instances of SyncResults for TLC.                                 *)
(***************************************************************************)
EXTENDS SyncResults, TLC

CONSTANTS s1, s2

OneSource == {s1}
TwoSources == {s1, s2}
Symmetry == Permutations(Sources)
=============================================================================

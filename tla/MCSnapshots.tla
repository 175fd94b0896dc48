---------------------------- MODULE MCSnapshots ----------------------------
(***************************************************************************)
(* Small instances of Snapshots for TLC.                                   *)
(***************************************************************************)
EXTENDS Snapshots

Network == [event |-> 1, scope |-> 1, rendered |-> FALSE]
Rendered == [event |-> 1, scope |-> 1, rendered |-> TRUE]
Rescoped == [event |-> 1, scope |-> 2, rendered |-> FALSE]

AllRequests == {Network, Rendered, Rescoped}
=============================================================================

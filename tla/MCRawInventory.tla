--------------------------- MODULE MCRawInventory ---------------------------
(***************************************************************************)
(* Small instances of RawInventory for TLC.                                *)
(***************************************************************************)
EXTENDS RawInventory, TLC

CONSTANTS f1, f2, l1, l2

\* The first link names a file below, the second one leads up and on.
Texts ==
    l1 :> [absolute |-> TRUE, inside |-> TRUE, parts |-> <<1, 1>>]
        @@ l2 :> [absolute |-> FALSE, inside |-> TRUE, parts |-> <<Up, 2>>]

Empty == [n \in Names |-> None]

\* The file below is reached by three paths, one of them through two links; ...
Linked ==
    Raw :> [Empty EXCEPT ![1] = Sub, ![2] = l1]
        @@ Sub :> [Empty EXCEPT ![1] = f1, ![2] = l2]
        @@ Elsewhere :> [Empty EXCEPT ![1] = f2]

\* ... a link that escapes, next to a directory that is somewhere else.
Scattered ==
    Raw :> [Empty EXCEPT ![1] = f1, ![2] = l2]
        @@ Sub :> [Empty EXCEPT ![1] = f2]
        @@ Elsewhere :> [Empty EXCEPT ![1] = Sub, ![2] = l1]

TwoTrees == {Linked, Scattered}
=============================================================================

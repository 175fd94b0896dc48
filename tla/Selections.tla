----------------------------- MODULE Selections -----------------------------
(***************************************************************************)
(* What is kept of a sequence: the loop that copies its elements, in their *)
(* order, when they are among those that are wanted.                       *)
(***************************************************************************)
EXTENDS Naturals, Sequences

SelectIn(s, wanted) ==
    LET kept[n \in 0 .. Len(s)] ==
            IF n = 0 THEN <<>>
            ELSE IF s[n] \in wanted THEN Append(kept[n - 1], s[n]) ELSE kept[n - 1]
    IN kept[Len(s)]
=============================================================================

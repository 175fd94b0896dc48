------------------------- MODULE MCWikiTransaction -------------------------
(* Instances of WikiTransaction for TLC.                                   *)
EXTENDS WikiTransaction, TLC

CONSTANTS a, b

\* One manifest rewrites a page, adds another and leaves the rest alone; one
\* removes a page and rewrites the others.
MCManifests ==
    {[t \in Paths |-> CASE t = 1 -> a [] t = 2 -> b [] OTHER -> Keep],
     [t \in Paths |-> IF t = 1 THEN Absent ELSE a]}

Symmetry == Permutations(Procs) \union Permutations(Edits)
=============================================================================

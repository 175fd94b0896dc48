---------------------------- MODULE MCSourceLock ----------------------------
(* Instances of SourceLock for TLC.                                        *)
EXTENDS SourceLock, TLC

CONSTANTS p1, h1

\* One process on the first machine, all the others on a second one.
TwoHosts == [p \in Procs |-> IF p = p1 THEN h1 ELSE CHOOSE h \in Hosts : h # h1]

\* The second machine's clock runs ahead.
Skewed == [h \in Hosts |-> IF h = h1 THEN 0 ELSE MaxSkew]

\* Inode numbers are interchangeable, and so are the processes of one machine.
Symmetry     == Permutations(Inodes)
SymmetryRest == Permutations(Inodes) \union Permutations(Procs \ {p1})
=============================================================================

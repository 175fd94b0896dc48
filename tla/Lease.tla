------------------------------- MODULE Lease -------------------------------
(***************************************************************************)
(* What the source write lock promises its callers: a lease.  Whoever is   *)
(* granted it has it alone until it returns it or its term lapses; nothing *)
(* tells a holder that its term has lapsed.                                *)
(***************************************************************************)
CONSTANT Clients

VARIABLES
    holders,    \* clients in the body of the lock
    lapsed      \* those whose lease has run out under them

Init == holders = {} /\ lapsed = {}

\* The term counts from the moment the client asked, so it may already be
\* over when the lease is granted.
Grant(c) ==
    /\ c \notin holders
    /\ holders \subseteq lapsed
    /\ holders' = holders \union {c}
    /\ lapsed' \in {lapsed, lapsed \union {c}}

Lapse(cs) ==
    /\ lapsed' = lapsed \union cs
    /\ UNCHANGED holders

\* A client leaves the body: it releases the lock, or it dies.
Return(c) ==
    /\ c \in holders
    /\ holders' = holders \ {c}
    /\ lapsed' = lapsed \ {c}

Next ==
    \/ \E c \in Clients : Grant(c) \/ Return(c)
    \/ \E cs \in SUBSET holders : Lapse(cs)

Spec == Init /\ [][Next]_<<holders, lapsed>>
=============================================================================

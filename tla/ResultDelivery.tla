--------------------------- MODULE ResultDelivery ---------------------------
(***************************************************************************)
(* What the sync result spool promises its consumer.  Every committed      *)
(* effect is owed until a result that carries it has been taken; results   *)
(* are offered one at a time, an offer stands until it is taken, and no    *)
(* effect is ever in two results.                                          *)
(***************************************************************************)
CONSTANTS
    EffectsOf(_),   \* the effects a result carries
    NoResult        \* nothing is offered

VARIABLES
    owed,           \* committed effects nobody has taken yet
    offered,        \* the result the consumer may take
    taken           \* results taken so far

Init == owed = {} /\ offered = NoResult /\ taken = {}

Delivered == UNION {EffectsOf(m) : m \in taken}

\* New effects are owed until they are delivered.
Commit ==
    /\ owed \subseteq owed'
    /\ (owed' \ owed) \intersect Delivered = {}
    /\ UNCHANGED <<offered, taken>>

\* A result is offered whole: it carries everything that is owed.
Offer ==
    /\ offered = NoResult /\ offered' # NoResult
    /\ owed \subseteq EffectsOf(offered')
    /\ EffectsOf(offered') \intersect Delivered = {}
    /\ UNCHANGED <<owed, taken>>

Take ==
    /\ offered # NoResult /\ offered' = NoResult
    /\ taken' = taken \union {offered}
    /\ owed' = owed \ EffectsOf(offered)

Next == Commit \/ Offer \/ Take

Spec == Init /\ [][Next]_<<owed, offered, taken>>
=============================================================================

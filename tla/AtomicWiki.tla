----------------------------- MODULE AtomicWiki -----------------------------
(***************************************************************************)
(* What wiki apply promises: the wiki moves from one complete state to the *)
(* next by one whole manifest, or not at all.                              *)
(***************************************************************************)
CONSTANTS
    Paths,          \* logical wiki paths
    Bytes,          \* file contents
    Absent,         \* the path does not exist
    Keep,           \* the manifest leaves the path alone
    Manifests       \* the changes users ask for

VARIABLE wiki

Wikis == [Paths -> Bytes \union {Absent}]

Overlay(base, m) == [t \in Paths |-> IF m[t] = Keep THEN base[t] ELSE m[t]]

Init == wiki \in Wikis

Publish(m) == wiki' = Overlay(wiki, m)

Next == \E m \in Manifests : Publish(m)

Spec == Init /\ [][Next]_wiki
=============================================================================

SPECIFICATION Spec
CONSTANTS
    a = a
    b = b
    Procs = {p1, p2}
    Paths = {1}
    Bytes = {a, b, e1}
    Edits = {e1}
    Absent = Absent
    Keep = Keep
    NoJournal = NoJournal
    Manifests <- MCManifests
    MaxCrashes = 1
    MayLapse = TRUE
INVARIANTS TypeOK NoEditDestroyed
PROPERTY StrangerNeverReplaced
SYMMETRY Symmetry

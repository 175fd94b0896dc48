SPECIFICATION Spec
CONSTANTS
    a = a
    b = b
    Procs = {p1, p2}
    Paths = {1, 2}
    Bytes = {a, b}
    Edits = {}
    Absent = Absent
    Keep = Keep
    NoJournal = NoJournal
    Manifests <- MCManifests
    MaxCrashes = 0
    MayLapse = TRUE
PROPERTY PublishedOrRecoverable
SYMMETRY Symmetry

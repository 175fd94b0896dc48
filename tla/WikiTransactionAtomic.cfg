SPECIFICATION FairSpec
CONSTANTS
    a = a
    b = b
    Procs = {p1, p2}
    Paths = {1, 2, 3}
    Bytes = {a, b}
    Edits = {}
    Absent = Absent
    Keep = Keep
    NoJournal = NoJournal
    Manifests <- MCManifests
    MaxCrashes = 3
    MayLapse = FALSE
INVARIANT JournalRecoverable
PROPERTIES ImplementsAtomicWiki PendingCleared

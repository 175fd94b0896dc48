SPECIFICATION Spec
CONSTANTS
    r1 = r1
    RunIds <- OneRun
    Pages = {1}
    Questions = {2}
    Extracts = {3}
    Contents = {0, 2}
    PageSize = 1
    TTL = 1
    Absent = Absent
    NoMetadata = NoMetadata
    Never = Never
    Idle = Idle
    MaxEdits = 2
    MaxFaults = 1
INVARIANTS TypeOK ResultsAreOneMoment PacketIsOneMoment AcceptedWasServed
PROPERTIES BlockedForGood RemovalPutOffOnce

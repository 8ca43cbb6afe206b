SPECIFICATION Spec
CONSTANTS
    s1 = s1
    s2 = s2
    Requests = {r1, r2, r3}
    Shas = {s1, s2}
    Jobs <- FlightJobs
    Disks <- EmptyDisk
    MaxParses = 1
    MemoryLRU = 1
    PageLRU = 1
    Degenerate = {s1}
    NoStreams = {}
    Faults = {"write", "panic"}
    Evicting = {"tier2"}
    None = None
SYMMETRY AnyOrder
INVARIANTS
    OneLoadPerDemo
    ParsesOnlyMissing
    AnsweredWithOwnDemo
    MemHoldsVisitedOnly

SPECIFICATION FairSpec
CONSTANTS
    s1 = s1
    s2 = s2
    Requests = {r1, r2}
    Shas = {s1, s2}
    Jobs <- LiveJobs
    Disks <- EmptyDisk
    MaxParses = 1
    MemoryLRU = 1
    PageLRU = 1
    Degenerate = {s1}
    NoStreams = {}
    Faults = {"hub", "parse", "cancel"}
    Evicting = {}
    None = None
INVARIANTS
    CancelStaysPrivate
    HoldsNothingWhenDone
PROPERTIES
    EveryRequestAnswered

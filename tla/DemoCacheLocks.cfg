SPECIFICATION Spec
CONSTANTS
    s1 = s1
    s2 = s2
    Requests = {r1, r2, r3}
    Shas = {s1, s2}
    Jobs <- LocksJobs
    Disks <- WarmDisks
    MaxParses = 1
    MemoryLRU = 1
    PageLRU = 1
    Degenerate = {}
    NoStreams = {s2}
    Faults = {"decode", "noBSP", "encode"}
    Evicting = {"pack"}
    None = None
SYMMETRY AnyOrder
INVARIANTS
    VerifiedPackIsSound
    HeavyWorkBounded
    HoldsNothingWhenDone
    LosWrittenOnce
    NoTornCopy
    LrusWellFormed

SPECIFICATION MCSpec
CONSTANTS
    ChunkSize = 2
    BatchSize = 2
    ChunkCap = 1
    FreeCap = 2
    BatchCap = 1
    Buffers = {b1, b2, b3, b4}
    None = None
    MinSize = 5
    MaxSize = 8
INVARIANTS
    FilledAlone
    FewBuffers
    ClosedWhenIdle
    CensusIsComplete
PROPERTIES
    SameAsSerial
    EveryoneReturns

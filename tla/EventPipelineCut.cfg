SPECIFICATION MCSpec
CONSTANTS
    ChunkSize = 3
    BatchSize = 1
    ChunkCap = 1
    FreeCap = 2
    BatchCap = 1
    Buffers = {b1, b2, b3, b4}
    None = None
    MinSize = 5
    MaxSize = 8
INVARIANT TruncationReported

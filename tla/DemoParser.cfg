SPECIFICATION Spec
CONSTANTS
    bob = bob
    Slots = {0}
    Names = {bob}
    PrintKeys <- TwoKeys
    Fragments <- Pieces
    MaxTime = 2
    MaxLine = 3
    None = None
INVARIANTS
    TypeOK
    PendingOneFrame
    GateAgrees
    LivesTold
PROPERTIES
    TextKept
    PrintsInOrder

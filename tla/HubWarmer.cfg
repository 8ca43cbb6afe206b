SPECIFICATION Spec
CONSTANTS
    g1 = g1
    g2 = g2
    g3 = g3
    Games <- ThreeGames
    PlayedAt <- ThreeTimes
    Interval = 2
    Window = 10
    MaxBackoff = 3
    OutageLimit = 2
    Width = 16
    Slowest = 1
    Horizon = 13
INVARIANTS
    TypeOK
    RecoversFromOutage
PROPERTIES
    SettledOnce
    BackoffKept
CHECK_DEADLOCK FALSE

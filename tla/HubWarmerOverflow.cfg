SPECIFICATION Spec
CONSTANTS
    g1 = g1
    g2 = g2
    g3 = g3
    Games <- OneGame
    PlayedAt <- OneTime
    Interval = 2
    Window = 40
    MaxBackoff = 8
    OutageLimit = 2
    Width = 7
    Slowest = 1
    Horizon = 40
PROPERTIES
    BackoffKept
CHECK_DEADLOCK FALSE

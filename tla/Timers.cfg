SPECIFICATION Spec
CONSTANTS
    auto = auto
    once = once
    NULL = NULL
    Timer <- MCTimer
    AutoReload <- MCAuto
    Periods <- MCPeriods
    Modulus = 6
    MaxLag = 2
    MaxAge = 2
    Room = 1
    QueueLength = 2
INVARIANTS
    TypeOK
    NeverEarly
    WakesInTime
    ReloadHasRoom

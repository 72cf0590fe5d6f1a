SPECIFICATION Spec
CONSTANTS
    idle = idle
    t1 = t1
    t2 = t2
    t3 = t3
    a = a
    b = b
    Task <- MCTask
    Idle = idle
    Priority <- MCPriority
    Item = {a}
    Empty = Empty
    uxLength = 2
    Call <- BothEnds
    SendsISR = {"sendBack"}
    TakesISR = TRUE
    MaxLock = 2
INVARIANTS
    TypeOK
    RingConsistent
    SuspensionExcludes
    NoLostItem
    NoLostSlot
    BlockedConsistently
    HighestPriorityRuns
PROPERTIES
    ListsLocked


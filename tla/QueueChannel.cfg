SPECIFICATION Spec
CONSTANTS
    idle = idle
    t1 = t1
    t2 = t2
    t3 = t3
    a = a
    b = b
    Task <- TwoTasks
    Idle = idle
    Priority <- MCPriority
    Item = {a, b}
    Empty = Empty
    uxLength = 2
    Call <- Ordered
    SendsISR = {"sendBack"}
    TakesISR = TRUE
    MaxLock = 2
PROPERTY
    ChannelSpec

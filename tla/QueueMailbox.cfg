SPECIFICATION FairSpec
CONSTANTS
    idle = idle
    t1 = t1
    t2 = t2
    t3 = t3
    a = a
    b = b
    Task <- TwoTasks
    Idle = idle
    Priority <- MCPriority
    Item = {a, b}
    Empty = Empty
    uxLength = 1
    Call <- Mailbox
    SendsISR = {"overwrite"}
    TakesISR = TRUE
    MaxLock = 1
PROPERTIES
    ChannelSpec
    TopTaskServed
    FiniteWaitEnds

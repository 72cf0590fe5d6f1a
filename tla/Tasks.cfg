SPECIFICATION Spec
CONSTANTS
    one = one
    two = two
    Task <- MCTask
    Modulus = 4
    OverflowModulus = 2
    ucHeap = 1
    configTOTAL_HEAP_SIZE = 29
    portBYTE_ALIGNMENT = 2
    SizeofBlockLink = 2
    NULL = NULL
    StackBytes <- MCStackBytes
    TcbBytes = 3
    QueueBytes = 4
    Delays <- MCDelays
    Waits <- MCWaits
    Periods <- MCPeriods
INVARIANTS
    TypeOK
    MemorySound
    TimesKept

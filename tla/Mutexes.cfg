SPECIFICATION Spec
CONSTANTS
    idle = idle
    low = low
    mid = mid
    high = high
    mtx1 = mtx1
    mtx2 = mtx2
    None = None
    Task <- Tasks
    Idle = idle
    Mutexes = {mtx1, mtx2}
    Recursive = {mtx1}
    uxBasePriority <- Priorities
    Usages <- BothUsages
    Waits = {"none", "finite", "forever"}
    MaxDepth = 2
\* Tasks that take both mutexes in opposite orders may wait for each other for ever,
\* and a failed assertion stops the system.
CHECK_DEADLOCK FALSE
INVARIANTS
    TypeOK
    HolderInherits
    LoanReturned
    PrioritySettled
    GiveReachesWaiter
    ReadyBitsRight

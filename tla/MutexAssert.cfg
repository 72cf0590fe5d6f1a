SPECIFICATION Spec
CONSTANTS
    idle = idle
    low = low
    mid = mid
    high = high
    mtx1 = mtx1
    mtx2 = mtx2
    None = None
    Task <- Tasks
    Idle = idle
    Mutexes = {mtx1}
    Recursive = {mtx1}
    uxBasePriority <- Priorities
    Usages <- OneUsage
    Waits = {"none", "finite", "forever"}
    MaxDepth = 2
INVARIANT
    InheritanceAssertion

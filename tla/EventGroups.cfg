SPECIFICATION FairSpec
CONSTANTS
    ann = ann
    bob = bob
    cyd = cyd
    x = x
    y = y
    z = z
    NULL = NULL
    Task <- MCTask
    Bit <- MCBit
    Calls <- MCCalls
    Sets <- MCSets
    Clears <- MCClears
    QueueLength = 2
INVARIANTS
    TypeOK
    NoMissedBits
    Rendezvous
PROPERTIES
    FlagsSpec
    DeferredSetReleases

SPECIFICATION Spec
CONSTANTS
    tcpip = tcpip
    app = app
    NULL = NULL
    Tcpip = tcpip
    App <- MCApp
    TxBds = 2
    RxBds = 2
    QueueLength = 2
    PoolSize = 2
    InpktNum = 1
    MboxSize = 1
INVARIANTS
    TypeOK
    RingsAgree
    MacNeverRests
    SenderNotStranded
    PbufsConserved
    ReadUnlessDropped
    NeverDeaf

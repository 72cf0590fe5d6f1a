SPECIFICATION Spec
CONSTANTS
    xLength = 5
    MaxSend = 3
    Numbers = 6
    BufferLengths = {1, 3}
    WriterPreempts = FALSE
INVARIANTS
    TypeOK
    Intact
    NobodyOversleeps

SPECIFICATION FairSpec
CONSTANTS
    NIds = 4
    ShiftEdges <- Lengths
    Hosts <- BothHosts
    FifoDepth = 2
    DmiGap = 3
INVARIANTS
    TypeOK
    ReadReturnsOwnAnswer
    NoSilentDrop
    ExecutedInOrder
    QueueNeverFull
    RequestsSpaced
    NeverBusy
PROPERTIES
    EventuallyIdle

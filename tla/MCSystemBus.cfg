SPECIFICATION Spec
CONSTANTS
    NWords = 3
    NAddrs = 4
    Values = {0, 1}
    None = None
    DmiGap = 3
    ReadWait = 3
    Latencies = {3, 7}
INVARIANTS
    MemoryAsAsked
    NeverBusy
PROPERTIES
    ReadIsCurrent

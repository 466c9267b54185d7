SPECIFICATION FairSpec
CONSTANTS
    Addresses = {a, b}
    MinApbPerTck = 2
    MaxTckPerApb = 1
    MaxWait = 40
    WriteGap = 1
    ReadGap = 58
    ScanGap = 51
INVARIANTS
    HandshakeInv
    NeverBusy
PROPERTIES
    RemoteSpec
    EventuallyIdle

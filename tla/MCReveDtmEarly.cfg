SPECIFICATION Spec
CONSTANTS
    Addresses = {a, b}
    MinApbPerTck = 2
    MaxTckPerApb = 1
    MaxWait = 2
    WriteGap = 1
    ReadGap = 58
    ScanGap = 51
PROPERTIES
    CompleteAfterReady

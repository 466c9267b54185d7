SPECIFICATION Spec
CONSTANTS
    Controller = "ftdi"
    DmiLen = 3
    DtmcsLen = 4
    Words <- SomeWords
INVARIANTS
    InStep
    InstructionInForce
    ReadReturnsCaptured
PROPERTIES
    PortSpec

SPECIFICATION Spec
CONSTANTS
    Controller = "sim"
    DmiLen = 3
    DtmcsLen = 4
    Words <- SomeWords
INVARIANTS
    InstructionInForce

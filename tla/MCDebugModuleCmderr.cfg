SPECIFICATION Spec
CONSTANTS
    Harts = {0}
    NoHart = NoHart
    Values = {0, 1}
    DmiGap = 1
    Controls <- SomeControls
PROPERTIES
    NoStartAfterError

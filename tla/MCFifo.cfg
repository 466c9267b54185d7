SPECIFICATION Spec
CONSTANTS
    Data = {z, a, b}
    Zero = z
    DEPTH = 3
    FALL_THROUGH = TRUE
    POINTERS = 4
INVARIANTS
    RingInv
PROPERTIES
    QueueSpec

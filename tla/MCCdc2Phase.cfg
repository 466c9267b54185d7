SPECIFICATION FairSpec
CONSTANTS
    Data = {z, a, b}
    Zero = z
INVARIANTS
    HandshakeInv
PROPERTIES
    LinkSpec
    OfferIsStable
    BothSidesProgress

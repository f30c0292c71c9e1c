\* The density is computed from the message, which is up to half of what the
\* image holds.
CONSTANTS
    McuBits = 8
    Garbage = {2}
    Images <- HalvedImages
    Uses <- AllThree
    Densities = {}
    MaxLen = 24
CHECK_DEADLOCK FALSE
SPECIFICATION Spec
INVARIANTS
    CountEmbedded

\* Two images of two sizes, with room for a third ring: an image that could
\* not be written, or a new seed.  Draws that go round the ring and on.
CONSTANTS
    Sizes = {2, 3}
    MaxImages = 2
    MaxFills = 3
    MaxCalls = 4
CHECK_DEADLOCK FALSE
SPECIFICATION Spec
INVARIANTS
    RingGoesRound
    InStep
    NoPrnTwice

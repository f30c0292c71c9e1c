\* One byte in an MCU.  Messages up to one byte longer than the largest of the
\* images holds.
CONSTANTS
    McuBits = 8
    Garbage = {2}
    Images <- SmallImages
    Uses <- MCUses
    Densities = {90, 100}
    MaxLen = 11
CHECK_DEADLOCK FALSE
SPECIFICATION Spec
INVARIANTS
    SplitFits
    EndToEnd
    Resync

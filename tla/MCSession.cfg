\* One byte in an MCU.
CONSTANTS
    McuBits = 8
    Garbage = {}
    Images <- MCImages
    Components <- MCComponents
    Densities = {100}
    Lens = {1, 10}
    MaxFiles = 2
    Word = 4096
CHECK_DEADLOCK FALSE
SPECIFICATION Spec
INVARIANTS
    LibjpegInStep
    HandlersLive
    AsFresh
    PiecesInside

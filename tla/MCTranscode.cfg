\* Headers and MCUs of 1 or 2 bytes, a buffer of 3: the images take 3 to 20
\* bytes.  There is room for less, for as much and for more.
CONSTANTS
    Images <- MCImages
    DctSize = 1
    MaxBlocks = 5
    McuBytes = {1, 2}
    BufSize = 3
    Rooms = {3, 4, 6, 20}
CHECK_DEADLOCK FALSE
SPECIFICATION Spec
INVARIANTS
    BlocksAgree
    WholeOrFull

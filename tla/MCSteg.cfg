\* 8 bits in an MCU, as 4 of 5 frequencies, 2 bits each: 8 MCUs hold the header and
\* messages of up to 2 bytes.  A third byte overflows.  Density 76 selects 6 MCUs,
\* with room for an empty message; density 88 selects 7, with room for 1 byte.
CONSTANTS
    NMcus = 8
    MaxFreqs = 5
    NList = 10
    NFreqs = 4
    BitsPerFreq = 2
    Rings <- MCRings
    Starts = {0, 4}
    Densities = {76, 88, 100}
    MaxLen = 3
    Garbage = {0, 1, 60, 101}
CHECK_DEADLOCK FALSE
SPECIFICATION FairSpec
INVARIANTS
    TypeOK
    NoFreqTwice
    PrnInStep
    RoundTrip
    CapacityKept
    NextChannelInStep
    DensityBound
    WalksAsComputed
PROPERTIES
    BitsSetOnce
    Terminates
    KeepsPromise

\* Tables made from counts of 5 symbols, with codes of up to 3 bits; segments of
\* up to 3 symbols through bytes of 3 bits, cut anywhere; and any data of up to
\* 3 bytes under any table with three codes.
CONSTANTS
    NumSymbols = 5
    SizeRange = 2
    MaxLength = 3
    MAX_CLEN = 4
    MaxFreq = 13
    HUFF_LOOKAHEAD = 2
    ByteSize = 3
    BIT_BUF_SIZE = 7
    Often = {0, 1, 2, 3, 5}
    MaxGiven = 3
    Counts <- MCCounts
    Coded <- FewCounts
    GivenTables <- MCTables
    MaxMessage = 3
    MaxForeign = 3
SPECIFICATION Spec
INVARIANTS
    DecodedAsDefined
    AsWritten
    OptimalTable
CHECK_DEADLOCK FALSE

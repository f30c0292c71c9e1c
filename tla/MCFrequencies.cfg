CONSTANTS
    DCTSIZE2 = 5
    Images <- MCImages
    Standard <- MCStandard
    Lists <- MCLists
    Maxes = {2, 3}
    NLevels = 8
    MaxCalls = 4
CHECK_DEADLOCK FALSE
SPECIFICATION Spec
INVARIANTS
    SameFrequencies
    FrequenciesHold

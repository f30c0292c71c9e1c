\* Three components of four blocks of six coefficients; a run of zeros has up to
\* 3 of them, a run of blocks too.
CONSTANTS
    NumComps = 3
    NumBlocks = 4
    DCTSIZE2 = 6
    RunMax = 3
    MAX_CORR_BITS = 7
    MAX_COEF_BITS = 3
    MAX_AH_AL = 2
    MAX_COMPS_IN_SCAN = 4
    MAX_AL = 3
    FirstBand = 2
    Jobs <- MCJobs
    CutScripts <- Simple
    Fillers <- AnyFillers
SPECIFICATION Spec
INVARIANTS
    Approximates
    InStep
    NothingOverruns
    ScriptsAgree
CHECK_DEADLOCK FALSE

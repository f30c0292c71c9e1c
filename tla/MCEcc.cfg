\* A flip by 7 lengthens the empty block that ends a message, one by 201 makes
\* its length larger than any block.
CONSTANTS
    NPAR = 4
    BlockLen = 12
    Jobs <- MCJobs
    Damages <- MCDamages
    Flips = {7, 201}
CHECK_DEADLOCK FALSE
SPECIFICATION Spec
INVARIANTS
    CodeHolds
    CapacityHolds

\* Ten segments, nine of three MCUs: the numbers of restart markers come round.
CONSTANTS
    Image <- MCImage
    DctSize2 = 18
    Interval = 3
    Managers = {"stdio", "memory"}
    Wrong <- MCWrong
    Cuts = {0, 4}
    MaxDamages = 2
CHECK_DEADLOCK FALSE
SPECIFICATION Spec
INVARIANTS
    InPlace
    OneMadeUp
    EndSupplied

SPECIFICATION Spec
CONSTANTS
    Asset = {json, zst}
    MaxMerges = 2
    MaxManual = 1
    MaxAttempts = 3
    NoBuild = NoBuild
    NoRun = NoRun
INVARIANT StaleIsTransient
CHECK_DEADLOCK FALSE

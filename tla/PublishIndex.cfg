SPECIFICATION Spec
CONSTANTS
    Asset = {json, zst}
    MaxMerges = 3
    MaxManual = 1
    MaxAttempts = 3
    NoBuild = NoBuild
    NoRun = NoRun
INVARIANTS TypeOK GreenMeansPublished WebsiteNotAhead GreenIsWhole
PROPERTIES MainKeepsMerges MergesArePublished
CHECK_DEADLOCK FALSE

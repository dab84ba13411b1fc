SPECIFICATION DeliverySpec
CONSTANTS
    Asset = {json, zst, sig}
    Client = {c1}
    Pointer = json
    Snapshot = zst
    Signature = sig
    MaxMerges = 1
    MaxManual = 2
    MaxAttempts = 1
    NoBuild = NoBuild
    NoRun = NoRun
INVARIANT DeliveryTypeOK
PROPERTIES ClientsCatchUp ImplementsRegister
CHECK_DEADLOCK FALSE

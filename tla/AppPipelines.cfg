SPECIFICATION Spec
CONSTANTS
    rg = rg
    jq = jq
    Package = {rg}
    Platform = {1, 2}
    Keys <- MCKeys
    MaxVersion = 3
    MaxWrites = 3
    MaxOpen = 2
    NoSource = NoSource
    NoManifest = NoManifest
INVARIANTS TypeOK LatestIsComplete BlocksMatchVersion
PROPERTY NothingIsLost

SPECIFICATION Spec
CONSTANTS
    rg = rg
    jq = jq
    Package = {rg, jq}
    Platform = {1, 2}
    Keys <- MCKeys
    MaxVersion = 3
    MaxWrites = 1
    MaxOpen = 2
    NoSource = NoSource
    NoManifest = NoManifest
INVARIANT MismatchBlocksPR

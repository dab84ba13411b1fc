SPECIFICATION Spec
CONSTANTS
    Package = {1}
    Platform = {1, 2, 3}
    Keys <- MCKeys
    Pins <- MCPins
    MaxVersion = 2
    MaxUploads = 3
    MaxWindows = 1
    NoSource = NoSource
    NoManifest = NoManifest
    NoTag = NoTag
    NoRelease = NoRelease
    LatestTag = LatestTag
INVARIANT TypeOK
PROPERTIES ImportsAreAtomic RegistryModeAddsNoVersion
CHECK_DEADLOCK FALSE

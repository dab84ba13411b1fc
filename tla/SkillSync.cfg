SPECIFICATION Spec
CONSTANTS
    Order <- MCOrder
    Prefix <- MCPrefix
    Name <- MCName
    Ships <- MCShips
    MaxParts = 2
    MaxRev <- MCMaxRev
    MaxDay = 1
    MaxOpen = 2
    MaxBreaks = 1
INVARIANTS TypeOK NamesAreUnique ManifestsAreDownloadable VersionsAreImmutable
CHECK_DEADLOCK FALSE

SPECIFICATION Spec
CONSTANTS
    Order <- MCOrder
    Prefix <- MCPrefix
    Name <- MCName
    Ships <- MCShipsFoo
    MaxParts = 2
    MaxRev <- MCMaxRevTwo
    MaxDay = 2
    MaxOpen = 2
    MaxBreaks = 1
INVARIANT CollisionsResolve
CHECK_DEADLOCK FALSE

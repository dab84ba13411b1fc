SPECIFICATION Spec
CONSTANTS
    Package = {p}
    MaxVersion = 2
    Name = {ssh, rg}
    Reserved = {ssh}
    MaxMain = 2
    NoFile = NoFile
    NoCheckout = NoCheckout
INVARIANT NamesMayBeKept
CHECK_DEADLOCK FALSE

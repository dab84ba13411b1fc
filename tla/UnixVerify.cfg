SPECIFICATION Spec
CONSTANTS
    tool = tool
    other = other
    inner = inner
    outer = outer
    Path = {tool, other}
    Dir = {inner, outer}
    Outside = Outside
    Malformed = Malformed
    Absent = Absent
    Skip = Skip
    Bucket <- MCBucket
    Payload <- MCPayload
    Allowlists <- MCAllowlists
    Leg <- MCLeg
    Root = Root
    NoManifest = NoManifest
    NoFile = NoFile
    NoBlock = NoBlock
    NoPayload = NoPayload
INVARIANTS
    TypeOK
    WindowsLayoutKept
    SearchPathKept
    BlocksAreGated
    ExecutedIsDeclared
    GreenMeansUsable

SPECIFICATION Spec
CONSTANTS
    Names = {a, b}
    Folders = {f, g}
    Synced = 1
    Ops = {"create", "write", "rename", "move", "unlink", "replace", "release"}
    Overlap = FALSE
    Reuse = FALSE
    Slow = FALSE
    MaxOps = 3
    MaxFaults = 0
    MaxCrashes = 0
INVARIANTS
    TypeOK
    OneCopy
    OwnContent
PROPERTIES
    DeletesOnlyUnlinked
    Converges
    CycleEnds

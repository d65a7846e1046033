SPECIFICATION Spec
CONSTANTS
    Names = {a, b, c}
    Folders = {f}
    Synced = 1
    Ops = {"create", "write", "release", "rename", "unlink", "replace"}
    Overlap = TRUE
    Reuse = FALSE
    Slow = TRUE
    MaxOps = 3
    MaxFaults = 0
    MaxCrashes = 0
INVARIANTS
    ChangesRecorded

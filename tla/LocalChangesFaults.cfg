SPECIFICATION Spec
CONSTANTS
    Names = {a, b, c}
    Folders = {f}
    Synced = 1
    Ops = {"create", "write", "release", "rename", "unlink", "replace"}
    Overlap = TRUE
    Reuse = FALSE
    Slow = TRUE
    MaxOps = 2
    MaxFaults = 1
    MaxCrashes = 1
INVARIANTS
    EditsRecorded

SPECIFICATION Spec
CONSTANTS
    Items = {i1}
    Folders = {f1}
    SyncFolders = {f1}
    MaxChanges = 2
    MaxFaults = 0
    MaxCrashes = 1
    TokensExpire = FALSE
INVARIANT NothingMissed

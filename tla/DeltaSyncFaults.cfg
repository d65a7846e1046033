SPECIFICATION Spec
CONSTANTS
    Items = {i1, i2}
    Folders = {f1, f2}
    SyncFolders = {f1}
    MaxChanges = 3
    MaxFaults = 1
    MaxCrashes = 1
    TokensExpire = TRUE
INVARIANTS
    RowsInOrder
    MissedOnlyIfCut
PROPERTY RegressesOnlyOnRetry

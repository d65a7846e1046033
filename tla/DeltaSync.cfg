SPECIFICATION Spec
CONSTANTS
    Items = {i1, i2}
    Folders = {f1, f2}
    SyncFolders = {f1}
    MaxChanges = 4
    MaxFaults = 0
    MaxCrashes = 0
    TokensExpire = FALSE
INVARIANTS
    TypeOK
    NothingMissed
    SyncFoldersMirrored
PROPERTY Converges

SPECIFICATION Spec
CONSTANTS
    Calls = {1, 2}
    Synced = TRUE
    LocalOps = {"update", "delete", "rename"}
    MaxRemote = 1
    MaxLocal = 1
    MaxFaults = 1
INVARIANTS
    TypeOK
    Answerable
    OneSideKept
PROPERTIES
    UnseenKept
    EditsKept
    ChoiceCarriedOut

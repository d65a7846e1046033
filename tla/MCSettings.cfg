SPECIFICATION Spec
CONSTANTS
    Folders = {docs, pics}
    Calls = {c1, c2}
    MaxEvents = 5
    MaxFaults = 1
SYMMETRY Symmetry
INVARIANTS
    TypeOK
    ChoicesKept
    FolderComplete
CHECK_DEADLOCK FALSE

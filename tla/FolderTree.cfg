SPECIFICATION Spec
CONSTANTS
    Names = {"new"}
    Reports = {"all"}
    MaxEvents = 3
INVARIANTS
    TypeOK
    ParentComes
    NewItemsKept
PROPERTIES
    Arrives

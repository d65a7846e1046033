SPECIFICATION Spec
CONSTANTS
    Cycles = {c1, c2, c3, c4}
    Ticker = Ticker
    NoOwner = NoOwner
INVARIANTS
    TypeOK
    OneCycleAtATime
PROPERTIES
    SpawnsOnlyWhenIdle
    SpawnedCycleEnds
    ImplementsSerialExecutor
CHECK_DEADLOCK FALSE

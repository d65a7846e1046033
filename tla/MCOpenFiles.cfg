CONSTANTS
    Callers = {c1, c2}
    Edits = {e1, e2}
    MaxVersion = 3
    MaxHandles = 2
    MaxFaults = 1
SPECIFICATION Spec
INVARIANT TypeOK
INVARIANT WritesKept
INVARIANT FreshWhenQuiet
SYMMETRY Symmetry

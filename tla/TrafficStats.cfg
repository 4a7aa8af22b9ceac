SPECIFICATION Spec
CONSTANTS
    Profiles = {p1, p2}
    MaxBytes = 2
    MaxMinute = 3
    Window = 1
    None = None
SYMMETRY Symmetric
INVARIANTS
    CountedOnce
    OwnRow
    StopSavesAll
CHECK_DEADLOCK FALSE

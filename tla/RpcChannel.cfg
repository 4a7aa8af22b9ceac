SPECIFICATION Spec
CONSTANTS
    Calls = {c1, c2}
    MaxSocks = 3
    None = None
SYMMETRY Symmetric
INVARIANTS OwnAnswer ClaimedIsReturned ConnectedIsTrue
PROPERTIES ImplementsCalls
CHECK_DEADLOCK FALSE

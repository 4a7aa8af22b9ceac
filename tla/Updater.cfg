SPECIFICATION Spec
CONSTANTS
    Versions = {0, 1, 2}
    Files = {"a", "b"}
    Content <- MCContent
    Base = 0
    MaxClicks = 4
    MaxRuns = 3
    None = None
    Torn = Torn
INVARIANTS
    Healable
    InstalledAlone
    ReadyIsOnDisk
CHECK_DEADLOCK FALSE

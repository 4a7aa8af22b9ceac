SPECIFICATION Spec
CONSTANTS
    Cfgs <- Profiles
    MaxStarts = 2
    MaxFull = 2
INVARIANTS RunningIsPublished StoppedIsClean PublishedIsAlive MarkIsPublished
CHECK_DEADLOCK FALSE

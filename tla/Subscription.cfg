SPECIFICATION SubSpec
CONSTANTS
    s1 = s1
    s2 = s2
    s3 = s3
    Servers = {s1, s2, s3}
    Host <- Hosts
    Selector = Selector
    MaxId = 6
    MaxDoc = 2
    Chunk = 1
    MaxRefresh = 1
    MaxEdits = 1
INVARIANTS  NothingOrphaned Reconciled
CHECK_DEADLOCK FALSE

SPECIFICATION FairSpec
CONSTANTS
    m1 = m1
    m2 = m2
    Group <- Two
    Working = {m1, m2}
    Limit = 1
    Exclude = TRUE
    Trust = TRUE
    BackoffMin = 2
    BackoffMax = 2
    Nil = Nil
    MaxFlips = 1
PROPERTIES RebuildIsEarned  LeavesDeadPool
CHECK_DEADLOCK FALSE

SPECIFICATION FairSpec
CONSTANTS
    c1 = c1
    c2 = c2
    t1 = t1
    t2 = t2
    Callers = {c1, c2}
    Tags = {t1, t2}
    FullTags = {t2}
    Sweeps <- TwoSweeps
    Kind <- OneOfEach
    MaxStops = 1
    None = None
INVARIANTS MeasuredUnlessGivenUp
PROPERTIES  CallerResumes
CHECK_DEADLOCK FALSE

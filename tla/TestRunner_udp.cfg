SPECIFICATION Spec
CONSTANTS
    c1 = c1
    c2 = c2
    t1 = t1
    t2 = t2
    Callers = {c1, c2}
    Tags = {t1, t2}
    FullTags = {t2}
    Sweeps <- TwoSweeps
    Kind <- AllUdp
    MaxStops = 0
    None = None
INVARIANTS AppliedToMeasured
CHECK_DEADLOCK FALSE

\* No symmetry: it is unsound for liveness.
SPECIFICATION FairSpec
CONSTANTS
    Conns = {c1, c2}
    Instances = {x1, x2}
    Closers = {k1}
    Idle = 1
    None = None
INVARIANTS ActiveCounts ExactlyOneOwner ClosedStaysCold TeardownReachesAll
PROPERTIES CloseComesToRest AcceptedIsServed IdleIsSwept
CHECK_DEADLOCK FALSE

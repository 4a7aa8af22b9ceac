SPECIFICATION ConfSpec
CONSTANTS
    s1 = s1
    s2 = s2
    x1 = x1
    x2 = x2
    f = f
    e = e
    Sing = {s1, s2}
    Xray = {x1, x2}
    Full = {f}
    Extra = {e}
    Warp = Warp
    Bridge = Bridge
    Ent = Ent
    NoHop = NoHop
    Items <- MCItems
    Ends = {NoHop, s2, x2, f}
    Routes <- MCRoutes
    Pools <- MCPools
INVARIANTS  CreditedOnce
CHECK_DEADLOCK FALSE

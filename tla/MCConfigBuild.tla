--------------------------- MODULE MCConfigBuild ---------------------------
EXTENDS ConfigBuild

CONSTANTS s1, s2, x1, x2, f, e
Single(p) == [chain |-> FALSE, list |-> <<p>>]
Chain(s) == [chain |-> TRUE, list |-> s]

\* Every profile, every chain of two, and those of three that change cores twice.
MCItems ==
    {Single(p) : p \in {s1, x1, f, e}} \cup {Chain(<<p, q>>) : p, q \in {s1, s2, x1, x2, f, e}}
    \cup {Chain(<<s1, x1, s2>>), Chain(<<s1, x1, x2>>), Chain(<<x1, x2, s2>>), Chain(<<x1, s1, x2>>)}
MCRoutes ==
    LET some == {Single(s2), Single(x2), Single(f), Chain(<<s1, x1>>), Chain(<<x1, s1>>)}
    IN  {<<>>} \cup {<<i>> : i \in some} \cup {<<i, j>> : i, j \in some}
MCPools == {<<p>> : p \in {s1, x1, f, e}} \cup {<<x1, x2>>, <<x1, f>>, <<f, s1>>, <<s2, x2>>}
=============================================================================

---------------------------- MODULE MCTestRunner ----------------------------
(* TestRunner for TLC: a sweep over two slices, the first with two boxes,   *)
(* and a short one.                                                         *)
EXTENDS TestRunner, TLC

CONSTANTS c1, c2, t1, t2

TwoSweeps == (c1 :> <<{t1, t2}, {t1}>>) @@ (c2 :> <<{t1}>>)
OneOfEach == (c1 :> "url") @@ (c2 :> "udp")
AllUrl == [c \in {c1, c2} |-> "url"]
AllUdp == [c \in {c1, c2} |-> "udp"]
=============================================================================

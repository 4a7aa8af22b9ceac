----------------------------- MODULE MCXrayGate -----------------------------
(* XrayGate for TLC.                                                        *)
EXTENDS XrayGate, TLC

Symmetric == Permutations(Conns) \cup Permutations(Instances)
                \cup Permutations(Closers)
=============================================================================

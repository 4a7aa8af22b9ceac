---------------------------- MODULE MCProbeBatch ----------------------------
(* ProbeBatch for TLC: a request that runs its probes one by one, and one   *)
(* that runs two at a time.                                                 *)
EXTENDS ProbeBatch, TLC

CONSTANTS r1, r2

OneAndTwo == (r1 :> 1) @@ (r2 :> 2)
=============================================================================

---------------------------- MODULE MCRpcChannel ----------------------------
(* RpcChannel for TLC.                                                      *)
EXTENDS RpcChannel, TLC

Symmetric == Permutations(Calls)
=============================================================================

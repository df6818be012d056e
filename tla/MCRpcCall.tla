----------------------------- MODULE MCRpcCall ------------------------------
(* Small instances of RpcCall for TLC.                                      *)
EXTENDS RpcCall, TLC

(* Addresses are interchangeable.                                           *)
Symmetry == Permutations(Addr)
=============================================================================

----------------------------- MODULE MCMtabLock -----------------------------
(* Small instances of MtabLock for TLC.                                     *)
EXTENDS MtabLock, TLC

CONSTANTS d1, d2

(* Every process mounts on the same directory; others may have mounted on   *)
(* d2.                                                                      *)
MCdir == [p \in Proc |-> d1]

Symmetry == Permutations(Proc)
=============================================================================

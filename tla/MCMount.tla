------------------------------ MODULE MCMount -------------------------------
(* Mount with every list of at most two options.                            *)
EXTENDS Mount

MCOptionLists == UNION {[1 .. n -> Item] : n \in 0 .. 2}
=============================================================================

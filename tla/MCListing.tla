----------------------------- MODULE MCListing ------------------------------
(* Listing with three names of different lengths and two streams.           *)
EXTENDS Listing

MCNames == 1 .. 3
MCEntSize == [e \in MCNames |-> IF e = 2 THEN 2 ELSE 1]
=============================================================================

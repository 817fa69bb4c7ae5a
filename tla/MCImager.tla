------------------------------ MODULE MCImager ------------------------------
(* The routes over a view of the leases; leases and sequences are alike.   *)
EXTENDS Imager, TLC
Symmetry == Permutations(Leases) \cup Permutations(Sequences)
=============================================================================

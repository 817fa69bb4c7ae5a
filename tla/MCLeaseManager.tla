--------------------------- MODULE MCLeaseManager ---------------------------
(***************************************************************************)
(* LeaseManager for TLC: symmetry of the lease ids and the requests.       *)
(***************************************************************************)
EXTENDS LeaseManager, TLC

Symmetry == Permutations(Leases) \cup Permutations(Requests)
=============================================================================

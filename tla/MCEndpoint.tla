----------------------------- MODULE MCEndpoint -----------------------------
(* Endpoint on small sets of threads and devices. *)
EXTENDS Endpoint, TLC

Symmetry == Permutations(Threads) \cup Permutations(DeviceIds)
=============================================================================

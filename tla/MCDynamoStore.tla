---------------------------- MODULE MCDynamoStore ---------------------------
(* DynamoStore on small sets of threads, devices and owners. *)
EXTENDS DynamoStore, TLC

Symmetry == Permutations(Threads) \cup Permutations(DeviceIds)
=============================================================================

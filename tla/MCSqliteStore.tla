--------------------------- MODULE MCSqliteStore ----------------------------
(* SqliteStore on small sets of threads, devices and owners. *)
EXTENDS SqliteStore, TLC

Symmetry == Permutations(Threads) \cup Permutations(DeviceIds)
              \cup Permutations(Owners)
=============================================================================

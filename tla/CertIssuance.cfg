SPECIFICATION LiveSpec
CONSTANTS
  Targets = {device, admin}
  Admins = {admin}
  CA = ca
  MaxKeys = 4
INVARIANTS IssuedVerifies NoSilentMismatch
PROPERTIES RerunRepairs
CHECK_DEADLOCK FALSE

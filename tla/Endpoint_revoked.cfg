SPECIFICATION Spec
CONSTANTS
  Threads = {t1}
  DeviceIds = {d1}
  FRESH_SECS = 1
  DARK_SECS = 2
  Never = Never
  Checks = {FALSE}
  MaxTime = 1
  MaxRows = 1
INVARIANTS RevokedRefused
SYMMETRY Symmetry

SPECIFICATION Spec
CONSTANTS
  Threads = {t1}
  DeviceIds = {d1,d2}
  Owners = {o1}
  Payloads = {p1}
  Limit = 1
  MaxTime = 0
  MaxRows = 1
  PageSize = 1
  MaxAttempts = 2
SYMMETRY Symmetry
INVARIANT AllDevicesListed

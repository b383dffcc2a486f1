SPECIFICATION LiveSpec
CONSTANTS
  Threads = {t1, t2}
  DeviceIds = {d1}
  Owners = {o1}
  Payloads = {p1}
  Limit = 1
  MaxTime = 1
  MaxRows = 2
  NoThread = NoThread
INVARIANTS OneRegistrationWins AckedUplinksKept
PROPERTIES OnlyStatusChanges ImplementsDeviceStore SomeCallCompletes

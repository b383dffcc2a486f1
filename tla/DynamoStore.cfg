SPECIFICATION Spec
CONSTANTS
  Threads = {t1,t2}
  DeviceIds = {d1}
  Owners = {o1}
  Payloads = {p1}
  Limit = 1
  MaxTime = 1
  MaxRows = 2
  PageSize = 1
  MaxAttempts = 2
SYMMETRY Symmetry
INVARIANTS OneRegistrationWins UpdatedRecordReturned ItemsComplete AckedUplinksKept AnswersNoOlder
PROPERTY OnlyStatusChanges

SPECIFICATION Spec
CONSTANTS
  Threads = {t1, t2}
  DeviceIds = {d1}
  FRESH_SECS = 1
  DARK_SECS = 2
  Never = Never
  Checks = {TRUE, FALSE}
  MaxTime = 2
  MaxRows = 1
INVARIANTS RowsNoOlder GateHolds EventAfterRow SummaryAlarmsTrue
SYMMETRY Symmetry

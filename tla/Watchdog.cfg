SPECIFICATION Spec
CONSTANTS
  DeviceIds = {d1}
  FRESH_SECS = 1
  DARK_SECS = 5
  Never = Never
  INTERVAL = 1
  Slack = 1
  MaxTime = 10
  MaxBadBoots = 1
  MaxInflight = 1
INVARIANTS OneWarnPerOutage DetectionBound
PROPERTY OnlySilentDevicesWarned

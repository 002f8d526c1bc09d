SPECIFICATION LiveSpec
CONSTANTS
  Device = {1, 2}
  MapCount <- TwoDevices
  Threshold = 3
  FailMod = 4
  Readings <- OneToldApart
  TimeMod = 2
  Timeout = 0
INVARIANTS VerdictTimely ReportsLastReading
PROPERTIES DeadGoesOffline AliveComesOnline

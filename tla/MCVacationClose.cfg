CONSTANTS
  Device = {"lamp", "fan"}
  One = "lamp"
  Start = 1
  End = 4
  Configs <- MCConfigs
  Horizon = 4
  MaxGap = 2
  Cooldown = 2
  MaxEvents = 2
SPECIFICATION FairSpec

PROPERTIES CloseSparesCooling
CHECK_DEADLOCK FALSE

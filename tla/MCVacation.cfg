CONSTANTS
  Device = {"lamp", "fan"}
  One = "lamp"
  Start = 1
  End = 5
  Configs <- MCConfigs
  Horizon = 5
  MaxGap = 2
  Cooldown = 2
  MaxEvents = 3
SPECIFICATION FairSpec
INVARIANTS TypeOK LeavesHouseDark
PROPERTIES NoRapidFlips CooldownKept EveryLightGoesOff
CHECK_DEADLOCK FALSE

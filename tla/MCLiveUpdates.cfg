CONSTANTS
  Client = {"tab1", "tab2"}
  Device = {"lamp"}
  MaxCalls = 2
  MaxEvents = 4
SPECIFICATION FairSpec
INVARIANTS TypeOK LoopServesSubscribers SuppressionSound OptimismKept
PROPERTIES WatcherConverges
CHECK_DEADLOCK FALSE

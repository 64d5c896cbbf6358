CONSTANTS
  Client = {"tab1", "tab2"}
  Device = {"lamp"}
  MaxCalls = 2
  MaxEvents = 4
SPECIFICATION FairSpec
PROPERTIES StreamConverges
CHECK_DEADLOCK FALSE

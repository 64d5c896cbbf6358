SPECIFICATION Spec
CONSTANTS
  User = {u1}
  Recorder = recorder
  Outlet = {o1}
  Plug = {p1}
  Strip = s1
  Room = {kitchen}
  o1 = o1
  p1 = p1
  s1 = s1
  kitchen = kitchen
  Load <- MCLoad
  Skew <- MCSkew
  RoomOf <- MCRoomOf
  DayLen = 2
  Drift = 1
  TTL = 1
  MaxBurst = 1
  MaxSwaps = 1
  Horizon = 5
  Interval = 5
  Retention = 4
  MaxBoots = 1
  WeekDays = 1
  MonthDays = 2
INVARIANTS
  TypeOK
  MisdatedOnlyBriefly
  ViewsAgree
PROPERTIES
  SharedReads
  TotalsOnlyGrow
  ReadsEnd

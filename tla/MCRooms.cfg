SPECIFICATION Spec
CONSTANTS
  d1 = d1
  d2 = d2
  r1 = r1
  r2 = r2
  Device = {d1, d2}
  Handled = {d1}
  RoomId = {r1, r2, r3}
  Tab = {t1, t2}
  NoRoom = NoRoom
  NoTab = NoTab
  Elsewhere = Elsewhere
  InitFile <- MCFile
  InitHosts <- MCHosts
  MaxOps = 2
  MaxFaults = 1
INVARIANTS
  TypeOK
  EditsSettle
  EditorSeesStore
SYMMETRY TabSymmetry
CHECK_DEADLOCK FALSE

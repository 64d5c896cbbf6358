CONSTANTS
  Device = {"plug", "lamp"}
  Metered = {"plug"}
  Watts = {1, 3}
  Limits = {2}
  Misses = 2
  MaxEvents = 2
SPECIFICATION FairSpec
INVARIANTS TypeOK QuietHouseQuiet
PROPERTIES OneIncidentOneAlert PowerOncePerIncident OutageAnnounced RecoveryAnnounced

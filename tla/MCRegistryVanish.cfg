CONSTANTS
  Device = {"plug", "strip"}
  Host = {h1, h2}
  h1 = h1
  h2 = h2
  Segment = {"plug"}
  Cloud = {"strip"}
  ScanSubnet = FALSE
  MaxEvents = 2
SPECIFICATION Spec
SYMMETRY Addresses
INVARIANT NeverVanishes
CHECK_DEADLOCK FALSE

SPECIFICATION Spec
CONSTANTS
  Call = {c1, c2, c3}
  MaxToken = 4
  Exclusive = TRUE
INVARIANTS
  TypeOK
  TokenNewest
PROPERTIES
  CallEnds
  AtMostOnce
CHECK_DEADLOCK FALSE

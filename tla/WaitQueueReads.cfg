SPECIFICATION FairSpec
CONSTANTS
  Users = {u1, u2}
  u1 = u1
  u2 = u2
  MaxReads = 4
INVARIANTS
  NoMissedWakeup
  ReportsAreReads
PROPERTIES
  ReadIsReported
CHECK_DEADLOCK FALSE

SPECIFICATION FairSpec
CONSTANTS
  Users = {u1, u2}
  u1 = u1
  u2 = u2
  MaxReads = 3
PROPERTIES
  EveryReadReported
CHECK_DEADLOCK FALSE

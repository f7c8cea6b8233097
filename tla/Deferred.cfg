SPECIFICATION FairSpec
CONSTANTS
  Variants <- AllVariants
  Users = {u1, u2}
  Values = {v0, v1}
  Zero = v0
  MaxInterrupts = 3
INVARIANTS
  NothingLost
  FaultsOnlyWhereKnown
PROPERTIES
  EventsServed
  Implements
CHECK_DEADLOCK FALSE

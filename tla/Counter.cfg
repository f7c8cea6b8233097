SPECIFICATION FairSpec
CONSTANTS
  NumThreads = 2
  Users = {u1, u2}
  u1 = u1
  u2 = u2
  W = 2
  Starts = {"lock_init", "create"}
INVARIANTS
  TypeOK
  ExclusiveUnlessTorn
  NothingRunsUnloaded
PROPERTIES
  LogInOrder
  Implements
  UnloadTerminates
  NobodyStarves

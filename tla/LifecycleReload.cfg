SPECIFICATION Spec
CONSTANTS
  Drivers <- OwnWorkqueueDriver
  Leaves <- MCLeaves
  SafeDrivers = {}
  Users = {u1, u2}
  u1 = u1
  u2 = u2
SYMMETRY UserSymmetry
INVARIANTS
  ReloadAfterRmmod
CHECK_DEADLOCK FALSE

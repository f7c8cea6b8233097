SPECIFICATION Spec
CONSTANTS
  Drivers <- AllDrivers
  Leaves <- MCLeaves
  SafeDrivers <- MCSafe
  Users = {u1, u2}
  u1 = u1
  u2 = u2
SYMMETRY UserSymmetry
INVARIANTS
  TypeOK
  ReleasesOnlyHeld
  DependentsFirst
  LeavesOnlyKnown
  NoOpenAcrossUnload
  HandlersReady
  AuditsAgree
CHECK_DEADLOCK FALSE

SPECIFICATION Spec
CONSTANTS
  Processes = {p1, p2}
  p1 = p1
  p2 = p2
  MaxCommands = 4
  Devices <- AllDevices
SYMMETRY ProcessSymmetry
INVARIANTS
  TypeOK
  NoOldNumber
  NoLateFactor
  NoFactorLost
PROPERTIES
  Implements
CHECK_DEADLOCK FALSE

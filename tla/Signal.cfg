SPECIFICATION Spec
CONSTANTS
  Tasks = {t1, t2, t3}
  Files = {f1, f2}
  None = None
SYMMETRY TaskFileSymmetry
INVARIANTS
  TypeOK
  RegisteredHoldsFile
  SignalsReachRegistrants
PROPERTY RegistrationKept
CHECK_DEADLOCK FALSE

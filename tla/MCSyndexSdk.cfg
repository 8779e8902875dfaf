CONSTANTS
  Limb = {1, 2}
  LimbValue = {0, 1, 2}
  BOUND = 2
  U32Max = 2
  InstitutionId = {i1, i2}
  Unregistered = Unregistered
  MaxUpdates = 3
SPECIFICATION Spec
INVARIANTS TypeOK RootIsHistory CountIsHistory

CONSTANTS
  Browser = {b1, b2}
  Form = {f1}
  Loop = {l1}
  InstitutionId <- OwnId
  Provisioned = {}
  Hash = {h1}
  NoHash = NoHash
  Cooldown = 1
  RATE_LIMIT = 1
  MAX_UPDATES = 0
  MAX_REGISTRATIONS = 2
  Faults = TRUE
SPECIFICATION Spec
SYMMETRY Symmetry
INVARIANTS TypeOK DocumentIsConsistent SharedIsLocal

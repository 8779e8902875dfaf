CONSTANTS
  Browser = {b1}
  Form = {f1}
  Loop = {l1, l2}
  InstitutionId <- OwnId
  Provisioned = {b1}
  Hash = {h1}
  NoHash = NoHash
  Cooldown = 1
  RATE_LIMIT = 2
  MAX_UPDATES = 2
  MAX_REGISTRATIONS = 3
  Faults = FALSE
SPECIFICATION FairSpec
INVARIANT DocumentIsConsistent
PROPERTY RegistrationIsShared

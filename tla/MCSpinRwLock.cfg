SPECIFICATION FairSpec
CONSTANTS
  r1 = r1
  r2 = r2
  w1 = w1
  w2 = w2
  Readers <- TwoReaders
  Writers <- OneWriter
  UsizeMax = 9
  WakeMod = 4
INVARIANTS
  StateCountsGuards
  MutualExclusion
  WakeIsOwed
PROPERTY ParkedWriterAcquires

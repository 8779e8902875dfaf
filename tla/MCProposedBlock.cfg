SPECIFICATION Spec
CONSTANTS
  a = a
  b = b
  n1 = n1
  n2 = n2
  m1 = m1
  m2 = m2
  Accounts <- MCAccounts
  Txs <- MCTxs
  Genesis <- MCGenesis
  NoteValue <- MCNoteValue
  MAX_TXS = 2
  MAX_ACCOUNTS_PER_BATCH = 2
  MAX_INPUT_NOTES_PER_BATCH = 2
  MAX_OUTPUT_NOTES_PER_BATCH = 2
  MAX_BATCHES_PER_BLOCK = 2
  MaxPending = 2
  MaxHeight = 2
INVARIANTS
  NoInflation
  ExpiredIsNotIncluded
  NullifierHasNote
PROPERTY ImplementsLedger
CHECK_DEADLOCK FALSE

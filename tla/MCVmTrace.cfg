\* All programs, fragments of one to five rows.
SPECIFICATION Spec
CONSTANTS
  MIN_STACK_DEPTH = 2
  INITIAL_STACK_TOP_IDX = 3
  STACK_BUFFER_SIZE = 8
  Values = {0, 1, 2}
  Contexts = {0, 1, 2, 3, 4, 5, 6, 7, 8, 9, 10, 11, 12, 13, 14, 15, 16, 17, 18, 19, 20, 21, 22, 23, 24, 25, 26, 27, 28, 29, 30, 31, 32, 33, 34, 35, 36, 37, 38, 39, 40, 41, 42, 43, 44, 45, 46, 47, 48}
  Procs = {0, 12, 14, 15, 16, 17, 18, 21, 24, 25, 26}
  EMPTY_WORD = 0
  None = None
  ROWS_PER_PERM = 2
  MAX_CYCLES = 48
  MAX_CONTS = 14
  Programs <- AllPrograms
  Inputs <- StackInputs
  FragmentSizes = {1, 2, 3, 5}
INVARIANTS
  SliceIsInBuffer
  OverflowMatchesBuffer
  RegularTraceIsExecution
PROPERTY ImplementsCallStack
CHECK_DEADLOCK FALSE

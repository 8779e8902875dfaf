CONSTANTS
  P = 11
  MAX_AGE = 3
  Threshold = {0, 2, 10}
  MaxAdvice = 8
  AdviceElement = {0, 1, 2, 6}
SPECIFICATION Spec
INVARIANTS ThresholdIsProved
CHECK_DEADLOCK FALSE

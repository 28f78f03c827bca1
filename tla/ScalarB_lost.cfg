CONSTANTS
  Cores = 2
  Thresholds = {0}
  Trees <- OneLine
SPECIFICATION Spec
INVARIANTS
  ResultIsComplete

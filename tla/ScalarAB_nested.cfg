CONSTANTS
  Cores = 2
  Values <- NestedValues
  Calls <- NestedCall
SPECIFICATION Spec
INVARIANTS
  ResultIsPervasive

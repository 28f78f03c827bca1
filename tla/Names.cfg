CONSTANTS
  F = F
  L = L
  Symbols = {F, L}
  Functions <- SomeFunctions
  Lambdas <- SomeLambdas
  Objects = {o1, o2, o3}
  None = None
  Care = {"waiting", "executing", "shared"}
  MaxDepth = 3
  MaxOwners = 3
SPECIFICATION Spec
SYMMETRY Symmetry
INVARIANTS TypeOK ScopesFollowSI FunctionsInUseExist LambdasAreOwned InputIsNotSafe
PROPERTIES DynamicScope

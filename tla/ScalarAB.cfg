CONSTANTS
  Cores = 2
  Values <- AllValues
  Calls <- AllCalls
SPECIFICATION Spec
INVARIANTS
  TypeOK
  ResultIsPervasive
  ItemsAreComputed
  OneOwner

CONSTANTS
  Procs = {a, b}
  General = General
  NoAP = NoAP
  Controls <- SomeControls
  MaxKeys = 1
SPECIFICATION Spec
INVARIANT RefusedOnlyAgain

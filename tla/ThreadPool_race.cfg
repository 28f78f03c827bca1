CONSTANTS
  MaxCores = 3
  JobMod = 4
  InitialCores = 3
  Requests = {2, 3}
  CreateMayFail = FALSE
SPECIFICATION Spec
INVARIANTS
  BusyIsANumberOfWorkers

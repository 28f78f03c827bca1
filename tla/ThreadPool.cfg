CONSTANTS
  MaxCores = 3
  JobMod = 4
  InitialCores = 3
  Requests <- AllRequests
  CreateMayFail = TRUE
\* a core count above the number of threads that exist makes M_join() hang;
\* that nothing else does is shown by JoinReturns
CHECK_DEADLOCK FALSE
SPECIFICATION FairSpec
CONSTRAINT BeforeRace
INVARIANTS
  TypeOK
  BusyCountsUnfinished
  JoinedJobIsComplete
  LockedPoolIsQuiet
  NoBlockedWorkerIsAwaited
PROPERTIES
  ImplementsForkJoin
  JoinReturns
  InputBlocksWorkers

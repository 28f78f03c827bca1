CONSTANTS
  Cores = 3
  Thresholds = {1, 5}
  Trees <- ManyTrees
SPECIFICATION FairSpec
INVARIANTS
  TypeOK
  OneAdder
  CellsWrittenOnce
  QueuedJobsAreFresh
  NoJobLeftOver
  FlawlessIsComplete
  AloneIsComplete
  ErrorIsReal
PROPERTIES
  EvaluationEnds

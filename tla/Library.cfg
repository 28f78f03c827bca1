CONSTANTS
  Libs = {0}
  LIB0 = 0
  Names = {"CONTINUE", "FOO"}
  EmptyWS = EmptyWS
  c1 = c1
  c2 = c2
  Contents <- TwoContents
  MaxWrites = 3
SYMMETRY Symmetry
SPECIFICATION Spec
INVARIANTS
  TypeOK
  SavedWorkIsKept
  BackupIsPrevious
  FileKnowsItsName
PROPERTIES
  ContinueBringsBack

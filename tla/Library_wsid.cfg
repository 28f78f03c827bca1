CONSTANTS
  Libs = {0, 3}
  LIB0 = 0
  Names = {"CONTINUE", "FOO"}
  EmptyWS = EmptyWS
  c1 = c1
  c2 = c2
  Contents <- TwoContents
  MaxWrites = 2
SPECIFICATION NamedSpec
INVARIANTS
  SaveUsesWsid
CHECK_DEADLOCK FALSE

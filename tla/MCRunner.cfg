SPECIFICATION Spec
CONSTANTS
  Books <- MCBooks
  Runs <- MCRuns
INVARIANTS
  TypeOK
  EveryRowReportedOnce
  DiskFollowsTheRun
  GateHolds
  FailFastHalts
  CleanMeansExecuted
  SessionsClosed
PROPERTIES
  RunEnds

SPECIFICATION Spec
CONSTANTS
  Books <- MCBooks
  Runs <- MCRuns
INVARIANT MisfitsStopOnlyThemselves

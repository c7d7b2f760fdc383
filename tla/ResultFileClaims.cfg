SPECIFICATION Spec
CONSTANTS
  Run = {r1, r2, r3}
  Seconds = {1, 2}
INVARIANT FinishedRunsStayOnRecord

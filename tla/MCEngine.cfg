SPECIFICATION FairSpec
CONSTANTS
  NRows = 3
  Src = Src
  Tgt = Tgt
  Section <- MCSection
  Plans <- MCPlans
  Controls <- MCControls
INVARIANTS
  GateHolds
  UncheckedRunsAreAnnounced
  StatusMatchesWork
  NothingRunsPastAnError
  EveryRowReportedOnce
  SavedWorkbookIsComplete
  SessionsClosed
  PassMeansExecuted
  ListedRowsFailedValidation
PROPERTIES
  DeadSectionsLeftAlone
  RunEnds
  ImplementsGate

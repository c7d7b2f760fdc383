SPECIFICATION Spec
CONSTANTS
  NRows = 3
  Src = Src
  Tgt = Tgt
  Section <- MCSection
  Plans <- MCPlans
  Controls <- MCControls
INVARIANT FailuresAreIsolated

SPECIFICATION Spec
CONSTANTS
  Digits = 2
  Tests <- MCTests
  Scalars <- MCScalars
INVARIANTS
  TolerancesAreExact
  SameValueReconciles
  ComparisonsCohere
CHECK_DEADLOCK FALSE

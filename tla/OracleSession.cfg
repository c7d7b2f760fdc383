SPECIFICATION Spec
CONSTANTS
  Query = {q1, q2, q3}
INVARIANTS
  TimeoutRestored
  AnswersAreTheServers
PROPERTIES
  ImplementsQueryExecutor

SPECIFICATION Spec
CONSTANTS
  Query = {q1, q2, q3}
INVARIANTS
  ChecksExecuteNothing
  ValuesWereRead
  VerdictsAreTheServers
  NoexecIsNeverSilent
PROPERTIES
  ImplementsQueryExecutor

SPECIFICATION StartupSpec
CONSTANTS
  Digits = 2
  Books <- MCBooks
  Samples <- MCSamples
  Starts <- MCStarts
INVARIANTS
  EveryRowHasOnePlace
  ExecutableIsComparable
  RulesAreUnambiguous
  QuestionsAreCounted
  SettingsAreEarned
CHECK_DEADLOCK FALSE

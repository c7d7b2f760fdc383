SPECIFICATION StartupSpec
CONSTANTS
  Digits = 2
  Books <- MCBooks
  Samples <- MCSamples
  Starts <- MCStarts
INVARIANT NumbersStayWithinTheTotal
CHECK_DEADLOCK FALSE

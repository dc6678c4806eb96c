SPECIFICATION BundleSpec
CONSTANTS
  LowEnd = 0
  HighEnd = 3
  Names = {1, 2}
  CounterBound = 2
  MaxActions = 3
INVARIANTS
  AcceptedIsSerial
  ListBetweenSpends
CHECK_DEADLOCK FALSE

SPECIFICATION Spec
CONSTANTS
  Room = 48
  Limit = 2000000000
  Request <- Shortest
  Run <- Long
  MaxBytes = 9999
  MaxErrors = 100
  MaxDrops = 9
INVARIANTS FirstCountersAreExact EarlyReportsAreExact

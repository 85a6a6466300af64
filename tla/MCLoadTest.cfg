\* Two loaders with two service connections each, the three applications,
\* one replacement connection for the wan client, two interactions and
\* one periodic report of an mcc worker.
CONSTANTS
  NWorkers = 2
  Flavours = {"wan", "http", "mcc"}
  ConnPerCore = 2
  MaxConns = 3
  NInteract = 2
  Duration = 1
  Width = 3
  MaxKills = 0
  MaxReports = 1
SPECIFICATION Spec
INVARIANT TypeOK
INVARIANT StartBarrier
INVARIANT SummaryComplete
INVARIANT PoolAccounting
PROPERTY TestEnds
\* The controller and the loaders exit once the test is over.
CHECK_DEADLOCK FALSE

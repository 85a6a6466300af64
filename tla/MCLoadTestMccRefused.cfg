\* Observation: an mcc worker's refused service connection runs when_failed,
\* which uncounts a connection when_ready never counted.
CONSTANTS
  NWorkers = 2
  Flavours = {"mcc"}
  ConnPerCore = 2
  MaxConns = 3
  NInteract = 2
  Duration = 1
  Width = 3
  MaxKills = 0
  MaxReports = 1
SPECIFICATION FaultSpec
INVARIANT PoolAccounting
CHECK_DEADLOCK FALSE

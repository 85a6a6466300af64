\* One loader process killed: it may die before or after its online
\* report and be started again, while the controller sees the old
\* connection's FIN in any order with the new connection's report.
CONSTANTS
  NWorkers = 2
  Flavours = {"wan"}
  ConnPerCore = 1
  MaxConns = 1
  NInteract = 1
  Duration = 1
  Width = 3
  MaxKills = 1
  MaxReports = 0
SPECIFICATION FaultSpec
INVARIANT StartBarrier
CHECK_DEADLOCK FALSE

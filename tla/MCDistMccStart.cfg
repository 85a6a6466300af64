\* The mcc client alone: its log task first runs at the start of core 0's
\* loop, racing with the workers' creation of their services.
CONSTANTS
  NCores = 2
  Width = 2
  Partials <- MCPartials
  Apps = {"mcc"}
  NumRtt = 3
  MaxSamples = 3
  Batches = {1}
  ReqDelay = 1
  LogDuration = 1
  Horizon = 4
  Duration = 2
SPECIFICATION Spec
INVARIANT NoNullRead
CHECK_DEADLOCK FALSE

\* The mcc client alone: logs after a worker stopped at the end of duration_.
CONSTANTS
  NCores = 2
  Width = 2
  Partials <- MCPartials
  Apps = {"mcc"}
  NumRtt = 3
  MaxSamples = 3
  Batches = {1}
  ReqDelay = 1
  LogDuration = 1
  Horizon = 4
  Duration = 2
SPECIFICATION Spec
INVARIANT LogNeverRepeats
CHECK_DEADLOCK FALSE

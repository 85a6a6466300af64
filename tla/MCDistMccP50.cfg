\* The mcc client alone: the 50th-RTT the log task prints.
CONSTANTS
  NCores = 2
  Width = 2
  Partials <- MCPartials
  Apps = {"mcc"}
  NumRtt = 3
  MaxSamples = 3
  Batches = {1}
  ReqDelay = 1
  LogDuration = 1
  Horizon = 4
  Duration = 2
SPECIFICATION Spec
INVARIANT LogP50
CHECK_DEADLOCK FALSE

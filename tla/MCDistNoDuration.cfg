\* The default duration of the echo client and http_loader, -d 0: run()
\* arms no end-of-test task.
CONSTANTS
  NCores = 2
  Width = 2
  Partials <- MCPartials
  Apps = {"echo", "http"}
  NumRtt = 2
  MaxSamples = 2
  Batches = {1}
  ReqDelay = 1
  LogDuration = 1
  Horizon = 4
  Duration = 0
SPECIFICATION Spec
PROPERTY AllCoresExit
CHECK_DEADLOCK FALSE

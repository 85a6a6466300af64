\* The control core and two workers, both calling end_game.
CONSTANTS
  NCores = 3
  Width = 2
  Partials <- MCPartials
  Apps = {"echo"}
  NumRtt = 2
  MaxSamples = 2
  Batches = {1}
  ReqDelay = 1
  LogDuration = 1
  Horizon = 4
  Duration = 1
SPECIFICATION Spec
PROPERTY AllCoresExit
\* Once every core has left its loop the process exits.
CHECK_DEADLOCK FALSE

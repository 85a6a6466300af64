\* The control core and one worker: the configuration of a two-core run,
\* where end_game is called on one core only; the four applications, and
\* a duration that makes the stop fall in the same second as the second
\* arming.  mcc: requests from the first second (-w 0 -s 1), a log every
\* second, up to three samples over four buckets, so that logs fall before,
\* between and after samples and on the second of the stop.
CONSTANTS
  NCores = 2
  Width = 2
  Partials <- MCPartials
  Apps = {"echo", "http", "wan", "mcc"}
  NumRtt = 3
  MaxSamples = 3
  Batches = {1, 99}
  ReqDelay = 1
  LogDuration = 1
  Horizon = 4
  Duration = 2
SPECIFICATION Spec
INVARIANT TypeOK
INVARIANT NoMissingService
PROPERTY AllCoresExit
INVARIANT OnDoneAtMostOnce
INVARIANT LogP99
INVARIANT LogCountsOnce
\* Once every core has left its loop the process exits.
CHECK_DEADLOCK FALSE

\* Two timers over a clock of five instants: enough for a periodic timer to
\* fall behind by several periods and for two entries to share a tick.
CONSTANTS
  t1 = t1
  t2 = t2
  Ids <- MCIds
  MaxTime = 4
  Periods <- MCPeriods
  Counts <- MCCounts
SPECIFICATION Spec
INVARIANT TypeOK
INVARIANT RepeatCountHonoured
PROPERTY DueTimerFires

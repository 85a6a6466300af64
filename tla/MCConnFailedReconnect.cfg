\* The mcc client on the POSIX stack of a release build: a refused connect
\* is retried by when_failed's reconnect task.
CONSTANTS
  MaxAttach = 2
  MaxSends = 2
  MaxOutput = 4
  MaxData = 1
  Stacks = {"kernel"}
  NDEBUG = TRUE
  Apps = {"mcc"}
  NInteract = 1
SPECIFICATION Spec
INVARIANT NoLeakedSocket
CHECK_DEADLOCK FALSE

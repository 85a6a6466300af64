CONSTANTS
  MaxAttach = 2
  MaxSends = 2
  MaxOutput = 4
  MaxData = 1
  Stacks = {"kernel"}
  NDEBUG = FALSE
  Apps = {"echo"}
  NInteract = 1
SPECIFICATION Spec
INVARIANT NoStaleInput
CHECK_DEADLOCK FALSE

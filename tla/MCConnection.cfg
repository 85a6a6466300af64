CONSTANTS
  MaxAttach = 2
  MaxSends = 2
  MaxOutput = 4
  MaxData = 1
  Stacks = {"kernel", "mtcp"}
  NDEBUG = TRUE
  Apps = {"echo", "http", "wan"}
  NInteract = 2
SPECIFICATION Spec
INVARIANTS TypeOK HandshakeBeforeReady NoLeakedSocket ConnectedStatMatches
PROPERTY ConnectResolves
CHECK_DEADLOCK FALSE

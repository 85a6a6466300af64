\* Rings of one slot and one application submission per pair: core 0 can
\* call stop() while its ring to a worker is still full.
CONSTANTS
  NCores = 2
  QueueLength = 1
  MaxPerPair = 1
  Kinds <- MCKinds
  SelfKinds <- MCSelfKinds
  Signals = {"SIGINT"}
SPECIFICATION Spec
PROPERTY StopTerminates
\* Once every run() has returned the process exits.
CHECK_DEADLOCK FALSE

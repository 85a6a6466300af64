\* Rings of one slot: staged envelopes pile up in pending_fifo_ behind a
\* full ring, which is where a stop could overtake earlier work.
CONSTANTS
  NCores = 2
  QueueLength = 1
  MaxPerPair = 2
  Kinds <- MCKinds
  SelfKinds <- MCSelfKinds
  Signals = {"SIGINT"}
SPECIFICATION Spec
INVARIANT TypeOK
INVARIANT WorkBeforeStopRuns
PROPERTY StopTerminatesUnlessStranded
PROPERTY SignalEndsRun
\* Once every run() has returned the process exits.
CHECK_DEADLOCK FALSE

\* Two cores, rings of one slot, two submissions per ordered pair: the
\* second submission finds the ring full and waits in the staging list.
CONSTANTS
  NCores = 2
  QueueLength = 1
  MaxPerPair = 2
  Kinds <- MCKinds
  SelfKinds <- MCSelfKinds

SPECIFICATION Spec

INVARIANT TypeOK
PROPERTY ImplementsChannel
PROPERTY EventuallyDrained

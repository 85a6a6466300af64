CONSTANTS
  Tuples = {t1}
  NBuckets = 2
  Chunks <- MCChunks
  MaxStores = 1
  NConcur = 3
  NParts <- MCNParts
  FragRate = 0
  RateBound = 0
  LenFixed = FALSE
  LenCut = 0
  MaxSegSize = 1435
  Isns <- MCIsns
  Clock <- MCClock
  NodeIds <- MCNodeIds
SPECIFICATION Spec
VIEW MCView
INVARIANT TypeOK
INVARIANT ConcurrencyBound
PROPERTY ImplementsTcpReplay
PROPERTY ConversationCompletes
PROPERTY CopyTerminates

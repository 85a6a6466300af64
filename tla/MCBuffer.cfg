CONSTANTS
  Bytes = {"a", "b"}
  Exp = 2
  MaxCap = 8
  MaxLen = 3
SPECIFICATION Spec
INVARIANT TypeOK
PROPERTY ImplementsByteQueue

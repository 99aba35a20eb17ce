SPECIFICATION Spec
CONSTANTS
  b1 = b1
  b2 = b2
  b3 = b3
  Blocks = {b1, b2, b3}
  HashSize = 2
  Hash <- MCHash
  MaxGeneration = 3
  MaxFailures = 1
INVARIANTS TypeOK ListsHoldKnown OnlyAllocatedIsFreed AbortIsDeserved VectorIsLargeEnough
PROPERTIES TestIsThorough CallsEnd

SPECIFICATION Spec
CONSTANTS
  MaxCells = 6
  MaxFailures = 0
  Block = 2
  Half = 4
  Payloads = {1}
  Blank = 0
  MaxDepth = 1
INVARIANTS AllFreed

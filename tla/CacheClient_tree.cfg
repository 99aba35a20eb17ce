SPECIFICATION Spec
CONSTANTS
  MaxCells = 5
  MaxFailures = 1
  Block = 2
  Half = 8
  Payloads = {1}
  Blank = 0
  MaxDepth = 3
INVARIANTS TypeOK OneTree FaultIsFailedLevel AllFreed
PROPERTIES IsTree FreeReturns

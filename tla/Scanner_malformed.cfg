SPECIFICATION Spec
CONSTANTS
  MaxCells = 12
  MaxFailures = 0
  Block = 2
  Half = 16
  Payloads <- Sections
  Blank <- BlankEntry
  Cases <- UnbalancedCases
  Names <- MCNames
  MaxSize = 39
  MaxDepth = 40
INVARIANTS ErrorsAreReported

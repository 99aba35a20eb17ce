SPECIFICATION Spec
CONSTANTS
  MaxCells = 12
  MaxFailures = 1
  Block = 2
  Half = 16
  Payloads <- Sections
  Blank <- BlankEntry
  Cases <- OpenCases
  Names <- MCNames
  MaxSize = 30
  MaxDepth = 31
INVARIANTS TypeOK InText
PROPERTIES ObeysClient Terminates

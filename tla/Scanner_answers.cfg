SPECIFICATION Spec
CONSTANTS
  MaxCells = 7
  MaxFailures = 2
  Block = 2
  Half = 16
  Payloads <- Sections
  Blank <- BlankEntry
  Cases <- AnswerCases
  Names <- MCNames
  MaxSize = 52
  MaxDepth = 53
INVARIANTS InText WellFormedIsCached CellsAreElements ScanFindsElement

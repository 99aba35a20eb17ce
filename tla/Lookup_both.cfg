SPECIFICATION LSpec
CONSTANTS
  MaxCells = 7
  MaxFailures = 0
  Block = 2
  Half = 16
  Payloads <- Sections
  Blank <- BlankEntry
  Cases <- LookupCases
  Names <- MCNames
  MaxSize = 39
  MaxDepth = 40
  Paths <- LookupPaths
  IndexBase = 1
INVARIANTS FindsNode MissStaysPut CountsNodes

SPECIFICATION Spec
CONSTANTS
  Ids = {d1, d2}
  Texts <- MCTexts
  Size <- MCSize
  Declaration <- MCDeclaration
  Parses = {"tree", "inner"}
  ScanCode <- MCScanCode
  Parts <- MCParts
  FlagSets <- MCFlagSets
  PageSize = 8
  MaxFailures = 1
INVARIANTS CopyReturns
SYMMETRY Interchangeable
CHECK_DEADLOCK FALSE

SPECIFICATION Spec
CONSTANTS
  Symbols <- MCSymbols
  Width <- MCWidth
  Units <- MCUnits
  BUFSIZE = 24
  MaxLong = 255
  Elements <- MCElements
  Setups <- MCSetups
  Calls <- MCCalls
INVARIANTS TypeOK AttributeFound NamesInOrder TextIsRead ValueIsRead CopyFits
PROPERTIES RequestsEnd

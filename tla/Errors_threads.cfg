SPECIFICATION Spec
CONSTANTS
  Threads = {"t1", "t2"}
  Docs = {"d1", "d2"}
  Owner <- MCOwner
  NoInfo = NoInfo
  Opening = "opening"
  Places = {"first", "second"}
  Line <- MCLine
  Faults <- MCFaults
  MaxFailures = 1
INVARIANTS TypeOK OwnErrors ScanErrorIsTold

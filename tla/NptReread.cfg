CONSTANTS
  Cells <- ThreeCells
  Values = {0, 1}
  BootMem <- Striped
  PageSize = 2
  Interval = 1
  MaxRegions = 2
  TableGpa = 1
  Optional <- NoText
  Requests <- OneMap
  MockCr3 = 7
  KernelCr3 = 8
  Nonces = {0, 5}
  MaxWrites = 3
SPECIFICATION Spec
INVARIANTS
  MismatchHandled
CHECK_DEADLOCK FALSE

CONSTANTS
  Cells <- SevenCells
  Values = {0, 1}
  BootMem <- Striped
  PageSize = 2
  Interval = 1
  MaxRegions = 3
  TableGpa = 1
  Optional <- Text
  Requests <- MapAndEmpty
  MockCr3 = 7
  KernelCr3 = 8
  Nonces = {0, 5}
  MaxWrites = 2
  PageCells = 2
  memslots <- TwoSlots
  RetryMax = 1
  Entries <- SomeEntries
  Tables <- SomeTables
  Cr3 = 0
  Gvas = {3, 6, 12}
  Gpas = {5, 10}
  MaxSize = 3
  MaxRemaps = 1
SPECIFICATION MCSpec
INVARIANTS
  TypeOK
  NoFalseAlarm
  AckedBaselined
  ReadFaithful
  OneSource
  CallsBounded
CHECK_DEADLOCK FALSE

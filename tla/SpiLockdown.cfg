CONSTANTS
  Top = 3
  MaxSleeps = 2
SPECIFICATION Spec
CHECK_DEADLOCK FALSE
INVARIANTS
  TypeOK
  CleanBootStaysLocked

SPECIFICATION Spec
CONSTANTS
  Options <- MCOptions
  Space = 12
  SeqByte = 4
  MaxDups = 1
INVARIANTS   StopsRight
CHECK_DEADLOCK FALSE

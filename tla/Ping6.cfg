SPECIFICATION Spec6
CONSTANTS
  Options <- MCOptions
  mx_dup_ck = 2
  SeqSpace = 4
  MaxDups = 0
  MaxNoBufs = 0
  MaxSent = 4
PROPERTY SweepEnds
CHECK_DEADLOCK FALSE

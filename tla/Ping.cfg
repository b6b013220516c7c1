SPECIFICATION Spec46
CONSTANTS
  Options <- MCOptions
  mx_dup_ck = 2
  SeqSpace = 4
  MaxDups = 1
  MaxNoBufs = 1
  MaxSent = 6
INVARIANTS Exact NeverMore
PROPERTIES ReportTrue ExpectedLength Finishes
CHECK_DEADLOCK FALSE

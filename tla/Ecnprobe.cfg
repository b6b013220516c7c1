SPECIFICATION Spec
CONSTANTS
  SeqSpace = 16
  ShortSpace = 4
  InitSeqs = {5, 13}
  Modes = {"ecn", "plain", "rstecn", "dropecn", "closed", "dead", "notfound", "finalone", "abort"}
  Segments = 2
  MaxAgain = 1
  CapMax = 1
  Tries = 2
INVARIANTS   VerdictRight
PROPERTIES Ends
CHECK_DEADLOCK FALSE

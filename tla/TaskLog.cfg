SPECIFICATION FairTaskSpec
CONSTANTS
  Ops = {o1, o2}
  Subs = {s1, s2}
  ChanCap = 2
  MaxLines = 3
INVARIANTS NoPanic StreamIsTheLog
PROPERTIES StreamEnds
CHECK_DEADLOCK FALSE

SPECIFICATION FairSpec
CONSTANTS
  Subs = {s1, s2}
  Boot = {}
  Names = {n1}
  Nil = Nil
  LockedSubscribe = TRUE
  MaxEvents = 2
PROPERTIES InOrder DispatcherReturns
CHECK_DEADLOCK FALSE

SPECIFICATION Spec
CONSTANTS
  Subs = {s1, s2, s3}
  Boot = {}
  Names = {n1}
  Nil = Nil
  LockedSubscribe = TRUE
  MaxEvents = 0
SYMMETRY Symmetry
INVARIANTS TypeOK 
CHECK_DEADLOCK FALSE

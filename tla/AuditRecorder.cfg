SPECIFICATION FairSpec
CONSTANTS
  Records = {r1, r2, r3, r4}
  Capacity = 1
  BatchSize = 2
  RingCap = 2
INVARIANTS RecordsAccounted FlushedBeforeClose
PROPERTIES Implements EveryRecordSettles
CHECK_DEADLOCK FALSE

SPECIFICATION Spec
CONSTANTS
  Reqs = {r1, r2, r3}
  Kinds = {"install", "update", "apply", "uninstall"}
  Versions = {v1, v2}
  StoreVersion = v2
  None = None
SYMMETRY Symmetry
INVARIANTS MarksHaveOwners DiskIsWhatRuns
PROPERTIES RollbackRestores
CHECK_DEADLOCK FALSE

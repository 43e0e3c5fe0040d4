SPECIFICATION FairStoreSpec
CONSTANTS
  Apps = {a}
  NoApp = NoApp
  MaxMounts = 2
  MaxRuns = 2
INVARIANTS OverlayIsSound
PROPERTIES NoGhost 
CHECK_DEADLOCK FALSE

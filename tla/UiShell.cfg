SPECIFICATION Spec
CONSTANTS
  Newest = 2
  MaxTokens = 2
  MaxInFlight = 2
  MaxActs = 3
INVARIANTS  OverlayIsDriven SuccessIsTheTarget
PROPERTIES GivenUpStays
CHECK_DEADLOCK FALSE

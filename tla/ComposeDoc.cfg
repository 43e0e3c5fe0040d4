SPECIFICATION DocSpec
CONSTANTS
  Text <- AnyText
  Vals = {"81"}
  ServiceKeys = {"db"}
  EntryKinds = {"ports", "volumes", "devices"}
  Scalars = {"image", "user", "network_mode", "restart"}
  InitialTexts <- Documents
  MaxRows = 2
  MaxEdits = 3
INVARIANTS    ForkIsTheUsers
CHECK_DEADLOCK FALSE

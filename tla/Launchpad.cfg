SPECIFICATION Spec
CONSTANTS
  a = a
  b = b
  Apps = {a, b}
  NoApp = NoApp
  ByTitle <- TitleOrder
  ByKey <- KeyOrder
  Running = {b}
  PowerLabApps = {a}
  MaxMounts = 2
  MaxRequests = 2
INVARIANTS OrdersAreSound  ListIsTrueWhenQuiet
PROPERTIES DropKeepsWhatIsSeen
CHECK_DEADLOCK FALSE
